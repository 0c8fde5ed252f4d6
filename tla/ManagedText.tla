---------------------------- MODULE ManagedText ----------------------------
(***************************************************************************)
(* The text of one Wiki page: the two regions between markers that         *)
(* llm_wiki.py reads and rewrites, and the user's text around them, which  *)
(* the user edits as he likes (managed.py, plan_page_mutation of page.py). *)
(*                                                                         *)
(* A text is a sequence of tokens: markers, newlines, lines of the managed *)
(* fields, of the managed body and of the user.  A lone CR is left out.    *)
(* Checking the plan and writing the file are one step here; the steps     *)
(* between them are those of VaultTransaction.                             *)
(***************************************************************************)
EXTENDS Naturals, FiniteSets, SequencesExt

CONSTANTS Fields,       \* the encoded managed fields, one token each
          Bodies,       \* managed bodies of payloads
          UserLines,    \* lines the user may add
          FirstTexts,   \* what the file may hold before it is managed
          MaxApplies,   \* bound on applied mutations
          MaxEdits      \* bound on edits

Newlines == {"LF", "CRLF"}
Markers  == {"frontmatter:start", "frontmatter:end", "managed:start", "managed:end"}
UserLine == "user"

NoFile   == <<"no file">>
Conflict == <<"conflict">>
Mutation == [body : Bodies, fields : Fields, takeover : BOOLEAN]

\* What a text can hold.
Tokens == Newlines \cup Markers \cup Fields \cup UserLines \cup {"---"}
            \cup UNION {Range(t) : t \in Bodies \cup FirstTexts}

ASSUME BoundsAssumption == MaxApplies \in Nat /\ MaxEdits \in Nat

\* Encoded fields are keys, ids and checksums, never a delimiter.
ASSUME TokensAssumption ==
  /\ \A t \in Bodies \cup FirstTexts : t \in Seq(Range(t))
  /\ Fields \cap (Newlines \cup Markers \cup {"---"}) = {}
  /\ "conflict" \notin Tokens /\ "no file" \notin Tokens

VARIABLES
  text,       \* the file, or NoFile
  record,     \* what its page record is the checksum of
  applies,    \* counters for the bounds
  edits

vars == <<text, record, applies, edits>>

-----------------------------------------------------------------------------
(* managed.py *)

Count(t, k) == Cardinality({i \in DOMAIN t : t[i] = k})
At(t, k)    == CHOOSE i \in DOMAIN t : t[i] = k

detect_newline(t) == IF "CRLF" \in Range(t) THEN "CRLF" ELSE "LF"
normalize_content_newlines(c, nl) == [i \in DOMAIN c |-> IF c[i] \in Newlines THEN nl ELSE c[i]]
TrimEnd(c) == SubSeq(c, 1, Max({0} \cup {i \in DOMAIN c : c[i] \notin Newlines}))
canonical_managed_body(c) == TrimEnd(normalize_content_newlines(c, "LF"))

\* Seeded fault: what is read starts with the first marker and ends with the text.
ContentToEnd(t, start, end) == SelectSeq(SubSeq(t, At(t, start) + 1, Len(t)), LAMBDA k : k # end)

Content(t, start, end) == SubSeq(t, At(t, start) + 1, At(t, end) - 1)

extract_single_region(t, start, end) ==
  IF Count(t, start) # 1 \/ Count(t, end) # 1 \/ At(t, end) < At(t, start) THEN Conflict
  ELSE LET c == Content(t, start, end)
       IN  canonical_managed_body(IF c # <<>> /\ Head(c) \in Newlines THEN Tail(c) ELSE c)

\* Seeded fault: the newlines at the end of the payload are written as well.
NewContentUntrimmed(c, nl) == normalize_content_newlines(c, nl)

NewContent(c, nl) == TrimEnd(normalize_content_newlines(c, nl))

\* Seeded fault: the text after the end marker is not taken over.
EndMarkerOnly(t, end) == <<end, detect_newline(t)>>

FromEndMarker(t, end) == SubSeq(t, At(t, end), Len(t))

replace_region(t, c, start, end, takeover) ==
  LET nl      == detect_newline(t)
      content == <<nl>> \o NewContent(c, nl) \o <<nl>>
  IN  IF Count(t, start) # Count(t, end) \/ Count(t, start) > 1 THEN Conflict
      ELSE IF Count(t, start) = 1
      THEN IF At(t, end) < At(t, start) THEN Conflict
           ELSE SubSeq(t, 1, At(t, start)) \o content \o FromEndMarker(t, end)
      ELSE IF ~takeover THEN Conflict
      ELSE t \o (IF t = <<>> \/ Last(t) = nl THEN <<>> ELSE <<nl>>)
             \o <<start>> \o content \o <<end, nl>>

replace_managed_body(t, body, takeover) ==
  replace_region(t, body, "managed:start", "managed:end", takeover)

\* split_frontmatter: the YAML block at the top, closed by the first line "---".
Closings(t) ==
  LET nl == detect_newline(t)
  IN  {i \in 3 .. Len(t) - 2 : t[i] = nl /\ t[i + 1] = "---" /\ t[i + 2] = nl}
HasFrontmatter(t) == IsPrefix(<<"---", detect_newline(t)>>, t) /\ Closings(t) # {}
Frontmatter(t)    == SubSeq(t, 3, Min(Closings(t)) - 1)
AfterFrontmatter(t) == SubSeq(t, Min(Closings(t)) + 3, Len(t))

replace_frontmatter_region(t, fields, takeover) ==
  LET nl == detect_newline(t)
  IN  IF ~HasFrontmatter(t)
      THEN IF ~takeover \/ IsPrefix(<<"---">>, t) THEN Conflict
           ELSE <<"---", nl, "frontmatter:start", nl, fields, nl, "frontmatter:end", nl, "---", nl>> \o t
      ELSE LET updated == replace_region(Append(Frontmatter(t), nl), <<fields, nl>>,
                                         "frontmatter:start", "frontmatter:end", takeover)
           IN  IF updated = Conflict THEN Conflict
               ELSE <<"---", nl>> \o updated \o (IF Last(updated) = nl THEN <<>> ELSE <<nl>>)
                                  \o <<"---", nl>> \o AfterFrontmatter(t)

\* inspect_managed_page: the fields and the body, which the checksum is of.
Unreadable == [fields |-> {}, body |-> Conflict]
inspect_managed_page(t) ==
  IF ~HasFrontmatter(t) THEN Unreadable
  ELSE LET region == extract_single_region(Frontmatter(t), "frontmatter:start", "frontmatter:end")
           lines  == {i \in DOMAIN region : region[i] \notin Newlines}
           fields == {region[i] : i \in lines}
           body   == extract_single_region(AfterFrontmatter(t), "managed:start", "managed:end")
       IN  IF Conflict \in {region, body} \/ ~(fields \subseteq Fields) \/ Cardinality(lines) > 1
           THEN Unreadable
           ELSE [fields |-> fields, body |-> body]

-----------------------------------------------------------------------------
(* plan_page_mutation *)

\* Seeded fault: the newlines of the payload are written as they are.
BodyAsGiven(m) == m.body

BodyOf(m) == canonical_managed_body(m.body)

new_page(m) ==
  <<"---", "LF", "frontmatter:start", "LF", m.fields, "LF", "frontmatter:end", "LF", "---", "LF",
    "managed:start", "LF">> \o BodyOf(m) \o <<"LF", "managed:end", "LF">>

Rewritten(t, m, takeover) ==
  LET front == replace_frontmatter_region(t, m.fields, takeover)
  IN  IF front = Conflict THEN Conflict
      ELSE replace_managed_body(front, BodyOf(m), takeover)

\* What a mutation makes of the text t with page record r.  Its expected checksum
\* is the current one: with another it is refused.
Rendered(t, r, m) ==
  LET current == inspect_managed_page(t)
  IN  CASE t = NoFile /\ r = Unreadable -> new_page(m)
        [] t # NoFile /\ current = Unreadable /\ m.takeover -> Rewritten(t, m, TRUE)
        [] t # NoFile /\ current # Unreadable /\ current = r -> Rewritten(t, m, FALSE)
        [] OTHER -> Conflict

Init ==
  /\ text \in FirstTexts \cup {NoFile}
  /\ record = Unreadable
  /\ applies = 0 /\ edits = 0

\* The mutation is written if it is no conflict, and its page recorded; a text
\* that does not change is not written.
Apply(m) ==
  /\ applies < MaxApplies
  /\ applies' = applies + 1
  /\ UNCHANGED edits
  /\ LET rendered == Rendered(text, record, m) IN rendered # Conflict /\ text' = rendered
  /\ record' = [fields |-> {m.fields}, body |-> canonical_managed_body(m.body)]

Edited ==
  /\ text # NoFile
  /\ edits < MaxEdits
  /\ edits' = edits + 1
  /\ UNCHANGED <<record, applies>>

\* The user puts a line behind the first i tokens.
InsertLine(i, line, nl) ==
  /\ i # 0 => text[i] \in Newlines
  /\ text' = SubSeq(text, 1, i) \o <<line, nl>> \o SubSeq(text, i + 1, Len(text))
  /\ Edited

DeleteLine(i) ==
  /\ text[i] \notin Newlines /\ i < Len(text) /\ text[i + 1] \in Newlines
  /\ text' = SubSeq(text, 1, i - 1) \o SubSeq(text, i + 2, Len(text))
  /\ Edited

\* An editor saves the whole file with other newlines.
ConvertNewlines(nl) ==
  /\ text' = normalize_content_newlines(text, nl)
  /\ text' # text
  /\ Edited

Edit ==
  \/ \E i \in 0 .. Len(text), line \in UserLines, nl \in Newlines :
       InsertLine(i, line, nl)
  \/ \E i \in DOMAIN text : DeleteLine(i)
  \/ \E nl \in Newlines : ConvertNewlines(nl)

Next == Edit \/ \E m \in Mutation : Apply(m)

Spec == Init /\ [][Next]_vars

-----------------------------------------------------------------------------
(* Properties *)

HasMarker(body) == \E i \in DOMAIN body : body[i] \in {"managed:start", "managed:end"}

\* The user's frontmatter holds the marker that the managed body starts with.
StartInFront == HasFrontmatter(text) /\ "managed:start" \in Range(Frontmatter(text))

\* What a mutation writes is read back as what its page record is the checksum
\* of, whatever newlines payload and file have and whatever the user did to the
\* file; unless the body holds a marker, which no one looks for, or the region
\* starts in the frontmatter, where it is written but not read.
WrittenIsReadBack ==
  [][\A m \in Mutation : Apply(m) /\ ~StartInFront =>
       ((inspect_managed_page(text') = record') <=> ~HasMarker(m.body))]_vars

\* Applied again, the mutation leaves the file as it is, unless the body holds a
\* marker or the region starts in the frontmatter: then the second mutation does
\* not find what the first one wrote.
AppliedTwiceIsOnce ==
  [][\A m \in Mutation : Apply(m) /\ ~StartInFront /\ ~HasMarker(m.body) =>
       Rendered(text', record', m) = text']_vars

\* The place behind token i is between a start marker and the next end marker.
InRegion(t, i, start, end) ==
  \E j \in 1 .. i, k \in (i + 1) .. Len(t) :
    /\ t[j] = start /\ t[k] = end
    /\ \A n \in (j + 1) .. (k - 1) : t[n] \notin {start, end}
Inside(t, i) == \/ InRegion(t, i, "frontmatter:start", "frontmatter:end")
                \/ InRegion(t, i, "managed:start", "managed:end")
LinesOutside(t) == Cardinality({i \in DOMAIN t : t[i] = UserLine /\ ~Inside(t, i)})

\* A marker of one region stands within the other one.
Tangled(t) ==
  \E i \in DOMAIN t :
    \/ t[i] \in {"managed:start", "managed:end"}
         /\ InRegion(t, i, "frontmatter:start", "frontmatter:end")
    \/ t[i] \in {"frontmatter:start", "frontmatter:end"}
         /\ InRegion(t, i, "managed:start", "managed:end")

\* No mutation takes away a line that the user wrote outside of the regions,
\* whatever is damaged, unless the regions are tangled or the body holds a marker
\* of the other region.
UserLinesKept ==
  [][\A m \in Mutation :
       Apply(m) /\ ~Tangled(text) /\ {"frontmatter:start", "frontmatter:end"} \cap Range(m.body) = {} =>
         LinesOutside(text') >= LinesOutside(text)]_vars

\* A line that the user adds below the frontmatter, outside of the region and
\* with the newline that the file is read with, does not change what is read.
UserMayWrite ==
  [][edits' # edits /\ HasFrontmatter(text) /\ inspect_managed_page(text') # inspect_managed_page(text) =>
       ~\E i \in (Min(Closings(text)) + 2) .. Len(text) :
          ~Inside(text, i) /\ InsertLine(i, UserLine, detect_newline(text))]_vars

=============================================================================
