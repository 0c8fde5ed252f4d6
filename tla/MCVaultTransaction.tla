------------------------- MODULE MCVaultTransaction -------------------------
(* Small instances of VaultTransaction. *)
EXTENDS DoctorChecks, TLC

CONSTANTS p1, p2

Symmetry == Permutations({p1, p2})

\* One source; an ingest that creates its proxy page, a `page apply` that takes
\* the same page over, a rebuild.
Page(a, text, takeover) == [path |-> a, text |-> text, takeover |-> takeover]
Ingest(s, a, seq) == [kind |-> "ingest", source |-> s, proxy |-> a, pages |-> seq]
Apply(seq) == [kind |-> "page", source |-> NoName, proxy |-> NoName, pages |-> seq]
Rebuild == [kind |-> "rebuild", source |-> NoName, proxy |-> NoName, pages |-> <<>>]

MCRequests == {Ingest("s", "a", <<Page("a", "t", FALSE)>>),
               Apply(<<Page("a", "u", TRUE)>>),
               Rebuild}

\* Two sources that share page b, the first ingest writing two pages; a `page
\* apply` on the shared page, a rebuild.
MCSharedRequests ==
  {Ingest("s", "a", <<Page("a", "t", TRUE), Page("b", "t", FALSE)>>),
   Ingest("z", "b", <<Page("b", "u", FALSE)>>),
   Apply(<<Page("b", "u", TRUE)>>),
   Rebuild}
=============================================================================
