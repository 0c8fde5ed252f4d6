---------------------------- MODULE MCLinkGraph ----------------------------
(* Small instances of LinkGraph: a Wiki of an index, a log and three pages, of  *)
(* which two have names that differ in case only, and a note of that name.      *)
EXTENDS LinkGraph

Md(name) == <<name, "md">>

MCVault == <<>>
MCFolder == <<<<"control">>>>

MCFold == [part \in {"a", "A", "b", "2", "md", "index", "log", "wiki", "topics", "notes", "control"} |->
            IF part = "A" THEN "a" ELSE part]

OrderOf(control) ==
  <<control \o <<<<"wiki">>, Md("A")>>,
    control \o <<<<"wiki">>, Md("index")>>,
    control \o <<<<"wiki">>, Md("log")>>,
    control \o <<<<"wiki">>, <<"topics">>, Md("a")>>,
    control \o <<<<"wiki">>, <<"topics">>, <<"b", "2", "md">>>>,
    <<<<"notes">>, Md("a")>>>>

MCOrderVault   == OrderOf(MCVault)
MCOrderFolder  == OrderOf(MCFolder)
MCDocuments    == {<<<<"notes">>, Md("a")>>}

Wikilink(from, path) == [kind |-> "wikilink", from |-> from, path |-> path]
MarkdownLink(from, path) == [kind |-> "markdown", from |-> from, path |-> path]

MCLinks ==
  {Wikilink("plain", <<<<"a">>>>),
   Wikilink("plain", <<<<"wiki">>, <<"topics">>, <<"a">>>>),
   Wikilink("plain", <<<<"wiki">>, <<"topics">>, <<"b", "2">>>>),
   Wikilink("parent", <<<<"A">>>>),
   MarkdownLink("plain", <<<<"topics">>, <<"b", "2", "md">>>>)}
============================================================================
