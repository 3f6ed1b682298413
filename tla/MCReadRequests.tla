--------------------------- MODULE MCReadRequests ---------------------------
(* A small instance of ReadRequests for TLC. *)
EXTENDS ReadRequests, TLC

Dir     == [kind |-> "dir",  to |-> <<>>, size |-> 0]
File(n) == [kind |-> "file", to |-> <<>>, size |-> n]
Link(p) == [kind |-> "link", to |-> p, size |-> 0]

\* /mnt is a link to /data, which has a directory, a link to it, and files.
SmallTree ==
  (<<>> :> Dir)
  @@ (<<"data">> :> Dir) @@ (<<"mnt">> :> Link(<<"data">>))
  @@ (<<"data", "sub">> :> Dir) @@ (<<"data", "lnk">> :> Link(<<"data", "sub">>))
  @@ (<<"data", "a">> :> File(2)) @@ (<<"data", "sub", "a">> :> File(0))
  @@ (<<"data", "sub", "sub">> :> File(0))

TwoMounts ==
  << [name |-> "", path |-> <<"", "data">>], [name |-> "m", path |-> <<"", "mnt">>],
     [name |-> "x", path |-> <<"">>], [name |-> "m", path |-> <<"", "data", "sub">>] >>

Order == << "a", "lnk", "long", "sub", "data", "mnt" >>

Changing == {<<"data", "a">>, <<"data", "lnk">>}
Nodes    == {File(0), Link(<<"gone">>), Link(<<"data">>)}

Asked == {<<"", "">>, <<"a">>, <<"lnk">>, <<"..", "a">>}

\* All paths of up to three components.
Part == {"", ".", "..", "a", "lnk", "sub", "long"}
AllSpellings == UNION {[1 .. n -> Part] : n \in 1 .. 3}
ShortSpellings == UNION {[1 .. n -> Part] : n \in 1 .. 2}
=============================================================================
