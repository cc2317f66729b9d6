--------------------------- MODULE MCAgentFiles ---------------------------
(***************************************************************************)
(* An instance of AgentFiles for TLC: two names, texts of up to three lines  *)
(* and one request of each kind, with line numbers at the boundaries.         *)
(***************************************************************************)
EXTENDS AgentFiles

Letters == {"a", "b", NL, Star}

One == <<"a", "b", "a">>
Two == <<"b", "a">>

TwoFiles == One :> <<"a", NL, "b", NL>> @@ Two :> <<"b">>

Ask == [op |-> "", name |-> One, to |-> Two, first |-> 0, last |-> 0,
        old |-> <<"b">>, new |-> <<"a", "a">>, pattern |-> <<>>]

Edits ==
  {[Ask EXCEPT !.op = op] : op \in {"replace", "patch"}}
  \union {[Ask EXCEPT !.op = "replace", !.name = Two, !.old = <<>>]}
  \union {[Ask EXCEPT !.op = "insert", !.first = k] : k \in {0, 1, 9}}
  \union {[Ask EXCEPT !.op = "delete", !.first = r[1], !.last = r[2]] :
             r \in {<<0, 1>>, <<1, 1>>, <<2, 9>>, <<2, 1>>}}

Others ==
  {[Ask EXCEPT !.op = "write"], [Ask EXCEPT !.op = "write", !.name = Two, !.new = <<>>],
   [Ask EXCEPT !.op = "copy"], [Ask EXCEPT !.op = "copy", !.to = One],
   [Ask EXCEPT !.op = "mv"], [Ask EXCEPT !.op = "mv", !.name = Two, !.to = One],
   [Ask EXCEPT !.op = "rm"]}

Finds ==
  {[Ask EXCEPT !.op = "find", !.pattern = p] :
     p \in {<<Star>>, <<"b">>, <<"a", Star>>, <<Star, "a">>, <<"a", Star, "b", Star, "a">>,
            <<Star, "b", Star, "a", Star>>}}

Everything == Edits \union Others \union Finds

=============================================================================
