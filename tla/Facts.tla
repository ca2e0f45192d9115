-------------------------------- MODULE Facts --------------------------------
(***************************************************************************)
(* What the durable context promises of facts (context_remember and        *)
(* context_forget in src/pcc/mcp_server.cpp): a key has a history of       *)
(* values, at most the last of which holds; a value supersedes the one     *)
(* before, a forgotten one just stops holding.  A call does all of it, or  *)
(* nothing and is told so, whoever else writes and whoever dies.  No two   *)
(* values of a key hold at the same time, and while the clock is steady    *)
(* none holds before the one it supersedes has ended.                      *)
(*                                                                         *)
(* That much it promises of calls that reach it apart.  When they do not,  *)
(* nothing is promised of any call; what was stored stays stored, and what *)
(* stopped being true does not come back.                                  *)
(***************************************************************************)
EXTENDS Naturals, Sequences

CONSTANTS Writers, Keys, Values, Times, Open  \* Open: until further notice

VARIABLES
  book,   \* book[k]: [value, from, to], oldest first
  asked,  \* asked[w]: the call w is in, or [op |-> "none"]
  effect, \* effect[w]: "none" yet, "done" or "refused"
  steady, \* the clock has not been set back
  apart   \* no two calls have reached the store over one connection at once

vars == <<book, asked, effect, steady, apart>>

Idle == [op |-> "none"]
Asks == [op : {"remember"}, key : Keys, value : Values] \union [op : {"forget"}, key : Keys]

Holding(k) == book[k] # <<>> /\ book[k][Len(book[k])].to = Open
Last(k) == book[k][Len(book[k])]
ClosedAt(k, t) ==
  [i \in DOMAIN book[k] |-> IF book[k][i].to = Open THEN [book[k][i] EXCEPT !.to = t]
                            ELSE book[k][i]]

(* Nothing stored of the key reaches past t.                               *)
NotBefore(k, t) ==
  \A i \in DOMAIN book[k] :
    book[k][i].from <= t /\ (book[k][i].to = Open \/ book[k][i].to <= t)

Init ==
  /\ book = [k \in Keys |-> <<>>] /\ steady = TRUE /\ apart = TRUE
  /\ asked = [w \in Writers |-> Idle] /\ effect = [w \in Writers |-> "none"]

Ask(w, call) ==
  /\ asked[w] = Idle /\ asked' = [asked EXCEPT ![w] = call] /\ UNCHANGED <<book, effect, steady, apart>>

Does(w, newBook) ==
  /\ asked[w] # Idle /\ effect[w] = "none"
  /\ book' = newBook /\ effect' = [effect EXCEPT ![w] = "done"] /\ UNCHANGED <<asked, steady, apart>>

(* The value a key has already is not stored again.                        *)
Remembers(w) ==
  /\ asked[w].op = "remember"
  /\ LET k == asked[w].key
         same == Holding(k) /\ Last(k).value = asked[w].value
     IN  \/ same /\ Does(w, book)
         \/ \E t \in Times :
              /\ ~same /\ (steady => NotBefore(k, t))
              /\ Does(w, [book EXCEPT ![k] =
                   Append(ClosedAt(k, t), [value |-> asked[w].value, from |-> t, to |-> Open])])

Forgets(w) ==
  /\ asked[w].op = "forget"
  /\ \E t \in Times : Does(w, [book EXCEPT ![asked[w].key] = ClosedAt(asked[w].key, t)])

Refused(w) ==
  /\ asked[w] # Idle /\ effect[w] = "none"
  /\ effect' = [effect EXCEPT ![w] = "refused"] /\ UNCHANGED <<book, asked, steady, apart>>

(* The call returns, or its process is gone.                               *)
Returns(w) ==
  /\ asked[w] # Idle /\ effect[w] # "none"
  /\ asked' = [asked EXCEPT ![w] = Idle] /\ effect' = [effect EXCEPT ![w] = "none"]
  /\ UNCHANGED <<book, steady, apart>>
Gone(w) ==
  /\ asked[w] # Idle
  /\ asked' = [asked EXCEPT ![w] = Idle] /\ effect' = [effect EXCEPT ![w] = "none"]
  /\ UNCHANGED <<book, steady, apart>>

ClockSetBack == steady /\ ~steady' /\ UNCHANGED <<book, asked, effect, apart>>

Next ==
  \/ \E w \in Writers :
       \/ \E call \in Asks : Ask(w, call)
       \/ Remembers(w) \/ Forgets(w) \/ Refused(w) \/ Returns(w) \/ Gone(w)
  \/ ClockSetBack

NothingLost ==
  \A k \in Keys :
    /\ DOMAIN book[k] \subseteq DOMAIN book'[k]
    /\ \A i \in DOMAIN book[k] :
         /\ book'[k][i].value = book[k][i].value /\ book'[k][i].from = book[k][i].from
         /\ book[k][i].to # Open => book'[k][i].to # Open

Spec == Init /\ [][IF apart' THEN Next ELSE NothingLost]_vars
=============================================================================
