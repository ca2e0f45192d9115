----------------------------- MODULE MCMission ------------------------------
(* The batches are every call alone and those whose order matters.  The    *)
(* prompts begin alike or with one of two pictures, so that each way of    *)
(* reusing the last generation comes up.                                   *)
EXTENDS Mission

CONSTANTS nothing, bytes

Only(kind) == [kind |-> kind]
New(kind) == [kind |-> kind, again |-> FALSE]
MCBatches ==
  {<<c>> : c \in Calls} \union
  {<<Only("write"), Only("read"), Only("read")>>,
   <<Only("read"), Only("write")>>,
   <<Only("refused"), Only("write")>>,
   <<[kind |-> "plan", open |-> FALSE], New("finish")>>,
   <<Only("write"), New("finish")>>,
   <<Only("write"), New("ask")>>,
   <<Only("read"), New("finish")>>}

MCSections ==
  {[to |-> bytes, add |-> TRUE], [to |-> bytes, add |-> FALSE], [to |-> Absent, add |-> FALSE]}

Text(id) == [id |-> id, image |-> ""]
Pad(image) == [id |-> "pad", image |-> image]
MCStable ==
  {<<Text("a")>>, <<Text("a"), Text("b"), Text("a")>>, <<Pad("x"), Text("a")>>,
   <<Pad("y"), Text("a")>>}
MCLive == {<<>>, <<Text("b")>>}
MCPrimer == Text("think")
MCGenerated == {Text("a"), Text("b")}

(* A call is a word and its closer, which has two spellings; another word  *)
(* leads where nothing may follow.                                         *)
MCWords == {"word", "head", "tail"}
MCBytes == [word |-> <<"whole">>, head |-> <<"head">>, tail |-> <<"tail">>]
MCGuardStates == {"opened", "named", "stuck", "whole"}
MCFed ==
  [f \in MCGuardStates \X (MCWords \union {"call_close"}) |->
    CASE f = <<"opened", "word">> -> "named"
      [] f = <<"opened", "head">> -> "stuck"
      [] f \in {<<"named", "tail">>, <<"named", "call_close">>} -> "whole"
      [] OTHER -> "error"]

(* The root has a directory d and a file f, d a file f.  The main thread   *)
(* does one of these, another thread lists the root meanwhile.             *)
MCTree ==
  [d \in {"root", "sub", "made", "outside"} |->
    [n \in {"d", "f"} |->
       CASE d = "root" /\ n = "d" -> Dir("sub")
         [] d = "root" -> File("file")
         [] d = "sub" /\ n = "f" -> File("other")
         [] d = "outside" /\ n = "f" -> File("beyond")
         [] OTHER -> Nothing]]
Move(in, n, to) == [in |-> in, name |-> n, to |-> to]
MCMoves ==
  {Move("root", "d", to) : to \in {Link("outside"), Nothing, Dir("sub")}} \union
  {Move("sub", "f", to) : to \in {Link("beyond"), Dir("made"), Nothing}}
Deep == <<"d", "f">>
Ask(kind, parts) ==
  [what |-> kind, parts |-> parts, from |-> "here", create |-> TRUE, claim |-> "any"]
MCAsked ==
  [main |->
     {Ask("list", <<>>), Ask("list", <<"d">>), Ask("read", Deep), Ask("read", <<>>),
      Ask("read", <<"d", "..", "f">>), [Ask("read", <<"f">>) EXCEPT !.from = "another root"],
      Ask("contain", Deep), Ask("contain", <<>>), Ask("remove", <<"d">>),
      [Ask("remove", <<".", "f">>) EXCEPT !.claim = "old"],
      [Ask("write", Deep) EXCEPT !.create = FALSE]} \union
     {[Ask("write", Deep) EXCEPT !.claim = claim] : claim \in {"any", "old", "absent"}},
   pool |-> {Ask("list", <<>>)}]
=============================================================================
