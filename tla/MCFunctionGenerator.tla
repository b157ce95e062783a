------------------------ MODULE MCFunctionGenerator ------------------------
(***************************************************************************)
(* FunctionGenerator on skeletons built by the operators of ControlFlow:   *)
(* one structure between entry and end block, or one with a block replaced *)
(* by another structure.                                                   *)
(***************************************************************************)
EXTENDS FunctionGenerator

\* The constructor when it is called on skeleton s.
On(s) == INSTANCE ControlFlow
  WITH MaxDepth <- 2, SeqSizes <- {2}, CaseNums <- {2}, layout <- DOMAIN s.term,
       term <- s.term, params <- s.params, parent <- 0, depth <- 1, next <- 0,
       status <- "nested"

None == [term |-> [b \in {} |-> 0], params |-> {}]

Skeleton(c) == [term |-> On(None)!RootTerm(c), params |-> c.params]

\* Skeleton s with its block r replaced by structure c.
With(s, r, c) ==
  [term |-> On(s)!Spliced(c, r), params |-> (s.params \cup c.params) \ {r}]

If == Skeleton(On(None)!IfElse(2))
Loop == Skeleton(On(None)!While(2))
Table == Skeleton(On(None)!Switch(2, 2))

\* A loop whose condition is an if-else, a loop followed by a loop, and a switch
\* whose default case is a loop.
Nested ==
  {With(Loop, 2, On(None)!IfElse(5)), With(Loop, 4, On(None)!While(5)),
   With(Table, 3, On(None)!While(7))}

MCSkeletons == Nested \cup {If, Loop}

\* The functions with the small skeletons call two others.
MCCalleesOf ==
  [s \in MCSkeletons |->
     IF s \in Nested THEN <<>>
     ELSE <<[params |-> {"i32"}, returns |-> {"i32"}],
            [params |-> {"i64"}, returns |-> {"i32"}]>>]

MCMaxReads == [s \in MCSkeletons |-> IF s \in Nested THEN 2 ELSE 1]

MCSigParams == <<"i64">>
============================================================================
