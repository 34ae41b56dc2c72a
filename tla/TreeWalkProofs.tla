---------------------------- MODULE TreeWalkProofs ----------------------------
(***************************************************************************)
(* Type correctness of TreeWalk, how far rm_r goes for any tree, and what  *)
(* the walks do to a tree without links to directories.                    *)
(***************************************************************************)
EXTENDS TreeWalk, SequenceTheorems, TLAPS

\* The innermost directory is an open directory.
LEMMA HereType ==
  ASSUME TypeOK, Running
  PROVE  /\ Len(stack) \in DOMAIN stack
         /\ Here \in Frame
         /\ Here = stack[Len(stack)]
  BY DEF TypeOK, Running, Here

LEMMA OpenType ==
  ASSUME TypeOK, NEW d \in Entry, NEW v \in Entry
  PROVE  Open(d, v) \in Frame
  BY DEF TypeOK, Open, Frame, Children

LEMMA PastType ==
  ASSUME TypeOK, Running, NEW e
  PROVE  /\ Past(e) \in Seq(Frame)
         /\ Len(Past(e)) = Len(stack)
         /\ \A k \in DOMAIN stack : /\ Past(e)[k].dir = stack[k].dir
                                    /\ Past(e)[k].via = stack[k].via
                                    /\ Past(e)[k].left \subseteq stack[k].left
<1>1. [Here EXCEPT !.left = @ \ {e}] \in Frame
  BY HereType DEF Frame
<1> QED
  BY <1>1, HereType DEF TypeOK, Past, Here, Frame

\* How a call returns.
LEMMA ReturnType ==
  ASSUME NEW r \in {"OK", "failed"}, Return(r)
  PROVE  /\ stack' \in Seq(Frame) /\ stack' = <<>>
         /\ ret' \in {"none", "OK", "failed"}
<1>1. <<>> \in Seq(Frame)
  BY EmptySeq
<1> QED
  BY <1>1 DEF Return

\* What a level of the recursion returns to.
LEMMA LeaveType ==
  ASSUME TypeOK, Running, Leave
  PROVE  /\ stack' \in Seq(Frame)
         /\ ret' \in {"none", "OK", "failed"}
         /\ Len(stack') \in Nat /\ Len(stack') <= Len(stack)
         /\ \A k \in DOMAIN stack' : stack'[k] = stack[k]
<1>1. Len(stack) \in Nat /\ Len(stack) > 0
  BY HereType DEF TypeOK
<1>2. CASE Len(stack) = 1
  BY <1>1, <1>2, ReturnType DEF Leave
<1>3. CASE Len(stack) # 1
  BY <1>1, <1>3 DEF Leave, TypeOK
<1> QED
  BY <1>2, <1>3

\* The frames after another process created e.
LEMMA CreateStack ==
  ASSUME TypeOK, NEW e \in Entry, Create(e)
  PROVE  /\ stack' \in Seq(Frame)
         /\ Len(stack') = Len(stack)
         /\ \A k \in DOMAIN stack :
              /\ stack'[k].dir = stack[k].dir
              /\ stack'[k].via = stack[k].via
              /\ stack'[k].left \subseteq stack[k].left \cup {e}
              /\ stack[k].dir # tree[e].dir => stack'[k].left = stack[k].left
<1>1. PICK K \in SUBSET {k \in DOMAIN stack : stack[k].dir = tree[e].dir} :
        stack' = [k \in DOMAIN stack |->
                    IF k \in K THEN [stack[k] EXCEPT !.left = @ \cup {e}] ELSE stack[k]]
  BY DEF Create
<1>2. Len(stack) \in Nat /\ DOMAIN stack = 1..Len(stack)
  BY DEF TypeOK
<1>3. ASSUME NEW k \in DOMAIN stack
      PROVE  /\ stack'[k] \in Frame
             /\ stack'[k].dir = stack[k].dir
             /\ stack'[k].via = stack[k].via
             /\ stack'[k].left \subseteq stack[k].left \cup {e}
             /\ stack[k].dir # tree[e].dir => stack'[k].left = stack[k].left
  <2>1. stack[k] \in Frame
    BY <1>2, <1>3 DEF TypeOK
  <2>2. stack'[k] = IF k \in K THEN [stack[k] EXCEPT !.left = @ \cup {e}] ELSE stack[k]
    BY <1>1, <1>3
  <2>3. k \in K => stack[k].dir = tree[e].dir
    BY <1>1
  <2> QED
    BY <2>1, <2>2, <2>3 DEF Frame
<1>4. stack' \in [1..Len(stack) -> Frame]
  <2> DEFINE F(k) == IF k \in K THEN [stack[k] EXCEPT !.left = @ \cup {e}] ELSE stack[k]
  <2>1. \A k \in 1..Len(stack) : F(k) \in Frame
    BY <1>1, <1>2, <1>3
  <2>2. stack' = [k \in 1..Len(stack) |-> F(k)]
    BY <1>1, <1>2
  <2> HIDE DEF F
  <2> QED
    BY <2>1, <2>2
<1>5. stack' \in Seq(Frame) /\ Len(stack') = Len(stack)
  BY <1>2, <1>4, IsASeq
<1> QED
  BY <1>3, <1>5

LEMMA InitTypeOK == Init => TypeOK
<1> SUFFICES ASSUME Init PROVE TypeOK
  OBVIOUS
<1>1. <<>> \in Seq(Frame) /\ <<>> \in Seq(Entry)
  BY EmptySeq
<1> QED
  BY <1>1, TreeAssumption, LinksAssumption DEF Init, TypeOK, Running

\* One step per action.
LEMMA NextTypeOK == TypeOK /\ [Next]_vars => TypeOK'
<1> SUFFICES ASSUME TypeOK, [Next]_vars PROVE TypeOK'
  OBVIOUS
<1>1. ASSUME Call PROVE TypeOK'
  <2>1. Open(Top, Top) \in Frame /\ <<>> \in Seq(Entry)
    BY OpenType, EmptySeq, EntryAssumption
  <2> QED
    BY <1>1, <2>1, LinksAssumption DEF Call, TypeOK, Running
<1>2. ASSUME NEW e \in Entry, Enter(e) PROVE TypeOK'
  <2>1. Target(e) \in Entry
    BY <1>2, EntryAssumption DEF Enter, IsDir, Target, TypeOK, Node
  <2>2. Past(e) \in Seq(Frame) /\ Open(Target(e), e) \in Frame
    BY <1>2, <2>1, PastType, OpenType DEF Enter
  <2>3. stack' \in Seq(Frame) /\ noise \in 0..MaxNoise
    BY <1>2, <2>2 DEF Enter, TypeOK
  <2> QED
    BY <1>2, <2>3, LinksAssumption DEF Enter, TypeOK
<1>3. ASSUME NEW e \in Entry, Remove(e) PROVE TypeOK'
  <2>1. Past(e) \in Seq(Frame) /\ noise \in 0..MaxNoise
    BY <1>3, PastType DEF Remove, TypeOK
  <2> QED
    BY <1>3, <2>1, LinksAssumption DEF Remove, TypeOK
<1>4. ASSUME NEW e \in Entry, List(e) PROVE TypeOK'
  <2>1. /\ stack' \in Seq(Frame) /\ ret' \in {"none", "OK", "failed"}
        /\ noise \in 0..MaxNoise /\ listed' \in Seq(Entry)
    <3>1. Running /\ noise \in 0..MaxNoise
      BY <1>4 DEF List, TypeOK
    <3>2. CASE Return("failed") /\ UNCHANGED listed
      BY <3>1, <3>2, ReturnType DEF TypeOK
    <3>3. CASE stack' = Past(e) /\ listed' = Append(listed, e) /\ UNCHANGED ret
      <4>1. Past(e) \in Seq(Frame) /\ listed \in Seq(Entry) /\ ret \in {"none", "OK", "failed"}
        BY <3>1, PastType DEF TypeOK
      <4> QED
        BY <3>1, <3>3, <4>1
    <3> QED
      BY <1>4, <3>2, <3>3 DEF List
  <2> QED
    BY <1>4, <2>1, LinksAssumption DEF List, TypeOK
<1>5. ASSUME NEW e \in Entry, Gone(e) PROVE TypeOK'
  <2>1. /\ stack' \in Seq(Frame) /\ ret' \in {"none", "OK", "failed"}
        /\ noise \in 0..MaxNoise
    BY <1>5, PastType, ReturnType DEF Gone, TypeOK
  <2> QED
    BY <1>5, <2>1, LinksAssumption DEF Gone, TypeOK
<1>6. ASSUME Close PROVE TypeOK'
  <2>1. /\ stack' \in Seq(Frame) /\ ret' \in {"none", "OK", "failed"}
        /\ there' \subseteq there
        /\ noise \in 0..MaxNoise
    BY <1>6, LeaveType, ReturnType DEF Close, TypeOK
  <2> QED
    BY <1>6, <2>1, LinksAssumption DEF Close, TypeOK
<1>7. ASSUME Fail PROVE TypeOK'
  <2>1. /\ stack' \in Seq(Frame) /\ stack' = <<>> /\ ret' \in {"none", "OK", "failed"}
        /\ noise \in 0..MaxNoise
    BY <1>7, ReturnType DEF Fail, TypeOK
  <2> QED
    BY <1>7, <2>1, LinksAssumption DEF Fail, TypeOK, Running
<1>8. ASSUME NEW e \in Entry, Create(e) PROVE TypeOK'
  <2>1. stack' \in Seq(Frame)
    BY <1>8, CreateStack
  <2>2. noise' \in 0..MaxNoise
    BY <1>8, LinksAssumption DEF Create, TypeOK
  <2> QED
    BY <1>8, <2>1, <2>2, LinksAssumption DEF Create, TypeOK
<1>9. ASSUME NEW e \in Entry, Delete(e) PROVE TypeOK'
  <2>1. noise' \in 0..MaxNoise
    BY <1>9, LinksAssumption DEF Delete, TypeOK
  <2> QED
    BY <1>9, <2>1, LinksAssumption DEF Delete, TypeOK
<1>10. ASSUME UNCHANGED vars PROVE TypeOK'
  BY <1>10 DEF vars, TypeOK, Running
<1> QED
  BY <1>1, <1>2, <1>3, <1>4, <1>5, <1>6, <1>7, <1>8, <1>9, <1>10 DEF Next, Step

\* Every variable keeps its type, whatever the tree and the interference.
THEOREM TypeCorrect == Spec => []TypeOK
<1>1. Init => TypeOK
  BY InitTypeOK
<1>2. TypeOK /\ [Next]_vars => TypeOK'
  BY NextTypeOK
<1> QED
  BY <1>1, <1>2, PTL DEF Spec
-----------------------------------------------------------------------------
(* Without links to directories the walk stays below Top. *)

\* No directory outside is open, nor waits to be visited.
WalksInside ==
  \A k \in DOMAIN stack : /\ stack[k].dir \notin Outside
                          /\ stack[k].via \notin Outside
                          /\ stack[k].left \cap Outside = {}

\* The inductive invariant.
Inside == DirLinks = {} => Outside \subseteq there /\ WalksInside

IInv == TypeOK /\ tree \in Tree /\ Inside

\* What is in a directory of Top's tree is in Top's tree.
LEMMA ChildrenInside ==
  ASSUME tree \in Tree, NEW d \in Entry \ Outside
  PROVE  Children(d) \cap Outside = {}
  BY TreeAssumption, EntryAssumption DEF Children

\* Without links to directories, what stat takes for a directory is one.
LEMMA NoLinkFollowed ==
  ASSUME TypeOK, DirLinks = {}, NEW e \in Entry \ Outside, IsDir(e)
  PROVE  Target(e) = e
<1> SUFFICES ASSUME tree[e].kind = "link" PROVE FALSE
  BY DEF Target
<1>1. tree[e].target # Nowhere /\ tree[tree[e].target].kind = "dir"
  BY EntryAssumption DEF IsDir, Target, TypeOK
<1> QED
  BY <1>1 DEF DirLinks

LEMMA InitIInv == Init => IInv
<1> SUFFICES ASSUME Init PROVE IInv
  OBVIOUS
<1>1. Outside \subseteq there
  BY EntryAssumption DEF Init
<1>2. WalksInside
  BY DEF Init, WalksInside
<1> QED
  BY <1>1, <1>2, InitTypeOK DEF IInv, Inside, Init

LEMMA NextIInv == IInv /\ [Next]_vars => IInv'
<1> SUFFICES ASSUME IInv, [Next]_vars PROVE IInv'
  OBVIOUS
<1>1. TypeOK /\ TypeOK' /\ tree' = tree
  BY NextTypeOK DEF IInv, Next, Step, Call, Enter, Remove, List, Gone, Close, Fail,
                    Create, Delete, vars
<1>2. tree' \in Tree
  BY <1>1 DEF IInv
<1>3. SUFFICES ASSUME DirLinks = {} PROVE Outside \subseteq there' /\ WalksInside'
  BY <1>1, <1>2 DEF IInv, Inside, DirLinks
<1>4. Outside \subseteq there /\ WalksInside /\ tree \in Tree
  BY <1>3 DEF IInv, Inside
<1>5. ASSUME Running
      PROVE  /\ Len(stack) \in DOMAIN stack /\ Here = stack[Len(stack)]
             /\ Here.via \in Entry \ Outside
             /\ Here.left \subseteq Entry \ Outside
  BY <1>1, <1>4, <1>5, HereType DEF WalksInside, Frame
<1>6. ASSUME Running, NEW e
      PROVE  \A k \in DOMAIN stack : /\ Past(e)[k].dir \notin Outside
                                     /\ Past(e)[k].via \notin Outside
                                     /\ Past(e)[k].left \cap Outside = {}
  BY <1>1, <1>4, <1>6, PastType DEF WalksInside
<1>7. ASSUME Running, NEW e, stack' = Past(e) PROVE WalksInside'
  <2>1. DOMAIN Past(e) = DOMAIN stack
    BY <1>1, <1>7, PastType DEF TypeOK
  <2> QED
    BY <1>6, <1>7, <2>1 DEF WalksInside
<1>8. ASSUME stack' = <<>> PROVE WalksInside'
  BY <1>8 DEF WalksInside
<1>9. ASSUME Running, Leave PROVE WalksInside'
  <2>1. DOMAIN stack' \subseteq DOMAIN stack
    BY <1>1, <1>9, LeaveType DEF TypeOK
  <2> QED
    BY <1>1, <1>4, <1>9, <2>1, LeaveType DEF WalksInside
<1>10. CASE Call
  <2>1. Children(Top) \cap Outside = {} /\ Top \notin Outside
    BY <1>4, ChildrenInside, EntryAssumption
  <2> QED
    BY <1>4, <1>10, <2>1 DEF Call, WalksInside, Open
<1>11. ASSUME NEW e \in Entry, Enter(e) PROVE Outside \subseteq there' /\ WalksInside'
  <2>1. Running /\ e \in Entry \ Outside /\ Target(e) = e
    BY <1>1, <1>3, <1>5, <1>11, NoLinkFollowed DEF Enter
  <2>2. Children(e) \cap Outside = {}
    BY <1>4, <2>1, ChildrenInside
  <2>3. Open(e, e).dir = e /\ Open(e, e).via = e /\ Open(e, e).left = Children(e)
    BY DEF Open
  <2>4. /\ Past(e) \in Seq(Frame) /\ Len(Past(e)) = Len(stack)
        /\ DOMAIN stack = 1..Len(stack)
    BY <1>1, <2>1, PastType DEF TypeOK
  <2>5. stack' = Append(Past(e), Open(e, e))
    BY <1>11, <2>1 DEF Enter
  <2>6. ASSUME NEW k \in DOMAIN stack'
        PROVE  (k \in DOMAIN stack /\ stack'[k] = Past(e)[k]) \/ stack'[k] = Open(e, e)
    BY <2>4, <2>5, <2>6
  <2>7. WalksInside'
    BY <1>6, <2>1, <2>2, <2>3, <2>6 DEF WalksInside
  <2> QED
    BY <1>4, <1>11, <2>7 DEF Enter
<1>12. ASSUME NEW e \in Entry, Remove(e) PROVE Outside \subseteq there' /\ WalksInside'
  BY <1>4, <1>5, <1>7, <1>12 DEF Remove
<1>13. ASSUME NEW e \in Entry, List(e) PROVE Outside \subseteq there' /\ WalksInside'
  BY <1>4, <1>7, <1>8, <1>13 DEF List, Return
<1>14. ASSUME NEW e \in Entry, Gone(e) PROVE Outside \subseteq there' /\ WalksInside'
  BY <1>4, <1>7, <1>8, <1>14 DEF Gone, Return
<1>15. CASE Close
  <2>1. Outside \subseteq there'
    BY <1>4, <1>5, <1>15 DEF Close
  <2>2. WalksInside'
    BY <1>8, <1>9, <1>15 DEF Close, Return
  <2> QED
    BY <2>1, <2>2
<1>16. CASE Fail
  BY <1>4, <1>8, <1>16 DEF Fail, Return
<1>17. ASSUME NEW e \in Entry, Create(e) PROVE Outside \subseteq there' /\ WalksInside'
  <2>1. e \notin Outside
    BY <1>17 DEF Create
  <2>2. DOMAIN stack' = DOMAIN stack
    BY <1>1, <1>17, CreateStack DEF TypeOK
  <2>3. WalksInside'
    BY <1>1, <1>4, <1>17, <2>1, <2>2, CreateStack DEF WalksInside
  <2> QED
    BY <1>4, <1>17, <2>3 DEF Create
<1>18. ASSUME NEW e \in Entry, Delete(e) PROVE Outside \subseteq there' /\ WalksInside'
  BY <1>4, <1>18 DEF Delete, WalksInside
<1>19. CASE UNCHANGED vars
  BY <1>4, <1>19 DEF vars, WalksInside
<1> QED
  BY <1>10, <1>11, <1>12, <1>13, <1>14, <1>15, <1>16, <1>17, <1>18, <1>19 DEF Next, Step

-----------------------------------------------------------------------------
(* How far links to directories take rm_r. *)

\* A set of directories that the walk is within, and has removed within.
WalkIn(D) ==
  \A k \in DOMAIN stack : /\ stack[k].dir \in D
                          /\ stack[k].via = Top \/ tree[stack[k].via].dir \in D
                          /\ \A e \in stack[k].left : tree[e].dir \in D
GoneIn(D) == \A e \in Outside \ there : tree[e].dir \in D

\* The inductive invariant: every closed set is such a set.
RInv == TypeOK /\ \A D \in SUBSET Entry : Closed(D) => WalkIn(D) /\ GoneIn(D)

LEMMA OpenIn ==
  ASSUME NEW D, NEW d \in D, NEW v
  PROVE  /\ Open(d, v).dir \in D /\ Open(d, v).via = v
         /\ \A e \in Open(d, v).left : tree[e].dir \in D
  BY DEF Open, Children

\* A closed set stays one. One step per action.
LEMMA ReachStep ==
  ASSUME TypeOK, TypeOK', tree' = tree, NEW D \in SUBSET Entry, Closed(D),
         WalkIn(D), GoneIn(D), [Next]_vars
  PROVE  WalkIn(D)' /\ GoneIn(D)'
<1>1. ASSUME Running
      PROVE  /\ Here.via \in Entry
             /\ Here.via = Top \/ tree[Here.via].dir \in D
             /\ \A e \in Here.left : e \in Entry /\ tree[e].dir \in D
  BY <1>1, HereType DEF WalkIn, Frame
<1>2. ASSUME Running, NEW e
      PROVE  \A k \in DOMAIN stack :
               /\ Past(e)[k].dir \in D
               /\ Past(e)[k].via = Top \/ tree[Past(e)[k].via].dir \in D
               /\ \A f \in Past(e)[k].left : tree[f].dir \in D
  BY <1>2, PastType DEF WalkIn
<1>3. ASSUME Running, NEW e, stack' = Past(e) PROVE WalkIn(D)'
  <2>1. DOMAIN Past(e) = DOMAIN stack
    BY <1>3, PastType DEF TypeOK
  <2> QED
    BY <1>2, <1>3, <2>1 DEF WalkIn
<1>4. ASSUME stack' = <<>> PROVE WalkIn(D)'
  BY <1>4 DEF WalkIn
<1>5. ASSUME Running, Leave PROVE WalkIn(D)'
  <2>1. DOMAIN stack' \subseteq DOMAIN stack
    BY <1>5, LeaveType DEF TypeOK
  <2> QED
    BY <1>5, <2>1, LeaveType DEF WalkIn
<1>6. ASSUME there' = there PROVE GoneIn(D)'
  BY <1>6 DEF GoneIn
<1>7. ASSUME NEW e, there' = there \ {e}, e = Top \/ e \notin Outside \/ tree[e].dir \in D
      PROVE  GoneIn(D)'
  BY <1>7, EntryAssumption DEF GoneIn
<1>8. CASE Call
  <2>1. Top \in D
    BY DEF Closed
  <2> QED
    BY <1>6, <1>8, <2>1, OpenIn DEF Call, WalkIn
<1>9. ASSUME NEW e \in Entry, Enter(e) PROVE WalkIn(D)' /\ GoneIn(D)'
  <2>1. Running /\ tree[e].dir \in D
    BY <1>1, <1>9 DEF Enter
  <2>2. Target(e) = Leads(e) /\ Leads(e) # Nowhere /\ tree[Leads(e)].kind = "dir"
    BY <1>9, EntryAssumption DEF Enter, IsDir, Target, Leads
  <2>3. Target(e) \in D
    BY <2>1, <2>2 DEF Closed
  <2> DEFINE o == Open(Target(e), e)
  <2>4. o.dir \in D /\ o.via = e /\ \A f \in o.left : tree[f].dir \in D
    BY <2>3, OpenIn
  <2>5. Past(e) \in Seq(Frame) /\ Len(Past(e)) = Len(stack) /\ DOMAIN stack = 1..Len(stack)
    BY <2>1, PastType DEF TypeOK
  <2>6. stack' = Append(Past(e), o)
    BY <1>9 DEF Enter
  <2> HIDE DEF o
  <2>7. ASSUME NEW k \in DOMAIN stack'
        PROVE  (k \in DOMAIN stack /\ stack'[k] = Past(e)[k]) \/ stack'[k] = o
    BY <2>5, <2>6, <2>7
  <2>8. WalkIn(D)'
    BY <1>2, <2>1, <2>4, <2>7 DEF WalkIn
  <2> QED
    BY <1>6, <1>9, <2>8 DEF Enter
<1>10. ASSUME NEW e \in Entry, Remove(e) PROVE WalkIn(D)' /\ GoneIn(D)'
  BY <1>1, <1>3, <1>7, <1>10 DEF Remove
<1>11. ASSUME NEW e \in Entry, List(e) PROVE WalkIn(D)' /\ GoneIn(D)'
  BY <1>3, <1>4, <1>6, <1>11 DEF List, Return
<1>12. ASSUME NEW e \in Entry, Gone(e) PROVE WalkIn(D)' /\ GoneIn(D)'
  BY <1>3, <1>4, <1>6, <1>12 DEF Gone, Return
<1>13. CASE Close
  <2>1. WalkIn(D)'
    BY <1>4, <1>5, <1>13 DEF Close, Return
  <2>2. GoneIn(D)'
    BY <1>1, <1>6, <1>7, <1>13 DEF Close
  <2> QED
    BY <2>1, <2>2
<1>14. CASE Fail
  BY <1>4, <1>6, <1>14 DEF Fail, Return
<1>15. ASSUME NEW e \in Entry, Create(e) PROVE WalkIn(D)' /\ GoneIn(D)'
  <2>1. DOMAIN stack' = DOMAIN stack
    BY <1>15, CreateStack DEF TypeOK
  <2>2. WalkIn(D)'
    BY <1>15, <2>1, CreateStack DEF WalkIn
  <2>3. GoneIn(D)'
    BY <1>15 DEF Create, GoneIn
  <2> QED
    BY <2>2, <2>3
<1>16. ASSUME NEW e \in Entry, Delete(e) PROVE WalkIn(D)' /\ GoneIn(D)'
  BY <1>7, <1>16 DEF Delete, WalkIn
<1>17. CASE UNCHANGED vars
  BY <1>6, <1>17 DEF vars, WalkIn
<1> QED
  BY <1>8, <1>9, <1>10, <1>11, <1>12, <1>13, <1>14, <1>15, <1>16, <1>17 DEF Next, Step

\* For any tree, of any size and depth, with links of every kind: outside Top's
\* tree rm_r removes only what is in a directory that its links lead to, or in
\* one that is reached from there.
THEOREM RemovesOnlyReached == Spec => []OnlyReachedRemoved
<1>1. Init => RInv
  <2> SUFFICES ASSUME Init PROVE RInv
    OBVIOUS
  <2>1. stack = <<>> /\ Outside \subseteq there
    BY EntryAssumption DEF Init
  <2> QED
    BY <2>1, InitTypeOK DEF RInv, WalkIn, GoneIn
<1>2. RInv /\ [Next]_vars => RInv'
  <2> SUFFICES ASSUME RInv, [Next]_vars PROVE RInv'
    OBVIOUS
  <2>1. TypeOK /\ TypeOK' /\ tree' = tree
    BY NextTypeOK DEF RInv, Next, Step, Call, Enter, Remove, List, Gone, Close, Fail,
                      Create, Delete, vars
  <2>2. ASSUME NEW D \in SUBSET Entry, Closed(D)' PROVE WalkIn(D)' /\ GoneIn(D)'
    <3>1. Closed(D)
      BY <2>1, <2>2 DEF Closed, Leads
    <3> QED
      BY <2>1, <3>1, ReachStep DEF RInv
  <2> QED
    BY <2>1, <2>2 DEF RInv
<1>3. RInv => OnlyReachedRemoved
  <2> SUFFICES ASSUME RInv, NEW e \in Outside \ there PROVE tree[e].dir \in Reached
    BY DEF OnlyReachedRemoved
  <2>1. \A D \in SUBSET Entry : Closed(D) => tree[e].dir \in D
    BY DEF RInv, GoneIn
  <2>2. Closed(Entry)
    BY EntryAssumption DEF RInv, TypeOK, Node, Closed, Leads
  <2> QED
    BY <2>1, <2>2 DEF Reached
<1> QED
  BY <1>1, <1>2, <1>3, PTL DEF Spec

-----------------------------------------------------------------------------
(* What success of rm_r means *)

\* Whatever exists below Top is in a directory that exists, and the outermost
\* directory of a walk is Top.
Rooted  == \A e \in there \ (Outside \cup {Top}) : tree[e].dir \in there
FromTop == Running => stack[1].via = Top

GoneInv == TypeOK /\ tree \in Tree /\ Rooted /\ FromTop

\* What stat does not take for a directory contains nothing.
LEMMA NoParent ==
  ASSUME TypeOK, tree \in Tree, NEW e \in Entry, tree[e].kind # "dir",
         NEW f \in Entry \ (Outside \cup {Top})
  PROVE  tree[f].dir # e
BY TreeAssumption

LEMMA NotDir ==
  ASSUME NEW e \in Entry, ~IsDir(e)
  PROVE  tree[e].kind # "dir"
<1> SUFFICES ASSUME tree[e].kind = "dir" PROVE FALSE
  OBVIOUS
<1>1. Target(e) = e
  BY DEF Target
<1> QED
  BY <1>1, EntryAssumption DEF IsDir

\* The frames of a walk from which readdir has returned e.
LEMMA PastFrames ==
  ASSUME TypeOK, Running, NEW e
  PROVE  /\ Past(e) \in Seq(Frame) /\ Len(Past(e)) = Len(stack)
         /\ Len(stack) \in Nat \ {0} /\ DOMAIN stack = 1..Len(stack) /\ 1 \in DOMAIN stack
         /\ \A k \in DOMAIN stack :
              /\ Past(e)[k].dir = stack[k].dir
              /\ Past(e)[k].via = stack[k].via
              /\ Past(e)[k].left = IF k = Len(stack) THEN stack[k].left \ {e} ELSE stack[k].left
<1>1. Len(stack) \in Nat \ {0} /\ DOMAIN stack = 1..Len(stack) /\ 1 \in DOMAIN stack
  BY HereType DEF TypeOK
<1>2. [Here EXCEPT !.left = @ \ {e}].left = Here.left \ {e}
  BY HereType DEF Frame
<1>3. \A k \in DOMAIN stack :
        Past(e)[k] = IF k = Len(stack) THEN [Here EXCEPT !.left = @ \ {e}] ELSE stack[k]
  BY <1>1 DEF Past, Here
<1> QED
  BY <1>1, <1>2, <1>3, PastType DEF Here

\* The frames of a walk that returns from a directory.
LEMMA LeaveFrames ==
  ASSUME TypeOK, Running, Leave
  PROVE  \/ Len(stack) = 1 /\ Return("OK")
         \/ /\ Len(stack) \in Nat /\ Len(stack) > 1
            /\ stack' \in Seq(Frame) /\ Len(stack') = Len(stack) - 1
            /\ \A k \in 1..(Len(stack) - 1) : stack'[k] = stack[k]
            /\ ret' = ret
<1>1. Len(stack) \in Nat /\ Len(stack) > 0
  BY HereType DEF TypeOK
<1>2. CASE Len(stack) = 1
  BY <1>2 DEF Leave
<1>3. CASE Len(stack) # 1
  <2>1. stack' = SubSeq(stack, 1, Len(stack) - 1) /\ ret' = ret /\ stack \in Seq(Frame)
    BY <1>3 DEF Leave, TypeOK
  <2>2. Len(stack) - 1 \in Nat /\ Len(stack) > 1 /\ Len(stack) - 1 <= Len(stack)
    BY <1>1, <1>3
  <2> DEFINE m == Len(stack) - 1
  <2>3. \A k \in 1..m : stack[k] \in Frame
    BY <1>1, <2>1
  <2>4. m \in Int /\ 1 \in Int /\ 1 <= m /\ m - 1 + 1 = m /\ \A k \in 1..m : 1 + k - 1 = k
    BY <2>2
  <2> HIDE DEF m
  <2>5. /\ stack' \in Seq(Frame)
        /\ Len(stack') = m - 1 + 1
        /\ \A k \in 1..(m - 1 + 1) : stack'[k] = stack[1 + k - 1]
    BY <2>1, <2>3, <2>4, SubSeqProperties DEF m
  <2>6. Len(stack') = m /\ \A k \in 1..m : stack'[k] = stack[k]
    BY <2>4, <2>5
  <2> QED
    BY <1>1, <2>1, <2>2, <2>5, <2>6 DEF m
<1> QED
  BY <1>2, <1>3

\* How a walk can end.
LEMMA Stops ==
  ASSUME TypeOK, [Next]_vars, Running, ~Running'
  PROVE  \/ Fail
         \/ \E e \in Entry : (List(e) \/ Gone(e)) /\ Return("failed")
         \/ Close /\ op = "rm" /\ Return("failed")
            /\ ~(/\ Here.via \in there /\ tree[Here.via].kind = "dir" /\ Children(Here.via) = {})
         \/ Close /\ Len(stack) = 1 /\ Return("OK")
            /\ (op = "rm" => /\ Children(Here.via) = {} /\ there' = there \ {Here.via})
<1>1. stack' = <<>> /\ stack # <<>> /\ Len(stack) \in Nat \ {0}
  BY HereType DEF Running, TypeOK
<1>2. \A e : stack' # Past(e)
  BY <1>1, PastFrames DEF Running
<1>3. ~Call
  BY DEF Call
<1>4. ASSUME NEW e \in Entry, Enter(e) PROVE FALSE
  <2>1. Past(e) \in Seq(Frame) /\ Len(Past(e)) \in Nat
    BY PastFrames
  <2> QED
    BY <1>1, <1>4, <2>1 DEF Enter
<1>5. ASSUME NEW e \in Entry, Remove(e) PROVE FALSE
  BY <1>2, <1>5 DEF Remove
<1>6. ASSUME NEW e \in Entry, Create(e) PROVE FALSE
  BY <1>1, <1>6, CreateStack DEF TypeOK
<1>7. ASSUME NEW e \in Entry, Delete(e) PROVE FALSE
  BY <1>1, <1>7 DEF Delete
<1>8. ~UNCHANGED vars
  BY <1>1 DEF vars
<1>9. ASSUME NEW e \in Entry, List(e) \/ Gone(e) PROVE Return("failed")
  BY <1>2, <1>9 DEF List, Gone
<1>10. ASSUME Leave PROVE Len(stack) = 1 /\ Return("OK")
  <2>1. Len(stack') = 0
    BY <1>1
  <2>0. \A n \in Nat : n > 1 => n - 1 # 0
    OBVIOUS
  <2>2. Len(stack) \in Nat => ~(Len(stack) > 1 /\ Len(stack') = Len(stack) - 1)
    BY <2>0, <2>1
  <2> QED
    BY <1>10, <2>2, LeaveFrames
<1>11. ASSUME Close
       PROVE  \/ op = "rm" /\ Return("failed")
                 /\ ~(/\ Here.via \in there /\ tree[Here.via].kind = "dir" /\ Children(Here.via) = {})
              \/ Len(stack) = 1 /\ Return("OK")
                 /\ (op = "rm" => /\ Children(Here.via) = {} /\ there' = there \ {Here.via})
  <2> DEFINE removable == /\ Here.via \in there /\ tree[Here.via].kind = "dir"
                          /\ Children(Here.via) = {}
  <2>1. \/ op = "list" /\ Leave
        \/ op = "rm" /\ removable /\ Leave /\ there' = there \ {Here.via}
        \/ op = "rm" /\ ~removable /\ Return("failed")
    BY <1>11 DEF Close
  <2> QED
    BY <1>10, <2>1
<1> QED
  BY <1>3, <1>4, <1>5, <1>6, <1>7, <1>8, <1>9, <1>11 DEF Next, Step

LEMMA InitGone == Init => GoneInv
<1> SUFFICES ASSUME Init PROVE GoneInv
  OBVIOUS
<1>1. PICK S \in SUBSET {e \in Entry \ Outside : tree[e].kind = "file"} : there = Entry \ S
  BY DEF Init
<1>2. Rooted
  <2> SUFFICES ASSUME NEW e \in there \ (Outside \cup {Top}) PROVE tree[e].dir \in there
    BY DEF Rooted
  <2>1. tree[e].dir \in Entry /\ tree[tree[e].dir].kind = "dir"
    BY <1>1, TreeAssumption DEF Init
  <2> QED
    BY <1>1, <2>1
<1>3. FromTop
  BY DEF Init, FromTop, Running
<1> QED
  BY <1>2, <1>3, InitTypeOK DEF GoneInv, Init

LEMMA NextGone == GoneInv /\ [Next]_vars => GoneInv'
<1> SUFFICES ASSUME GoneInv, [Next]_vars PROVE GoneInv'
  OBVIOUS
<1>1. TypeOK /\ TypeOK' /\ tree' = tree /\ tree \in Tree /\ Rooted /\ FromTop
  BY NextTypeOK DEF GoneInv, Next, Step, Call, Enter, Remove, List, Gone, Close, Fail,
                    Create, Delete, vars
<1>2. SUFFICES Rooted' /\ FromTop'
  BY <1>1 DEF GoneInv
<1>3. ASSUME there' = there PROVE Rooted'
  BY <1>1, <1>3 DEF Rooted
<1>4. ASSUME NEW e \in Entry, there' = there \ {e},
             tree[e].kind # "dir" \/ Children(e) = {}
      PROVE  Rooted'
  <2> SUFFICES ASSUME NEW f \in there' \ (Outside \cup {Top}) PROVE tree[f].dir \in there'
    BY <1>1 DEF Rooted
  <2>1. f \in there \ (Outside \cup {Top}) /\ f \in Entry /\ tree[f].dir \in there
    BY <1>1, <1>4 DEF Rooted, TypeOK
  <2>2. tree[f].dir # e
    BY <1>1, <1>4, <2>1, NoParent DEF Children
  <2> QED
    BY <1>4, <2>1, <2>2
<1>5. ASSUME Running, NEW e, stack' = Past(e) PROVE FromTop'
  <2>1. 1 \in DOMAIN stack /\ Past(e)[1].via = stack[1].via
    BY <1>1, <1>5, PastFrames
  <2> QED
    BY <1>1, <1>5, <2>1 DEF FromTop
<1>6. ASSUME stack' = <<>> PROVE FromTop'
  BY <1>6 DEF FromTop, Running
<1>7. ASSUME Running, Leave PROVE FromTop'
  <2>1. CASE Len(stack) = 1 /\ Return("OK")
    BY <1>6, <2>1 DEF Return
  <2>2. CASE /\ Len(stack) \in Nat /\ Len(stack) > 1
             /\ \A k \in 1..(Len(stack) - 1) : stack'[k] = stack[k]
    <3>1. 1 \in 1..(Len(stack) - 1)
      BY <2>2
    <3>2. stack'[1] = stack[1]
      BY <2>2, <3>1
    <3> QED
      BY <1>1, <1>7, <3>2 DEF FromTop
  <2> QED
    BY <1>1, <1>7, <2>1, <2>2, LeaveFrames
<1>8. CASE Call
  <2>1. stack'[1].via = Top
    BY <1>8 DEF Call, Open
  <2> QED
    BY <1>3, <1>8, <2>1 DEF Call, FromTop
<1>9. ASSUME NEW e \in Entry, Enter(e) PROVE Rooted' /\ FromTop'
  <2>0. Running
    BY <1>9 DEF Enter
  <2>1. /\ Past(e) \in Seq(Frame) /\ Len(Past(e)) \in Nat \ {0}
        /\ 1 \in DOMAIN stack /\ Past(e)[1].via = stack[1].via
    BY <1>1, <2>0, PastFrames
  <2>2. stack'[1] = Past(e)[1]
    BY <1>9, <2>1 DEF Enter
  <2> QED
    BY <1>1, <1>3, <1>9, <2>1, <2>2 DEF Enter, FromTop
<1>10. ASSUME NEW e \in Entry, Remove(e) PROVE Rooted' /\ FromTop'
  BY <1>4, <1>5, <1>10, NotDir DEF Remove
<1>11. ASSUME NEW e \in Entry, List(e) PROVE Rooted' /\ FromTop'
  BY <1>3, <1>5, <1>6, <1>11 DEF List, Return
<1>12. ASSUME NEW e \in Entry, Gone(e) PROVE Rooted' /\ FromTop'
  BY <1>3, <1>5, <1>6, <1>12 DEF Gone, Return
<1>13. CASE Close
  <2>1. FromTop'
    BY <1>6, <1>7, <1>13 DEF Close, Return
  <2>2. Running /\ Here.via \in Entry
    BY <1>1, <1>13, HereType DEF Close, Frame
  <2>3. Rooted'
    BY <1>3, <1>4, <1>13, <2>2 DEF Close
  <2> QED
    BY <2>1, <2>3
<1>14. CASE Fail
  BY <1>3, <1>6, <1>14 DEF Fail, Return
<1>15. ASSUME NEW e \in Entry, Create(e) PROVE Rooted' /\ FromTop'
  <2>1. Rooted'
    BY <1>1, <1>15 DEF Create, Rooted
  <2>2. Len(stack') = Len(stack) /\ stack \in Seq(Frame) /\ stack' \in Seq(Frame)
        /\ \A k \in DOMAIN stack : stack'[k].via = stack[k].via
    BY <1>1, <1>15, CreateStack DEF TypeOK
  <2>3. FromTop'
    BY <1>1, <2>2 DEF FromTop, Running
  <2> QED
    BY <2>1, <2>3
<1>16. ASSUME NEW e \in Entry, Delete(e) PROVE Rooted' /\ FromTop'
  BY <1>1, <1>4, <1>16 DEF Delete, FromTop, Running
<1>17. CASE UNCHANGED vars
  BY <1>1, <1>3, <1>17 DEF vars, FromTop, Running
<1> QED
  BY <1>8, <1>9, <1>10, <1>11, <1>12, <1>13, <1>14, <1>15, <1>16, <1>17 DEF Next, Step

\* When rm_r reports success nothing is left below the directory, in a tree of
\* any size and depth, with links to directories and others at work in it: the
\* rmdir of the outermost directory is the proof (rm-r.c:41).
THEOREM SuccessClears == Spec => SuccessMeansGone
<1>1. ASSUME GoneInv, [Next]_vars, Running, ~Running', op = "rm", ret' = "OK"
      PROVE  \A e \in Entry \ Outside : e \notin there'
  <2>1. TypeOK /\ tree \in Tree /\ Rooted /\ FromTop
    BY <1>1 DEF GoneInv
  <2>2. Len(stack) = 1 /\ Children(Here.via) = {} /\ there' = there \ {Here.via}
    BY <1>1, <2>1, Stops DEF Fail, Return, List
  <2>3. Here.via = Top
    BY <1>1, <2>1, <2>2 DEF FromTop, Here
  <2> DEFINE S == there \ (Outside \cup {Top})
  <2>4. S \in SUBSET (Entry \ (Outside \cup {Top}))
    BY <2>1 DEF TypeOK
  <2>5. ASSUME S # {} PROVE FALSE
    <3>1. PICK e \in S : tree[e].dir \notin S
      BY <2>1, <2>4, <2>5, TreeAssumption
    <3>2. tree[e].dir \in there /\ tree[e].dir \notin Outside
      BY <2>1, <2>4, <3>1, TreeAssumption DEF Rooted
    <3>3. tree[e].dir = Top /\ e \in there
      BY <3>1, <3>2
    <3> QED
      BY <2>2, <2>3, <3>3 DEF Children
  <2> QED
    BY <2>2, <2>3, <2>5
<1>2. GoneInv /\ [Next]_vars =>
        [Running /\ ~Running' /\ op = "rm" /\ ret' = "OK"
           => \A e \in Entry \ Outside : e \notin there']_vars
  BY <1>1
<1> QED
  BY <1>2, InitGone, NextGone, PTL DEF Spec, SuccessMeansGone
-----------------------------------------------------------------------------
(* An undisturbed walk of a tree without links to directories *)

Calm == Running /\ noise = 0 /\ DirLinks = {}

\* The open directories are Top, a directory in it, and so on; readdir has yet
\* to return entries that exist, the next open directory not among them.
Chain ==
  /\ stack[1].dir = Top
  /\ \A k \in DOMAIN stack :
       /\ stack[k].via = stack[k].dir /\ tree[stack[k].dir].kind = "dir"
       /\ stack[k].dir \in there
       /\ stack[k].left \subseteq Children(stack[k].dir)
  /\ \A k \in DOMAIN stack : k > 1 => /\ tree[stack[k].dir].dir = stack[k - 1].dir
                                      /\ stack[k].dir \notin stack[k - 1].left
  /\ \A j, k \in DOMAIN stack : stack[j].dir = stack[k].dir => j = k

\* rm_r: of what readdir has returned only the next open directory is left.
Cleared ==
  \A k \in DOMAIN stack :
    \A e \in Children(stack[k].dir) \ stack[k].left :
      k < Len(stack) /\ e = stack[k + 1].dir

\* list_files: D is what it has entered. What is there in a directory of D has
\* yet to be returned, is entered, or is listed, and only one of them.
Collected(D) ==
  /\ Top \in D /\ \A d \in D : tree[d].kind = "dir"
  /\ \A j \in DOMAIN listed : tree[listed[j]].kind # "dir"
  /\ \A k \in DOMAIN stack : stack[k].dir \in D /\ stack[k].left \cap D = {}
  /\ \A k \in DOMAIN stack : \A j \in DOMAIN listed : listed[j] \notin stack[k].left
  /\ \A d \in D \ {Top} : tree[d].dir \in D
  /\ \A j \in DOMAIN listed : tree[listed[j]].dir \in D
  /\ \A d \in D : \A e \in Children(d) :
       \/ \E k \in DOMAIN stack : stack[k].dir = d /\ e \in stack[k].left
       \/ e \in D
       \/ \E j \in DOMAIN listed : listed[j] = e
  /\ \A j, k \in DOMAIN listed : listed[j] = listed[k] => j = k

CalmInv == Calm => /\ Chain
                   /\ op = "rm" => Cleared
                   /\ op = "list" => \E D \in SUBSET Entry : Collected(D)

WalkInv == IInv /\ GoneInv /\ CalmInv

\* The innermost directory of a calm walk, and the entries it is to return.
LEMMA CalmHere ==
  ASSUME TypeOK, tree \in Tree, WalksInside, Running, Chain
  PROVE  /\ Len(stack) \in Nat \ {0} /\ DOMAIN stack = 1..Len(stack)
         /\ Here = stack[Len(stack)] /\ Len(stack) \in DOMAIN stack
         /\ Here.dir \in there /\ Here.via = Here.dir /\ tree[Here.dir].kind = "dir"
         /\ Here.dir \in Entry \ Outside
         /\ \A e \in Here.left : /\ e \in there /\ e \in Entry \ Outside
                                 /\ tree[e].dir = Here.dir
                                 /\ e # Top
         /\ tree[Top].dir \notin Entry
<1>1. /\ Len(stack) \in Nat \ {0} /\ DOMAIN stack = 1..Len(stack)
      /\ Here = stack[Len(stack)] /\ Len(stack) \in DOMAIN stack
  BY HereType, PastFrames
<1>2. /\ Here.dir \in there /\ Here.via = Here.dir /\ tree[Here.dir].kind = "dir"
      /\ Here.left \subseteq Children(Here.dir)
  BY <1>1 DEF Chain
<1>3. Here.dir \in Entry \ Outside /\ Here.left \subseteq Entry \ Outside
  BY <1>1, HereType DEF WalksInside, Frame
<1>4. tree[Top].dir = Nowhere /\ Nowhere \notin Entry
  BY TreeAssumption, EntryAssumption
<1> QED
  BY <1>1, <1>2, <1>3, <1>4 DEF Children

\* Of the frames only the innermost waits for an entry of its directory.
LEMMA OneFrame ==
  ASSUME TypeOK, Running, Chain, NEW e, e \in Here.left,
         NEW k \in DOMAIN stack, e \in stack[k].left
  PROVE  k = Len(stack)
<1>1. Here = stack[Len(stack)] /\ Len(stack) \in DOMAIN stack
  BY HereType
<1> QED
  BY <1>1 DEF Chain, Children

LEMMA CallCalm ==
  ASSUME TypeOK, tree \in Tree, Call
  PROVE  /\ Chain'
         /\ Cleared'
         /\ \E D \in SUBSET Entry : Collected(D)'
<1> DEFINE o == Open(Top, Top)
<1>1. /\ stack' = <<o>> /\ o.dir = Top /\ o.via = Top /\ o.left = Children(Top)
      /\ UNCHANGED <<tree, there>> /\ Top \in there /\ listed' = <<>>
  BY DEF Call, Open
<1> HIDE DEF o
<1>2. DOMAIN stack' = {1} /\ stack'[1] = o /\ DOMAIN listed' = {}
  BY <1>1
<1>3. \A d : Children(d)' = Children(d)
  BY <1>1 DEF Children
<1>4. tree[Top].kind = "dir" /\ Top \notin Children(Top)
  BY TreeAssumption, EntryAssumption DEF Children
<1>5. Chain' /\ Cleared'
  BY <1>1, <1>2, <1>3, <1>4 DEF Chain, Cleared
<1>6. Collected({Top})'
  BY <1>1, <1>2, <1>3, <1>4 DEF Collected
<1> QED
  BY <1>5, <1>6, EntryAssumption

LEMMA EnterCalm ==
  ASSUME TypeOK, tree \in Tree, WalksInside, DirLinks = {}, Running, Chain,
         NEW e \in Entry, Enter(e)
  PROVE  /\ Chain'
         /\ Cleared => Cleared'
         /\ \A D \in SUBSET Entry : Collected(D) => Collected(D \cup {e})'
<1> DEFINE n == Len(stack)
<1>1. /\ n \in Nat \ {0} /\ DOMAIN stack = 1..n /\ n \in DOMAIN stack /\ Here = stack[n]
      /\ e \in Here.left /\ e \in there /\ tree[e].dir = Here.dir /\ e # Top
      /\ e \in Entry \ Outside /\ tree[Top].dir \notin Entry /\ Here.dir \in Entry
  BY CalmHere DEF Enter
<1>2. Target(e) = e /\ tree[e].kind = "dir"
  BY <1>1, NoLinkFollowed DEF Enter, IsDir
<1> DEFINE o == Open(e, e)
<1>3. o.dir = e /\ o.via = e /\ o.left = Children(e)
  BY DEF Open
<1>4. /\ stack' = Append(Past(e), o) /\ Past(e) \in Seq(Frame) /\ Len(Past(e)) = n
      /\ UNCHANGED <<tree, there, listed>>
  BY <1>2, PastFrames DEF Enter
<1> HIDE DEF o
<1>5. /\ Len(stack') = n + 1 /\ DOMAIN stack' = 1..(n + 1)
      /\ stack'[n + 1] = o
      /\ \A k \in 1..n : stack'[k] = Past(e)[k]
  BY <1>1, <1>4
<1>p. \A k \in 1..n :
        /\ Past(e)[k].dir = stack[k].dir /\ Past(e)[k].via = stack[k].via
        /\ Past(e)[k].left = IF k = n THEN stack[k].left \ {e} ELSE stack[k].left
  <2>1. \A k \in DOMAIN stack :
          /\ Past(e)[k].dir = stack[k].dir /\ Past(e)[k].via = stack[k].via
          /\ Past(e)[k].left = IF k = n THEN stack[k].left \ {e} ELSE stack[k].left
    BY PastFrames, Zenon
  <2> QED
    BY <1>1, <2>1
<1>c. /\ stack[1].dir = Top
      /\ \A k \in 1..n :
           /\ stack[k].via = stack[k].dir /\ tree[stack[k].dir].kind = "dir"
           /\ stack[k].dir \in there /\ stack[k].left \subseteq Children(stack[k].dir)
      /\ \A k \in 1..n : k > 1 => /\ tree[stack[k].dir].dir = stack[k - 1].dir
                                   /\ stack[k].dir \notin stack[k - 1].left
      /\ \A j, k \in 1..n : stack[j].dir = stack[k].dir => j = k
  BY <1>1 DEF Chain
<1>6. /\ \A k \in 1..n : /\ stack'[k].dir = stack[k].dir /\ stack'[k].via = stack[k].via
                         /\ stack'[k].left = IF k = n THEN stack[k].left \ {e} ELSE stack[k].left
      /\ stack'[n + 1].dir = e /\ stack'[n + 1].via = e /\ stack'[n + 1].left = Children(e)
  BY <1>3, <1>5, <1>p
<1>7. \A d : Children(d)' = Children(d)
  BY <1>4 DEF Children
<1>8. \A k \in 1..n : e \in stack[k].left => k = n
  BY <1>1, OneFrame
<1> HIDE DEF n
<1>9. \A k \in 1..n : stack[k].dir # e
  <2> SUFFICES ASSUME NEW k \in 1..n, stack[k].dir = e PROVE FALSE
    OBVIOUS
  <2>1. CASE k = 1
    BY <1>1, <2>1 DEF Chain
  <2>2. CASE k > 1
    <3>1. k - 1 \in 1..n /\ k - 1 # n
      BY <1>1, <2>2
    <3>2. tree[e].dir = stack[k - 1].dir
      BY <1>1, <2>2 DEF Chain
    <3> QED
      BY <1>1, <3>1, <3>2 DEF Chain
  <2> QED
    BY <1>1, <2>1, <2>2
<1>10. n + 1 > 1 /\ n + 1 - 1 = n /\ \A k \in 1..(n + 1) : k \in 1..n \/ k = n + 1
  BY <1>1
<1>11. \A k \in 1..n : k > 1 => k - 1 \in 1..n /\ k - 1 # n
  BY <1>1
<1>12. Chain'
  <2>1. stack'[1].dir = Top
    <3>1. 1 \in 1..n
      BY <1>1
    <3> QED
      BY <1>6, <1>c, <3>1
  <2>2. ASSUME NEW k \in 1..(n + 1)
        PROVE  /\ stack'[k].via = stack'[k].dir /\ tree[stack'[k].dir].kind = "dir"
               /\ stack'[k].dir \in there
               /\ stack'[k].left \subseteq Children(stack'[k].dir)
    <3>1. CASE k \in 1..n
      BY <1>6, <1>c, <3>1
    <3>2. CASE k = n + 1
      BY <1>1, <1>2, <1>6, <3>2
    <3> QED
      BY <1>10, <3>1, <3>2
  <2>3. ASSUME NEW k \in 1..(n + 1), k > 1
        PROVE  /\ tree[stack'[k].dir].dir = stack'[k - 1].dir
               /\ stack'[k].dir \notin stack'[k - 1].left
    <3>1. CASE k \in 1..n
      BY <1>6, <1>11, <1>c, <2>3, <3>1
    <3>2. CASE k = n + 1
      <4>1. stack'[k].dir = e /\ k - 1 = n /\ n \in 1..n
        BY <1>1, <1>6, <1>10, <3>2
      <4>2. stack'[n].dir = stack[n].dir /\ stack'[n].left = stack[n].left \ {e}
        BY <1>6, <4>1
      <4> QED
        BY <1>1, <4>1, <4>2
    <3> QED
      BY <1>10, <3>1, <3>2
  <2>4. \A j, k \in 1..(n + 1) : stack'[j].dir = stack'[k].dir => j = k
    <3>1. \A k \in 1..n : stack'[k].dir = stack[k].dir /\ stack'[k].dir # e
      BY <1>6, <1>9
    <3>2. stack'[n + 1].dir = e
      BY <1>6
    <3> QED
      BY <1>10, <1>c, <3>1, <3>2
  <2> QED
    BY <1>4, <1>5, <1>7, <2>1, <2>2, <2>3, <2>4 DEF Chain
<1>13. ASSUME Cleared PROVE Cleared'
  <2> SUFFICES ASSUME NEW k \in 1..(n + 1), NEW f \in Children(stack'[k].dir) \ stack'[k].left
               PROVE  k < n + 1 /\ f = stack'[k + 1].dir
    BY <1>5, <1>7 DEF Cleared
  <2>1. CASE k \in 1..n /\ k # n
    <3>0. k + 1 \in 1..n /\ k < n + 1
      BY <1>1, <2>1
    <3>1. f \in Children(stack[k].dir) \ stack[k].left /\ k + 1 \in 1..n /\ k < n + 1
      BY <1>6, <2>1, <3>0
    <3>2. f = stack[k + 1].dir
      BY <1>1, <1>13, <2>1, <3>1 DEF Cleared
    <3> QED
      BY <1>6, <3>1, <3>2
  <2>2. CASE k = n
    <3>1. f = e \/ f \in Children(stack[n].dir) \ stack[n].left
      BY <1>1, <1>6, <2>2
    <3>2. f = e
      BY <1>1, <1>13, <3>1 DEF Cleared, n
    <3> QED
      BY <1>1, <1>6, <2>2, <3>2
  <2>3. CASE k = n + 1
    BY <1>6, <2>3
  <2> QED
    BY <1>10, <2>1, <2>2, <2>3
<1>14. ASSUME NEW D \in SUBSET Entry, Collected(D) PROVE Collected(D \cup {e})'
  <2> DEFINE E == D \cup {e}
  <2>1. /\ Top \in D /\ \A d \in D \ {Top} : tree[d].dir \in D
        /\ \A k \in 1..n : stack[k].dir \in D /\ stack[k].left \cap D = {}
        /\ \A k \in 1..n : \A j \in DOMAIN listed : listed[j] \notin stack[k].left
        /\ \A j \in DOMAIN listed : tree[listed[j]].dir \in D
        /\ \A j, k \in DOMAIN listed : listed[j] = listed[k] => j = k
        /\ \A d \in D : tree[d].kind = "dir"
        /\ \A j \in DOMAIN listed : tree[listed[j]].kind # "dir"
    BY <1>1, <1>14 DEF Collected
  <2>2. e \notin D /\ tree[e].dir \in D /\ e \notin Children(e)
    BY <1>1, <2>1 DEF Children
  <2>3. Children(e) \cap E = {} /\ \A j \in DOMAIN listed : listed[j] \notin Children(e)
    BY <1>1, <2>1, <2>2 DEF Children
  <2>4. \A k \in 1..(n + 1) : stack'[k].dir \in E /\ stack'[k].left \cap E = {}
    BY <1>6, <1>8, <1>10, <2>1, <2>3
  <2>5. \A k \in 1..(n + 1) : \A j \in DOMAIN listed : listed[j] \notin stack'[k].left
    <3>1. \A k \in 1..n : stack'[k].left \subseteq stack[k].left
      BY <1>6
    <3>2. stack'[n + 1].left = Children(e)
      BY <1>6
    <3> QED
      BY <1>10, <2>1, <2>3, <3>1, <3>2
  <2>6. \A d \in E \ {Top} : tree[d].dir \in E
    BY <2>1, <2>2
  <2>7. ASSUME NEW d \in E, NEW f \in Children(d)
        PROVE  \/ \E k \in 1..(n + 1) : stack'[k].dir = d /\ f \in stack'[k].left
               \/ f \in E
               \/ \E j \in DOMAIN listed : listed[j] = f
    <3>1. CASE d = e
      BY <1>1, <1>6, <2>7, <3>1
    <3>2. CASE d \in D /\ f # e
      <4>1. \/ \E k \in 1..n : stack[k].dir = d /\ f \in stack[k].left
            \/ f \in D
            \/ \E j \in DOMAIN listed : listed[j] = f
        BY <1>1, <1>14, <2>7, <3>2 DEF Collected
      <4>2. ASSUME NEW k \in 1..n, stack[k].dir = d, f \in stack[k].left
            PROVE  k \in 1..(n + 1) /\ stack'[k].dir = d /\ f \in stack'[k].left
        <5>1. k \in 1..(n + 1)
          BY <1>1
        <5> QED
          BY <1>6, <3>2, <4>2, <5>1
      <4> QED
        BY <4>1, <4>2
    <3> QED
      BY <3>1, <3>2
  <2> HIDE DEF E
  <2>8. /\ Top \in E /\ \A d \in E : tree[d].kind = "dir"
        /\ \A j \in DOMAIN listed : tree[listed[j]].dir \in E
    BY <1>2, <2>1 DEF E
  <2>9. Collected(E)'
    BY <1>4, <1>5, <1>7, <2>1, <2>4, <2>5, <2>6, <2>7, <2>8 DEF Collected
  <2> QED
    BY <2>9 DEF E
<1> QED
  BY <1>12, <1>13, <1>14

\* Once readdir has returned e no frame waits for it.
LEMMA PastCalm ==
  ASSUME TypeOK, Running, Chain, NEW e, e \in Here.left, stack' = Past(e)
  PROVE  /\ Len(stack) \in Nat \ {0} /\ Len(stack') = Len(stack)
         /\ DOMAIN stack = 1..Len(stack) /\ DOMAIN stack' = DOMAIN stack
         /\ \A k \in DOMAIN stack : /\ stack'[k].dir = stack[k].dir
                                    /\ stack'[k].via = stack[k].via
                                    /\ stack'[k].left = stack[k].left \ {e}
<1>1. /\ Past(e) \in Seq(Frame) /\ Len(Past(e)) = Len(stack)
      /\ Len(stack) \in Nat \ {0} /\ DOMAIN stack = 1..Len(stack)
  BY PastFrames, Zenon
<1>2. \A k \in DOMAIN stack :
        /\ Past(e)[k].dir = stack[k].dir /\ Past(e)[k].via = stack[k].via
        /\ Past(e)[k].left = IF k = Len(stack) THEN stack[k].left \ {e} ELSE stack[k].left
  BY PastFrames, Zenon
<1>3. \A k \in DOMAIN stack : k # Len(stack) => e \notin stack[k].left
  BY OneFrame
<1>4. DOMAIN Past(e) = 1..Len(stack)
  BY <1>1
<1> QED
  BY <1>1, <1>2, <1>3, <1>4

LEMMA RemoveCalm ==
  ASSUME TypeOK, tree \in Tree, WalksInside, Running, Chain, Cleared, NEW e \in Entry, Remove(e)
  PROVE  Chain' /\ Cleared'
<1>1. e \in Here.left /\ tree[e].kind # "dir" /\ stack' = Past(e)
      /\ there' = there \ {e} /\ tree' = tree
  BY NotDir DEF Remove
<1>2. /\ DOMAIN stack = 1..Len(stack) /\ DOMAIN stack' = DOMAIN stack /\ Len(stack') = Len(stack)
      /\ Len(stack) \in Nat \ {0}
      /\ \A k \in DOMAIN stack : /\ stack'[k].dir = stack[k].dir
                                 /\ stack'[k].via = stack[k].via
                                 /\ stack'[k].left = stack[k].left \ {e}
  BY <1>1, PastCalm
<1>3. \A d : Children(d)' = Children(d) \ {e}
  BY <1>1 DEF Children
<1>4. 1 \in DOMAIN stack /\ \A k \in DOMAIN stack : k > 1 => k - 1 \in DOMAIN stack
  BY <1>2
<1>5. Chain'
  <2>1. \A k \in DOMAIN stack : stack[k].dir \in there'
    BY <1>1 DEF Chain
  <2>2. \A k \in DOMAIN stack : stack'[k].left \subseteq Children(stack'[k].dir) \ {e}
    BY <1>2 DEF Chain
  <2>3. \A k \in DOMAIN stack : k > 1 => /\ tree[stack'[k].dir].dir = stack'[k - 1].dir
                                         /\ stack'[k].dir \notin stack'[k - 1].left
    BY <1>2, <1>4 DEF Chain
  <2>4. stack'[1].dir = Top
    BY <1>2, <1>4 DEF Chain
  <2>5. \A k \in DOMAIN stack : stack'[k].via = stack'[k].dir /\ tree[stack'[k].dir].kind = "dir"
                                /\ stack'[k].dir \in there'
    BY <1>2, <2>1 DEF Chain
  <2>6. \A j, k \in DOMAIN stack : stack'[j].dir = stack'[k].dir => j = k
    BY <1>2 DEF Chain
  <2> QED
    BY <1>1, <1>2, <1>3, <2>2, <2>3, <2>4, <2>5, <2>6 DEF Chain
<1>6. Cleared'
  <2> SUFFICES ASSUME NEW k \in DOMAIN stack,
                      NEW f \in (Children(stack'[k].dir) \ {e}) \ stack'[k].left
               PROVE  k < Len(stack) /\ f = stack'[k + 1].dir
    BY <1>2, <1>3 DEF Cleared
  <2>1. f \in Children(stack[k].dir) \ stack[k].left
    BY <1>2
  <2>2. k < Len(stack) /\ f = stack[k + 1].dir
    BY <2>1 DEF Cleared
  <2>3. k + 1 \in DOMAIN stack
    BY <1>2, <2>2
  <2> QED
    BY <1>2, <2>2, <2>3
<1> QED
  BY <1>5, <1>6

LEMMA ListCalm ==
  ASSUME TypeOK, tree \in Tree, WalksInside, Running, Chain, NEW e \in Entry, List(e), Running'
  PROVE  Chain' /\ \A D \in SUBSET Entry : Collected(D) => Collected(D)'
<1>1. e \in Here.left /\ stack' = Past(e) /\ listed' = Append(listed, e) /\ UNCHANGED <<tree, there>>
  BY DEF List, Return, Running
<1>2. /\ DOMAIN stack = 1..Len(stack) /\ DOMAIN stack' = DOMAIN stack
      /\ Len(stack) \in Nat \ {0}
      /\ \A k \in DOMAIN stack : /\ stack'[k].dir = stack[k].dir
                                 /\ stack'[k].via = stack[k].via
                                 /\ stack'[k].left = stack[k].left \ {e}
  BY <1>1, PastCalm
<1>3. \A d : Children(d)' = Children(d)
  BY <1>1 DEF Children
<1>4. 1 \in DOMAIN stack /\ \A k \in DOMAIN stack : k > 1 => k - 1 \in DOMAIN stack
  BY <1>2
<1>5. Chain'
  <2>1. \A k \in DOMAIN stack : stack'[k].left \subseteq Children(stack'[k].dir)
    BY <1>2 DEF Chain
  <2>2. \A k \in DOMAIN stack : k > 1 => /\ tree[stack'[k].dir].dir = stack'[k - 1].dir
                                         /\ stack'[k].dir \notin stack'[k - 1].left
    BY <1>2, <1>4 DEF Chain
  <2>3. stack'[1].dir = Top
    BY <1>2, <1>4 DEF Chain
  <2>4. \A k \in DOMAIN stack : stack'[k].via = stack'[k].dir /\ tree[stack'[k].dir].kind = "dir"
                                /\ stack'[k].dir \in there
    BY <1>2 DEF Chain
  <2>5. \A j, k \in DOMAIN stack : stack'[j].dir = stack'[k].dir => j = k
    BY <1>2 DEF Chain
  <2> QED
    BY <1>1, <1>2, <1>3, <2>1, <2>2, <2>3, <2>4, <2>5 DEF Chain
<1>6. ASSUME NEW D \in SUBSET Entry, Collected(D) PROVE Collected(D)'
  <2> DEFINE m == Len(listed)
  <2>1. /\ m \in Nat /\ DOMAIN listed = 1..m /\ DOMAIN listed' = 1..(m + 1)
        /\ listed'[m + 1] = e /\ \A j \in 1..m : listed'[j] = listed[j]
    BY <1>1 DEF TypeOK
  <2> HIDE DEF m
  <2>2. /\ Len(stack) \in DOMAIN stack /\ Here = stack[Len(stack)] /\ tree[e].dir = Here.dir
    BY <1>1, CalmHere
  <2>3. /\ Top \in D /\ \A d \in D \ {Top} : tree[d].dir \in D
        /\ \A k \in DOMAIN stack : stack[k].dir \in D /\ stack[k].left \cap D = {}
        /\ \A k \in DOMAIN stack : \A j \in 1..m : listed[j] \notin stack[k].left
        /\ \A j \in 1..m : tree[listed[j]].dir \in D
        /\ \A j, k \in 1..m : listed[j] = listed[k] => j = k
        /\ \A d \in D : tree[d].kind = "dir"
        /\ \A j \in 1..m : tree[listed[j]].kind # "dir"
    BY <1>6, <2>1 DEF Collected
  <2>4. \A j \in 1..m : listed[j] # e
    BY <1>1, <2>2, <2>3
  <2>5. \A j \in 1..(m + 1) : j \in 1..m \/ j = m + 1
    BY <2>1
  <2>6. \A k \in DOMAIN stack : stack'[k].dir \in D /\ stack'[k].left \cap D = {}
    BY <1>2, <2>3
  <2>7. \A k \in DOMAIN stack : \A j \in 1..(m + 1) : listed'[j] \notin stack'[k].left
    BY <1>2, <2>1, <2>3, <2>5
  <2>8. \A j \in 1..(m + 1) : tree[listed'[j]].dir \in D
    BY <2>1, <2>2, <2>3, <2>5
  <2>11. \A j \in 1..(m + 1) : tree[listed'[j]].kind # "dir"
    <3>1. tree[e].kind # "dir"
      BY NotDir DEF List
    <3> QED
      BY <2>1, <2>3, <2>5, <3>1
  <2>9. \A j, k \in 1..(m + 1) : listed'[j] = listed'[k] => j = k
    BY <2>1, <2>3, <2>4, <2>5
  <2>10. ASSUME NEW d \in D, NEW f \in Children(d)
         PROVE  \/ \E k \in DOMAIN stack : stack'[k].dir = d /\ f \in stack'[k].left
                \/ f \in D
                \/ \E j \in 1..(m + 1) : listed'[j] = f
    <3>1. m + 1 \in 1..(m + 1) /\ \A j \in 1..m : j \in 1..(m + 1)
      BY <2>1
    <3>2. \/ \E k \in DOMAIN stack : stack[k].dir = d /\ f \in stack[k].left
          \/ f \in D
          \/ \E j \in 1..m : listed[j] = f
      BY <1>6, <2>1 DEF Collected
    <3>3. ASSUME NEW k \in DOMAIN stack, stack[k].dir = d, f \in stack[k].left, f # e
          PROVE  stack'[k].dir = d /\ f \in stack'[k].left
      BY <1>2, <3>3
    <3>4. ASSUME NEW j \in 1..m, listed[j] = f
          PROVE  j \in 1..(m + 1) /\ listed'[j] = f
      BY <2>1, <3>1, <3>4
    <3>5. f = e => listed'[m + 1] = f
      BY <2>1
    <3> QED
      BY <3>1, <3>2, <3>3, <3>4, <3>5
  <2> QED
    BY <1>1, <1>2, <1>3, <2>1, <2>3, <2>6, <2>7, <2>8, <2>9, <2>10, <2>11 DEF Collected
<1> QED
  BY <1>5, <1>6

LEMMA CloseCalm ==
  ASSUME TypeOK, tree \in Tree, WalksInside, Running, Chain, Close, Running'
  PROVE  /\ Chain'
         /\ op = "rm" /\ Cleared => Cleared'
         /\ op = "list" => \A D \in SUBSET Entry : Collected(D) => Collected(D)'
<1> DEFINE n == Len(stack)
<1>1. /\ n \in Nat \ {0} /\ DOMAIN stack = 1..n /\ n \in DOMAIN stack /\ Here = stack[n]
      /\ Here.left = {} /\ Here.via = Here.dir
  BY CalmHere DEF Close
<1>2. /\ Leave /\ UNCHANGED <<tree, listed>>
      /\ op = "rm" => there' = there \ {Here.dir}
      /\ op = "list" => there' = there
      /\ op = "rm" \/ op = "list"
  BY <1>1 DEF Close, Return, Running, TypeOK
<1>3. /\ n > 1 /\ stack' \in Seq(Frame) /\ Len(stack') = n - 1
      /\ \A k \in 1..(n - 1) : stack'[k] = stack[k]
  BY <1>2, LeaveFrames DEF Return, Running
<1>4. DOMAIN stack' = 1..(n - 1)
  BY <1>1, <1>3
<1> HIDE DEF n
<1>5. /\ \A k \in 1..(n - 1) : k \in 1..n /\ k # n /\ (k > 1 => k - 1 \in 1..(n - 1))
      /\ 1 \in 1..(n - 1)
  BY <1>1, <1>3
<1>6. /\ stack[1].dir = Top
      /\ \A k \in 1..n :
           /\ stack[k].via = stack[k].dir /\ tree[stack[k].dir].kind = "dir"
           /\ stack[k].dir \in there /\ stack[k].left \subseteq Children(stack[k].dir)
      /\ \A k \in 1..n : k > 1 => /\ tree[stack[k].dir].dir = stack[k - 1].dir
                                  /\ stack[k].dir \notin stack[k - 1].left
      /\ \A j, k \in 1..n : stack[j].dir = stack[k].dir => j = k
  BY <1>1 DEF Chain
<1>7. \A k \in 1..(n - 1) : stack[k].dir # Here.dir /\ Here.dir \notin stack[k].left
  <2> SUFFICES ASSUME NEW k \in 1..(n - 1) PROVE stack[k].dir # Here.dir /\ Here.dir \notin stack[k].left
    OBVIOUS
  <2>1. stack[k].dir # Here.dir
    BY <1>1, <1>5, <1>6
  <2>2. n - 1 \in 1..n /\ tree[stack[n].dir].dir = stack[n - 1].dir /\ stack[n].dir \notin stack[n - 1].left
    BY <1>1, <1>3, <1>6
  <2>3. ASSUME Here.dir \in stack[k].left PROVE FALSE
    <3>1. tree[Here.dir].dir = stack[k].dir
      BY <1>5, <1>6, <2>3 DEF Children
    <3>2. k = n - 1
      BY <1>1, <1>5, <1>6, <2>2, <3>1
    <3> QED
      BY <1>1, <2>2, <2>3, <3>2
  <2> QED
    BY <2>1, <2>3
<1>8. \A d : Children(d) \ {Here.dir} \subseteq Children(d)' /\ Children(d)' \subseteq Children(d)
             /\ (op = "rm" => Children(d)' = Children(d) \ {Here.dir})
             /\ (op = "list" => Children(d)' = Children(d))
  BY <1>2 DEF Children
<1>9. Chain'
  <2>1. \A k \in 1..(n - 1) :
          /\ stack'[k].via = stack'[k].dir /\ tree[stack'[k].dir].kind = "dir"
          /\ stack'[k].dir \in there'
    BY <1>2, <1>3, <1>5, <1>6, <1>7
  <2>2. \A k \in 1..(n - 1) : stack'[k].left \subseteq {e \in there' : tree[e].dir = stack'[k].dir}
    <3> SUFFICES ASSUME NEW k \in 1..(n - 1)
                 PROVE  stack[k].left \subseteq {e \in there' : tree[e].dir = stack[k].dir}
      BY <1>3
    <3>1. stack[k].left \subseteq Children(stack[k].dir) \ {Here.dir}
      BY <1>5, <1>6, <1>7
    <3>2. there \ {Here.dir} \subseteq there'
      BY <1>2
    <3> QED
      BY <3>1, <3>2 DEF Children
  <2>3. stack'[1].dir = Top
    BY <1>3, <1>5, <1>6
  <2>4. \A k \in 1..(n - 1) : k > 1 => /\ tree[stack'[k].dir].dir = stack'[k - 1].dir
                                       /\ stack'[k].dir \notin stack'[k - 1].left
    BY <1>3, <1>5, <1>6
  <2>5. \A j, k \in 1..(n - 1) : stack'[j].dir = stack'[k].dir => j = k
    BY <1>3, <1>5, <1>6
  <2> QED
    BY <1>2, <1>4, <2>1, <2>2, <2>3, <2>4, <2>5 DEF Chain, Children
<1>10. ASSUME op = "rm", Cleared PROVE Cleared'
  <2> SUFFICES ASSUME NEW k \in 1..(n - 1), NEW f \in Children(stack[k].dir) \ {Here.dir},
                      f \notin stack[k].left
               PROVE  k < n - 1 /\ f = stack[k + 1].dir /\ k + 1 \in 1..(n - 1)
    BY <1>2, <1>3, <1>4, <1>10 DEF Cleared, Children
  <2>1. f = stack[k + 1].dir
    BY <1>1, <1>5, <1>10 DEF Cleared
  <2>2. k + 1 # n
    BY <1>1, <2>1
  <2> QED
    BY <1>1, <2>1, <2>2
<1>11. ASSUME op = "list", NEW D \in SUBSET Entry, Collected(D) PROVE Collected(D)'
  <2>1. ASSUME NEW d \in D, NEW f \in Children(d)
        PROVE  \/ \E k \in 1..(n - 1) : stack'[k].dir = d /\ f \in stack'[k].left
               \/ f \in D
               \/ \E j \in DOMAIN listed : listed[j] = f
    <3>1. \/ \E k \in 1..n : stack[k].dir = d /\ f \in stack[k].left
          \/ f \in D
          \/ \E j \in DOMAIN listed : listed[j] = f
      BY <1>1, <1>11, <2>1 DEF Collected
    <3>2. ASSUME NEW k \in 1..n, stack[k].dir = d, f \in stack[k].left
          PROVE  k \in 1..(n - 1) /\ stack'[k].dir = d /\ f \in stack'[k].left
      <4>1. k # n
        BY <1>1, <3>2
      <4>2. k \in 1..(n - 1)
        BY <1>1, <4>1
      <4> QED
        BY <1>3, <3>2, <4>2
    <3> QED
      BY <3>1, <3>2
  <2>2. \A k \in 1..(n - 1) : stack'[k].dir \in D /\ stack'[k].left \cap D = {}
    BY <1>1, <1>3, <1>5, <1>11 DEF Collected
  <2>3. \A k \in 1..(n - 1) : \A j \in DOMAIN listed : listed[j] \notin stack'[k].left
    BY <1>1, <1>3, <1>5, <1>11 DEF Collected
  <2>4. \A d : Children(d)' = Children(d)
    BY <1>8, <1>11
  <2> QED
    BY <1>2, <1>4, <1>11, <2>1, <2>2, <2>3, <2>4 DEF Collected
<1> QED
  BY <1>9, <1>10, <1>11

LEMMA InitWalk == Init => WalkInv
BY InitIInv, InitGone DEF Init, WalkInv, CalmInv, Calm, Running

LEMMA NextWalk == WalkInv /\ [Next]_vars => WalkInv'
<1> SUFFICES ASSUME WalkInv, [Next]_vars PROVE WalkInv'
  OBVIOUS
<1>1. IInv /\ IInv' /\ GoneInv /\ GoneInv' /\ CalmInv
  BY NextIInv, NextGone DEF WalkInv
<1>2. TypeOK /\ tree \in Tree /\ tree' = tree
  BY <1>1 DEF IInv, Next, Step, Call, Enter, Remove, List, Gone, Close, Fail, Create, Delete, vars
<1>3. SUFFICES ASSUME Calm'
               PROVE  /\ Chain'
                      /\ op' = "rm" => Cleared'
                      /\ op' = "list" => \E D \in SUBSET Entry : Collected(D)'
  BY <1>1 DEF WalkInv, CalmInv
<1>4. Running' /\ noise' = 0 /\ DirLinks = {}
  BY <1>2, <1>3 DEF Calm, DirLinks
<1>5. CASE Call
  BY <1>2, <1>5, CallCalm
<1>6. CASE ~Call
  <2>1. noise \in Nat
    BY <1>2, LinksAssumption DEF TypeOK
  <2>2. ASSUME NEW e \in Entry, Create(e) \/ Delete(e) PROVE FALSE
    BY <1>4, <2>1, <2>2 DEF Create, Delete
  <2>3. ~Fail
    BY <1>4 DEF Fail, Return, Running
  <2>4. CASE UNCHANGED vars
    <3>1. Chain /\ (op = "rm" => Cleared) /\ (op = "list" => \E D \in SUBSET Entry : Collected(D))
      BY <1>1, <1>4, <2>4 DEF vars, CalmInv, Calm, Running
    <3> QED
      BY <2>4, <3>1 DEF vars, Chain, Cleared, Collected, Children
  <2>5. CASE Step
    <3>1. Running /\ noise = 0 /\ op' = op
      BY <1>4, <2>5 DEF Step, Close, Enter, Remove, List, Gone
    <3>2. /\ Chain /\ WalksInside
          /\ op = "rm" => Cleared
          /\ op = "list" => \E D \in SUBSET Entry : Collected(D)
      BY <1>1, <1>4, <3>1 DEF CalmInv, Calm, IInv, Inside
    <3>3. ASSUME NEW e \in Entry, Enter(e)
          PROVE  /\ Chain'
                 /\ op = "rm" => Cleared'
                 /\ op = "list" => \E D \in SUBSET Entry : Collected(D)'
      <4>1. /\ Chain'
            /\ Cleared => Cleared'
            /\ \A D \in SUBSET Entry : Collected(D) => Collected(D \cup {e})'
        BY <1>2, <1>4, <3>1, <3>2, <3>3, EnterCalm
      <4>2. ASSUME op = "list" PROVE \E D \in SUBSET Entry : Collected(D)'
        <5>1. PICK D \in SUBSET Entry : Collected(D)
          BY <3>2, <4>2
        <5>2. Collected(D \cup {e})' /\ D \cup {e} \in SUBSET Entry
          BY <4>1, <5>1
        <5> QED
          BY <5>2
      <4> QED
        BY <3>2, <4>1, <4>2
    <3>4. ASSUME NEW e \in Entry, Remove(e) PROVE Chain' /\ Cleared' /\ op = "rm"
      <4>1. op = "rm"
        BY <3>4 DEF Remove
      <4> QED
        BY <1>2, <3>1, <3>2, <3>4, <4>1, RemoveCalm
    <3>5. ASSUME NEW e \in Entry, List(e)
          PROVE  Chain' /\ op = "list" /\ \E D \in SUBSET Entry : Collected(D)'
      <4>1. op = "list"
        BY <3>5 DEF List
      <4>2. Chain' /\ \A D \in SUBSET Entry : Collected(D) => Collected(D)'
        BY <1>2, <1>4, <3>1, <3>2, <3>5, ListCalm
      <4> QED
        BY <3>2, <4>1, <4>2
    <3>6. ASSUME NEW e \in Entry, Gone(e) PROVE FALSE
      BY <1>2, <3>1, <3>2, <3>6, CalmHere DEF Gone
    <3>7. ASSUME Close
          PROVE  /\ Chain'
                 /\ op = "rm" => Cleared'
                 /\ op = "list" => \E D \in SUBSET Entry : Collected(D)'
      <4>1. /\ Chain'
            /\ op = "rm" /\ Cleared => Cleared'
            /\ op = "list" => \A D \in SUBSET Entry : Collected(D) => Collected(D)'
        BY <1>2, <1>4, <3>1, <3>2, <3>7, CloseCalm
      <4> QED
        BY <3>2, <4>1
    <3> QED
      BY <2>5, <3>1, <3>3, <3>4, <3>5, <3>6, <3>7 DEF Step
  <2> QED
    BY <1>6, <2>2, <2>3, <2>4, <2>5 DEF Next
<1> QED
  BY <1>5, <1>6

\* Left alone, rm_r does not fail on a tree without links to directories, of any
\* size, in whatever order readdir returns it, what an earlier call that failed
\* left of it too: each rmdir meets an empty directory (rm-r.c:41), and a link
\* that lost its file is unlinked (rm-r.c:75-81).
THEOREM CalmWalkSucceeds == Spec => CalmSucceeds
<1>1. ASSUME WalkInv, [Next]_vars, Running, ~Running', op = "rm", noise' = 0, DirLinks = {}
      PROVE  ret' = "OK"
  <2>1. TypeOK /\ tree \in Tree /\ noise \in Nat
    BY <1>1, LinksAssumption DEF WalkInv, IInv, TypeOK
  <2>2. ~Fail
    BY <1>1, <2>1 DEF Fail
  <2>3. noise = 0
    <3>1. ASSUME NEW e \in Entry, Create(e) \/ Delete(e) PROVE FALSE
      BY <1>1, <2>1, <3>1 DEF Create, Delete
    <3> QED
      BY <1>1, <2>2, <3>1 DEF Next, Step, Call, Close, Enter, Remove, List, Gone, vars
  <2>4. Chain /\ Cleared /\ WalksInside
    BY <1>1, <2>3 DEF WalkInv, CalmInv, Calm, IInv, Inside
  <2>5. /\ Len(stack) \in DOMAIN stack /\ Here = stack[Len(stack)] /\ Len(stack) \in Nat
        /\ Here.dir \in there /\ Here.via = Here.dir /\ tree[Here.dir].kind = "dir"
        /\ \A e \in Here.left : e \in there
    BY <1>1, <2>1, <2>4, CalmHere
  <2>6. ASSUME NEW e \in Entry, List(e) \/ Gone(e) PROVE FALSE
    BY <1>1, <2>5, <2>6 DEF List, Gone
  <2>7. Close => Children(Here.via) = {}
    <3>1. ASSUME Close, NEW e \in Children(Here.via) PROVE FALSE
      <4>1. e \in Children(stack[Len(stack)].dir) \ stack[Len(stack)].left
        BY <2>5, <3>1 DEF Close
      <4>2. Len(stack) < Len(stack)
        BY <2>4, <2>5, <4>1 DEF Cleared
      <4> QED
        BY <2>5, <4>2
    <3> QED
      BY <3>1
  <2> QED
    BY <1>1, <2>1, <2>2, <2>5, <2>6, <2>7, Stops DEF Return
<1>2. WalkInv /\ [Next]_vars =>
        [Running /\ ~Running' /\ op = "rm" /\ noise' = 0 /\ DirLinks = {} => ret' = "OK"]_vars
  BY <1>1
<1> QED
  BY <1>2, InitWalk, NextWalk, PTL DEF Spec, CalmSucceeds

\* Left alone, list_files finds every file and link below the directory, and
\* each once, in a tree without links to directories of any size: no file is
\* missing from the archive and none is in it twice (tar.c).
THEOREM FoundOnce == Spec => ListedOnce
<1> DEFINE Complete ==
      /\ \A e \in there \ Outside :
           tree[e].kind # "dir" => \E k \in DOMAIN listed : listed[k] = e
      /\ \A j, k \in DOMAIN listed : listed[j] = listed[k] => j = k
<1>1. ASSUME WalkInv, [Next]_vars, Running, ~Running', op = "list", noise' = 0, ret' = "OK",
             DirLinks = {}
      PROVE  Complete
  <2>1. TypeOK /\ tree \in Tree /\ noise \in Nat /\ Rooted
    BY <1>1, LinksAssumption DEF WalkInv, IInv, TypeOK, GoneInv
  <2>2. Close /\ Len(stack) = 1
    BY <1>1, <2>1, Stops DEF Fail, Return
  <2>3. noise = 0
    BY <1>1, <2>2 DEF Close
  <2>4. Chain /\ WalksInside /\ \E D \in SUBSET Entry : Collected(D)
    BY <1>1, <2>3 DEF WalkInv, CalmInv, Calm, IInv, Inside
  <2>5. PICK D \in SUBSET Entry : Collected(D)
    BY <2>4
  <2>6. /\ DOMAIN stack = 1..1 /\ stack[1].left = {} /\ stack[1].dir = Top
    BY <1>1, <2>1, <2>2, <2>4, CalmHere DEF Chain, Close
  <2>7. \A d \in D : \A e \in Children(d) : e \in D \/ \E j \in DOMAIN listed : listed[j] = e
    BY <2>5, <2>6 DEF Collected
  <2>8. /\ Top \in D /\ \A d \in D : tree[d].kind = "dir"
        /\ \A j \in DOMAIN listed : tree[listed[j]].kind # "dir"
        /\ \A j, k \in DOMAIN listed : listed[j] = listed[k] => j = k
    BY <2>5 DEF Collected
  <2> DEFINE Covered(e) == e \in D \/ \E j \in DOMAIN listed : listed[j] = e
             S == {e \in there \ (Outside \cup {Top}) : ~Covered(e)}
  <2>9. S \in SUBSET (Entry \ (Outside \cup {Top}))
    BY <2>1 DEF TypeOK
  <2>10. ASSUME S # {} PROVE FALSE
    <3>1. PICK e \in S : tree[e].dir \notin S
      BY <2>1, <2>9, <2>10, TreeAssumption
    <3>2. /\ e \in there /\ tree[e].dir \in there /\ tree[e].dir \notin Outside
          /\ tree[tree[e].dir].kind = "dir"
      BY <2>1, <2>9, <3>1, TreeAssumption DEF Rooted
    <3>3. tree[e].dir \in D
      BY <2>8, <3>1, <3>2
    <3>4. e \in Children(tree[e].dir)
      BY <3>2 DEF Children
    <3> QED
      BY <2>7, <3>1, <3>3, <3>4
  <2>11. \A e \in there \ Outside : e = Top \/ Covered(e)
    BY <2>10
  <2> QED
    BY <1>1, <2>2, <2>8, <2>11 DEF Close
<1> HIDE DEF Complete
<1>2. WalkInv /\ [Next]_vars =>
        [Running /\ ~Running' /\ op = "list" /\ noise' = 0 /\ ret' = "OK" /\ DirLinks = {}
           => Complete]_vars
  BY <1>1
<1> USE DEF Complete
<1> QED
  BY <1>2, InitWalk, NextWalk, PTL DEF Spec, ListedOnce

=============================================================================
