------------------------ MODULE ContextLifecycleProofs -------------------------
(***************************************************************************)
(* Proofs about ContextLifecycle, for any contexts, callbacks and bounds:  *)
(* the two parts of the lifecycle's inductive invariant with the lemmas    *)
(* that each kind of step keeps them, these put together, and the          *)
(* properties that follow.                                                 *)
(*                                                                         *)
(* StackInv: what the loops of a reset or a deletion rely on while         *)
(* callbacks run. Where the tree changes, its lemmas need the client to    *)
(* keep to the rule "dying" of MayAdopt.                                   *)
(*                                                                         *)
(* FreelistInv: AllocSetContextCreateInternal takes the first header off a *)
(* list and AllocSetDelete puts one on, through the nextchild field that   *)
(* the tree uses while a context is live.                                  *)
(***************************************************************************)
EXTENDS ContextLifecycle, ContextTreeProofs, FiniteSetTheorems, SequenceTheorems

Functions == {"Reset", "ResetSelf", "ResetReturn", "ResetOnly", "ResetChildren",
              "TraverseNext", "Delete", "DeleteNext", "DeleteChildren", "DeleteOnly",
              "Callback"}

FrameType == [op : Functions, ctx : Context, curr : Context, up : Pointer]

(* The contexts that a call is going to delete, itself or by calls it makes. *)
Doomed(f) ==
  IF f.op \in {"Delete", "DeleteNext"} THEN Subtree(f.ctx)
  ELSE IF f.op \in {"Reset", "DeleteChildren"} THEN Below(f.ctx)
  ELSE {}

Fixed == {Top, Error, current}

(* No call deletes the context of a call around it, nor what must stay.      *)
OuterSpared(s) ==
  \A i, j \in 1..Len(s) : i < j => s[j].ctx \notin Doomed(s[i])

FixedSpared(s) ==
  \A i \in 1..Len(s) : Fixed \cap Doomed(s[i]) = {}

(* A call that has found its context without children and relies on it.    *)
NeedsChildless(f) ==
  \/ f.op = "DeleteOnly"
  \/ f.op = "ResetReturn" /\ "resetting" \in Discipline

(* What is true of a call wherever it is on the stack. *)
FrameOK(f) ==
  /\ f.op # "DeleteNext" => f.ctx \in live
  /\ f.op = "Delete" => f.curr \in Subtree(f.ctx)
  /\ NeedsChildless(f) => firstchild[f.ctx] = NULL
  /\ f.op \in {"ResetChildren", "TraverseNext"} => f.curr \in Below(f.ctx)
  /\ f.op \notin {"Delete", "DeleteNext", "ResetChildren", "TraverseNext"} => f.curr = f.ctx

(* What is true of the innermost call: a deletion can go on from the parent *)
(* it has saved, and a reset that has deleted the children has none left.  *)
TopOK(f) ==
  /\ (f.op = "DeleteNext" /\ f.curr # f.ctx) => f.ctx \in live /\ f.up \in Subtree(f.ctx)
  /\ ("resetting" \in Discipline /\ f.op = "ResetSelf") => firstchild[f.ctx] = NULL

(***************************************************************************)
(* What is true of a call f while the call g that it has made goes on.  A  *)
(* loop that waits for the reset or deletion of its curr knows that g is   *)
(* that call, so that no callback may delete or move curr.                 *)
(***************************************************************************)
WaitsFor(f, g) ==
  /\ f.op \notin {"Delete", "Reset", "ResetChildren"}
  /\ f.op = "TraverseNext" => g.op = "ResetOnly" /\ g.ctx = f.curr
  /\ f.op = "ResetReturn" => g.op = "ResetOnly" /\ g.ctx = f.ctx
  /\ f.op = "ResetSelf" => g.op = "DeleteChildren" /\ g.ctx = f.ctx
  /\ f.op = "DeleteNext" =>
       /\ g.op = "DeleteOnly" /\ g.ctx = f.curr
       /\ f.ctx \in live
       /\ f.curr \in Subtree(f.ctx)
       /\ f.curr # f.ctx => f.up = parent[f.curr]
  /\ g.op = "DeleteOnly" => f.op = "DeleteNext"

BodyOK(s) ==
  /\ s \in Seq(FrameType)
  /\ OuterSpared(s)
  /\ FixedSpared(s)
  /\ \A i \in 1..Len(s) : FrameOK(s[i])
  /\ \A i \in 1..(Len(s) - 1) : WaitsFor(s[i + 1], s[i])
  /\ s # <<>> => s[Len(s)].op # "DeleteOnly"

StackOK(s) ==
  /\ BodyOK(s)
  /\ s # <<>> => TopOK(s[1])
  /\ {current, Error} \subseteq live

StackInv == StackOK(stack)

--------------------------------------------------------------------------------
(* What pushing and popping do to a stack. *)
LEMMA Pushed ==
  ASSUME NEW S, NEW s \in Seq(S), NEW f \in S
  PROVE  /\ <<f>> \o s \in Seq(S)
         /\ Len(<<f>> \o s) = Len(s) + 1
         /\ (<<f>> \o s)[1] = f
         /\ \A i \in 2..(Len(s) + 1) : (<<f>> \o s)[i] = s[i - 1]
         /\ <<f>> \o s # <<>>
  OBVIOUS

(* What is left when a call returns. *)
LEMMA Popped ==
  ASSUME NEW S, NEW s \in Seq(S), s # <<>>
  PROVE  /\ Tail(s) \in Seq(S)
         /\ Len(s) \in Nat \ {0}
         /\ Len(Tail(s)) = Len(s) - 1
         /\ Head(s) = s[1]
         /\ \A i \in 1..(Len(s) - 1) : Tail(s)[i] = s[i + 1]
  OBVIOUS

(* A stack is empty when its length is 0. *)
LEMMA EmptyStack ==
  ASSUME NEW S, NEW s \in Seq(S)
  PROVE  Len(s) \in Nat /\ (s = <<>> <=> Len(s) = 0)
  OBVIOUS

(* Two calls pushed at once are two calls pushed one by one. *)
LEMMA PushedTwo ==
  ASSUME NEW S, NEW s \in Seq(S), NEW f \in S, NEW g \in S
  PROVE  <<f, g>> \o s = <<f>> \o (<<g>> \o s)
<1> DEFINE a == <<f, g>> \o s
           b == <<g>> \o s
           c == <<f>> \o b
<1>1. /\ a \in Seq(S) /\ Len(a) = Len(s) + 2
      /\ a[1] = f /\ a[2] = g /\ \A i \in 3..(Len(s) + 2) : a[i] = s[i - 2]
  OBVIOUS
<1>2. /\ b \in Seq(S) /\ Len(b) = Len(s) + 1
      /\ b[1] = g /\ \A i \in 2..(Len(s) + 1) : b[i] = s[i - 1]
  OBVIOUS
<1> HIDE DEF b
<1>3. /\ c \in Seq(S) /\ Len(c) = Len(s) + 2
      /\ c[1] = f /\ \A i \in 2..(Len(s) + 2) : c[i] = b[i - 1]
  BY <1>2
<1> HIDE DEF a, c
<1>4. \A i \in 1..(Len(s) + 2) : a[i] = c[i]
  BY <1>1, <1>2, <1>3
<1>5. a = c
  <2>1. \A u, v \in Seq(S) : Len(u) = Len(v) /\ (\A i \in 1..Len(u) : u[i] = v[i]) => u = v
    OBVIOUS
  <2> QED
    BY <1>1, <1>3, <1>4, <2>1
<1> QED
  BY <1>5 DEF a, b, c

--------------------------------------------------------------------------------
(* A call may be pushed when the call below it waits for it and it deletes *)
(* neither what must stay nor the context of any call in progress.         *)
LEMMA BodyPush ==
  ASSUME NEW s \in Seq(FrameType), BodyOK(s),
         NEW f \in FrameType, FrameOK(f),
         Fixed \cap Doomed(f) = {},
         \A i \in 1..Len(s) : s[i].ctx \notin Doomed(f),
         s # <<>> => WaitsFor(s[1], f),
         s = <<>> => f.op # "DeleteOnly"
  PROVE  BodyOK(<<f>> \o s)
<1> DEFINE t == <<f>> \o s
<1>1. /\ t \in Seq(FrameType) /\ Len(t) = Len(s) + 1 /\ t[1] = f /\ t # <<>>
      /\ \A i \in 2..(Len(s) + 1) : t[i] = s[i - 1]
      /\ Len(s) \in Nat /\ (s = <<>> <=> Len(s) = 0)
  BY Pushed, EmptyStack
<1> HIDE DEF t
<1>2. OuterSpared(t)
  <2> SUFFICES ASSUME NEW i \in 1..Len(t), NEW j \in 1..Len(t), i < j
               PROVE  t[j].ctx \notin Doomed(t[i])
    BY DEF OuterSpared
  <2>1. j - 1 \in 1..Len(s) /\ t[j] = s[j - 1]
    BY <1>1
  <2>2. CASE i = 1
    BY <1>1, <2>1, <2>2
  <2>3. CASE i # 1
    <3>1. i - 1 \in 1..Len(s) /\ t[i] = s[i - 1] /\ i - 1 < j - 1
      BY <1>1, <2>3
    <3> QED
      BY <2>1, <3>1 DEF BodyOK, OuterSpared
  <2> QED
    BY <2>2, <2>3
<1>3. ASSUME NEW i \in 1..Len(t)
      PROVE  Fixed \cap Doomed(t[i]) = {} /\ FrameOK(t[i])
  <2>1. i = 1 \/ (i - 1 \in 1..Len(s) /\ t[i] = s[i - 1])
    BY <1>1
  <2> QED
    BY <1>1, <2>1 DEF BodyOK, FixedSpared
<1>4. FixedSpared(t)
  BY <1>3 DEF FixedSpared
<1>5. ASSUME NEW i \in 1..(Len(t) - 1)
      PROVE  WaitsFor(t[i + 1], t[i])
  <2>1. CASE i = 1
    BY <1>1, <2>1
  <2>2. CASE i # 1
    <3>1. i - 1 \in 1..(Len(s) - 1) /\ t[i] = s[i - 1] /\ t[i + 1] = s[(i - 1) + 1]
      BY <1>1, <2>2
    <3> QED
      BY <3>1 DEF BodyOK
  <2> QED
    BY <2>1, <2>2
<1>6. t[Len(t)].op # "DeleteOnly"
  BY <1>1 DEF BodyOK
<1> QED
  BY <1>1, <1>2, <1>3, <1>4, <1>5, <1>6 DEF BodyOK, t

(* The calls around the one that returns. *)
LEMMA BodyPop ==
  ASSUME NEW s \in Seq(FrameType), BodyOK(s), s # <<>>
  PROVE  BodyOK(Tail(s))
<1> DEFINE t == Tail(s)
<1>1. /\ t \in Seq(FrameType) /\ Len(t) = Len(s) - 1
      /\ \A i \in 1..(Len(s) - 1) : t[i] = s[i + 1]
      /\ Len(s) \in Nat \ {0} /\ (t = <<>> <=> Len(t) = 0)
  <2>1. t \in Seq(FrameType)
    BY Popped
  <2> QED
    BY <2>1, Popped, EmptyStack
<1> HIDE DEF t
<1>2. OuterSpared(t)
  <2> SUFFICES ASSUME NEW i \in 1..Len(t), NEW j \in 1..Len(t), i < j
               PROVE  t[j].ctx \notin Doomed(t[i])
    BY DEF OuterSpared
  <2>1. i + 1 \in 1..Len(s) /\ j + 1 \in 1..Len(s) /\ i + 1 < j + 1
        /\ t[i] = s[i + 1] /\ t[j] = s[j + 1]
    BY <1>1
  <2> QED
    BY <2>1 DEF BodyOK, OuterSpared
<1>3. FixedSpared(t)
  BY <1>1 DEF BodyOK, FixedSpared
<1>4. \A i \in 1..Len(t) : FrameOK(t[i])
  BY <1>1 DEF BodyOK
<1>5. ASSUME NEW i \in 1..(Len(t) - 1)
      PROVE  WaitsFor(t[i + 1], t[i])
  <2>1. i + 1 \in 1..(Len(s) - 1) /\ t[i] = s[i + 1] /\ t[i + 1] = s[(i + 1) + 1]
    BY <1>1
  <2> QED
    BY <2>1 DEF BodyOK
<1>6. t # <<>> => t[Len(t)].op # "DeleteOnly"
  BY <1>1 DEF BodyOK
<1> QED
  BY <1>1, <1>2, <1>3, <1>4, <1>5, <1>6 DEF BodyOK, t

--------------------------------------------------------------------------------
(***************************************************************************)
(* Steps that leave the tree alone.                                        *)
(***************************************************************************)
SameTree == UNCHANGED <<treeVars, current>>

(* Only the stack is in question when the tree stays as it is. *)
LEMMA SameTreeKeeps ==
  ASSUME StackOK(stack'), SameTree
  PROVE  StackInv'
<1>1. \A c : Subtree(c)' = Subtree(c) /\ Below(c)' = Below(c)
  BY DEF SameTree, treeVars, Below, Subtree, ClosedBelow
<1>2. \A f : Doomed(f)' = Doomed(f)
  BY <1>1 DEF Doomed
<1> HIDE DEF Subtree, Below, Doomed
<1>3. \A f : FrameOK(f)' <=> FrameOK(f)
  BY <1>1 DEF FrameOK, NeedsChildless, SameTree, treeVars
<1>4. \A f : TopOK(f)' <=> TopOK(f)
  BY <1>1 DEF TopOK, SameTree, treeVars
<1>5. \A f, g : WaitsFor(f, g)' <=> WaitsFor(f, g)
  BY <1>1 DEF WaitsFor, SameTree, treeVars
<1>6. Fixed' = Fixed
  BY DEF Fixed, SameTree
<1>7. BodyOK(stack)'
  BY <1>2, <1>3, <1>5, <1>6 DEF StackOK, BodyOK, OuterSpared, FixedSpared
<1> QED
  BY <1>4, <1>7 DEF StackInv, StackOK, SameTree, treeVars

(* What is known of the innermost call and of the rest.                    *)
LEMMA Innermost ==
  ASSUME StackInv, ~Idle
  PROVE  /\ Head(stack) \in FrameType /\ Tail(stack) \in Seq(FrameType)
         /\ stack \in Seq(FrameType) /\ Len(stack) \in Nat \ {0} /\ Head(stack) = stack[1]
         /\ FrameOK(Head(stack)) /\ TopOK(Head(stack))
         /\ Fixed \cap Doomed(Head(stack)) = {}
         /\ BodyOK(Tail(stack))
         /\ \A i \in 1..Len(Tail(stack)) : Tail(stack)[i].ctx \notin Doomed(Head(stack))
         /\ Tail(stack) # <<>> => WaitsFor(Tail(stack)[1], Head(stack))
         /\ Tail(stack) = <<>> => Head(stack).op # "DeleteOnly"
<1>1. stack \in Seq(FrameType) /\ stack # <<>> /\ BodyOK(stack) /\ TopOK(stack[1])
  BY DEF StackInv, StackOK, BodyOK, Idle
<1>2. /\ Tail(stack) \in Seq(FrameType) /\ Len(stack) \in Nat \ {0}
      /\ Len(Tail(stack)) = Len(stack) - 1
      /\ Head(stack) = stack[1]
      /\ \A i \in 1..(Len(stack) - 1) : Tail(stack)[i] = stack[i + 1]
  BY <1>1, Popped
<1>3. Tail(stack) = <<>> <=> Len(Tail(stack)) = 0
  BY <1>2, EmptyStack
<1>4. BodyOK(Tail(stack))
  BY <1>1, BodyPop
<1>5. 1 \in 1..Len(stack) /\ stack[1] \in FrameType
  BY <1>1, <1>2
<1>6. FrameOK(stack[1]) /\ Fixed \cap Doomed(stack[1]) = {}
  BY <1>1, <1>5 DEF BodyOK, FixedSpared
<1>7. ASSUME NEW i \in 1..Len(Tail(stack))
      PROVE  Tail(stack)[i].ctx \notin Doomed(stack[1])
  <2>1. i + 1 \in 1..Len(stack) /\ Tail(stack)[i] = stack[i + 1] /\ 1 < i + 1
    BY <1>2
  <2> QED
    BY <1>1, <1>5, <2>1 DEF BodyOK, OuterSpared
<1>8. Tail(stack) # <<>> => WaitsFor(Tail(stack)[1], stack[1])
  <2> SUFFICES ASSUME Tail(stack) # <<>>
               PROVE  WaitsFor(Tail(stack)[1], stack[1])
    OBVIOUS
  <2>1. 1 \in 1..(Len(stack) - 1)
    BY <1>2, <1>3
  <2> QED
    BY <1>1, <1>2, <2>1 DEF BodyOK
<1>9. Tail(stack) = <<>> => stack[1].op # "DeleteOnly"
  BY <1>1, <1>2, <1>3 DEF BodyOK
<1> QED
  BY <1>1, <1>2, <1>4, <1>5, <1>6, <1>7, <1>8, <1>9

(* The innermost call returns: no call but that of a deletion waits for a  *)
(* DeleteOnly, and a reset waits for its own DeleteChildren.               *)
LEMMA ReturnKeeps ==
  ASSUME StackInv, ~Idle, stack' = Tail(stack), SameTree,
         Head(stack).op # "DeleteOnly",
         Head(stack).op = "DeleteChildren" => firstchild[Head(stack).ctx] = NULL
  PROVE  StackInv'
<1>1. Tail(stack) # <<>> => TopOK(Tail(stack)[1])
  BY Innermost DEF WaitsFor, TopOK
<1> QED
  BY <1>1, Innermost, SameTreeKeeps DEF StackInv, StackOK

(* The innermost call makes a call g.                                      *)
LEMMA CallKeeps ==
  ASSUME StackInv, ~Idle, SameTree,
         NEW g \in FrameType, stack' = <<g>> \o stack,
         FrameOK(g), TopOK(g), Fixed \cap Doomed(g) = {},
         \A i \in 1..Len(stack) : stack[i].ctx \notin Doomed(g),
         WaitsFor(Head(stack), g)
  PROVE  StackInv'
<1>1. BodyOK(<<g>> \o stack)
  BY Innermost, BodyPush DEF StackInv, StackOK, Idle
<1>2. (<<g>> \o stack)[1] = g
  BY Innermost, Pushed
<1> QED
  BY <1>1, <1>2, SameTreeKeeps DEF StackInv, StackOK

(* A call that is waited for by name by none goes on as g.                 *)
LEMMA AdvanceKeeps ==
  ASSUME StackInv, ~Idle, SameTree,
         Head(stack).op \notin {"DeleteOnly", "ResetOnly", "DeleteChildren"},
         NEW g \in FrameType, stack' = <<g>> \o Tail(stack),
         g.op # "DeleteOnly",
         FrameOK(g), TopOK(g), Fixed \cap Doomed(g) = {},
         \A i \in 1..Len(Tail(stack)) : Tail(stack)[i].ctx \notin Doomed(g)
  PROVE  StackInv'
<1>1. Tail(stack) # <<>> => WaitsFor(Tail(stack)[1], g)
  BY Innermost DEF WaitsFor
<1>2. BodyOK(<<g>> \o Tail(stack))
  BY <1>1, Innermost, BodyPush
<1>3. (<<g>> \o Tail(stack))[1] = g
  BY Innermost, Pushed
<1> QED
  BY <1>2, <1>3, SameTreeKeeps DEF StackInv, StackOK

(* It goes on as g and makes a call h.                                     *)
LEMMA AdvanceAndCallKeeps ==
  ASSUME StackInv, ~Idle, SameTree,
         Head(stack).op \notin {"DeleteOnly", "ResetOnly", "DeleteChildren"},
         NEW g \in FrameType, NEW h \in FrameType, stack' = <<h, g>> \o Tail(stack),
         g.op # "DeleteOnly",
         FrameOK(g), Fixed \cap Doomed(g) = {},
         FrameOK(h), Fixed \cap Doomed(h) = {}, TopOK(h),
         WaitsFor(g, h), g.ctx \notin Doomed(h),
         \A i \in 1..Len(Tail(stack)) : Tail(stack)[i].ctx \notin Doomed(g) \cup Doomed(h)
  PROVE  StackInv'
<1> DEFINE t == <<g>> \o Tail(stack)
<1>1. Tail(stack) # <<>> => WaitsFor(Tail(stack)[1], g)
  BY Innermost DEF WaitsFor
<1>2. BodyOK(t)
  BY <1>1, Innermost, BodyPush
<1>3. /\ t \in Seq(FrameType) /\ Len(t) = Len(Tail(stack)) + 1 /\ t[1] = g /\ t # <<>>
      /\ \A i \in 2..(Len(Tail(stack)) + 1) : t[i] = Tail(stack)[i - 1]
  BY Innermost, Pushed
<1>4. stack' = <<h>> \o t
  <2>1. Tail(stack) \in Seq(FrameType)
    BY Innermost
  <2>2. <<h, g>> \o Tail(stack) = <<h>> \o t
    BY <2>1, PushedTwo
  <2> QED
    BY <2>2, Zenon
<1> HIDE DEF t
<1>5. ASSUME NEW i \in 1..Len(t)
      PROVE  t[i].ctx \notin Doomed(h)
  <2>1. i = 1 \/ (i - 1 \in 1..Len(Tail(stack)) /\ t[i] = Tail(stack)[i - 1])
    BY <1>3, Innermost
  <2> QED
    BY <1>3, <2>1
<1>6. BodyOK(<<h>> \o t)
  BY <1>2, <1>3, <1>5, BodyPush
<1>7. (<<h>> \o t)[1] = h
  BY <1>3, Pushed
<1> QED
  BY <1>4, <1>6, <1>7, SameTreeKeeps DEF StackInv, StackOK

--------------------------------------------------------------------------------
(***************************************************************************)
(* The steps of the library but for the end of a deletion.                 *)
(***************************************************************************)
LEMMA CallingFacts ==
  ASSUME StackInv, NEW op, Calling(op)
  PROVE  /\ ~Idle /\ Head(stack).op = op
         /\ Head(stack).ctx \in Context /\ Head(stack).curr \in Context
         /\ Head(stack).up \in Pointer
         /\ op # "DeleteNext" => Head(stack).ctx \in live
<1>1. ~Idle /\ Head(stack).op = op
  BY DEF Calling
<1> QED
  BY <1>1, Innermost DEF FrameType, FrameOK

(* A step that only makes or ends calls leaves the tree as it is. *)
LEMMA OnlyTheCallsSame ==
  ASSUME OnlyTheCalls
  PROVE  SameTree
  BY DEF OnlyTheCalls, SameTree

(* MemoryContextCallResetCallbacks calls a callback. *)
LEMMA RunCallbackKeepsStack ==
  ASSUME TreeInv, StackInv, RunCallback
  PROVE  StackInv'
<1> DEFINE f == Head(stack)
           g == Frame("Callback", f.ctx)
<1>1. ~Idle /\ f.op \in {"ResetOnly", "DeleteOnly"} /\ f.ctx \in Context /\ f.ctx \in live
  BY CallingFacts DEF RunCallback
<1>2. stack' = <<g>> \o stack /\ SameTree
  BY DEF RunCallback, Call, GoOn, SameTree
<1>3. g \in FrameType /\ FrameOK(g) /\ TopOK(g) /\ Doomed(g) = {} /\ WaitsFor(f, g)
  BY <1>1
  DEF FrameType, Functions, Frame, Pointer, FrameOK, NeedsChildless, TopOK,
      Doomed, WaitsFor
<1> QED
  BY <1>1, <1>2, <1>3, CallKeeps

(* A callback or a function whose loop is over returns. *)
LEMMA SimpleReturnsKeepStack ==
  ASSUME StackInv, CallbackReturns \/ ResetReturn \/ FinishResetOnly
  PROVE  StackInv'
<1>1. ~Idle /\ Head(stack).op \in {"Callback", "ResetReturn", "ResetOnly"}
  BY CallingFacts DEF CallbackReturns, ResetReturn, FinishResetOnly
<1>2. stack' = Tail(stack) /\ SameTree
  BY DEF CallbackReturns, ResetReturn, FinishResetOnly, Return, GoOn, OnlyTheCalls, SameTree
<1> QED
  BY <1>1, <1>2, ReturnKeeps

(* MemoryContextReset calls MemoryContextDeleteChildren. *)
LEMMA ResetChildrenFirstKeepsStack ==
  ASSUME TreeInv, StackInv, ResetChildrenFirst
  PROVE  StackInv'
<1> DEFINE f == Head(stack)
           g == [f EXCEPT !.op = "ResetSelf"]
           h == Frame("DeleteChildren", f.ctx)
<1>1. ~Idle /\ f.op = "Reset" /\ f.ctx \in live /\ f \in FrameType /\ f.curr = f.ctx
  BY CallingFacts, Innermost DEF ResetChildrenFirst, FrameOK
<1>2. stack' = <<h, g>> \o Tail(stack) /\ SameTree
  BY DEF ResetChildrenFirst, GoOn, OnlyTheCalls, SameTree
<1>3. g \in FrameType /\ FrameOK(g) /\ Doomed(g) = {} /\ g.op = "ResetSelf" /\ g.ctx = f.ctx
  BY <1>1 DEF FrameType, Functions, FrameOK, NeedsChildless, Doomed
<1>4. h \in FrameType /\ FrameOK(h) /\ TopOK(h) /\ Doomed(h) = Doomed(f) /\ WaitsFor(g, h)
  BY <1>1, <1>3
  DEF FrameType, Functions, Frame, Pointer, FrameOK, NeedsChildless, TopOK,
      Doomed, WaitsFor
<1>5. f.ctx \notin Doomed(f)
  BY <1>1 DEF Doomed, Below
<1> QED
  BY <1>1, <1>2, <1>3, <1>4, <1>5, Innermost, AdvanceAndCallKeeps

(* MemoryContextReset calls MemoryContextResetOnly. *)
LEMMA ResetSelfKeepsStack ==
  ASSUME TreeInv, StackInv, ResetSelf
  PROVE  StackInv'
<1> DEFINE f == Head(stack)
           g == [f EXCEPT !.op = "ResetReturn"]
           h == Frame("ResetOnly", f.ctx)
<1>1. ~Idle /\ f.op = "ResetSelf" /\ f.ctx \in live /\ f \in FrameType
  BY CallingFacts, Innermost DEF ResetSelf
<1>2. /\ stack' = <<g>> \o Tail(stack) \/ stack' = <<h, g>> \o Tail(stack)
      /\ SameTree
  BY DEF ResetSelf, Advance, GoOn, OnlyTheCalls, SameTree
<1>3. /\ g \in FrameType /\ FrameOK(g) /\ TopOK(g) /\ Doomed(g) = {} /\ g.op = "ResetReturn"
      /\ g.ctx = f.ctx
  BY <1>1, Innermost
  DEF FrameType, Functions, FrameOK, NeedsChildless, TopOK, Doomed
<1>4. h \in FrameType /\ FrameOK(h) /\ TopOK(h) /\ Doomed(h) = {} /\ WaitsFor(g, h)
  BY <1>1, <1>3
  DEF FrameType, Functions, Frame, Pointer, FrameOK, NeedsChildless, TopOK,
      Doomed, WaitsFor
<1>5. CASE stack' = <<g>> \o Tail(stack)
  BY <1>1, <1>2, <1>3, <1>5, AdvanceKeeps
<1>6. CASE stack' = <<h, g>> \o Tail(stack)
  BY <1>1, <1>2, <1>3, <1>4, <1>6, AdvanceAndCallKeeps
<1> QED
  BY <1>2, <1>5, <1>6

(* MemoryContextResetChildren calls MemoryContextResetOnly. *)
LEMMA ResetDescendantKeepsStack ==
  ASSUME TreeInv, StackInv, ResetDescendant
  PROVE  StackInv'
<1> DEFINE f == Head(stack)
           g == [f EXCEPT !.op = "TraverseNext"]
           h == Frame("ResetOnly", f.curr)
<1>1. /\ ~Idle /\ f.op = "ResetChildren" /\ f.ctx \in live /\ f \in FrameType
      /\ f.curr \in Below(f.ctx)
  BY CallingFacts, Innermost DEF ResetDescendant, FrameOK
<1>2. f.curr \in live
  BY <1>1, SubtreeLive DEF Below
<1>3. /\ stack' = <<g>> \o Tail(stack) \/ stack' = <<h, g>> \o Tail(stack)
      /\ SameTree
  BY DEF ResetDescendant, Advance, GoOn, OnlyTheCalls, SameTree
<1>4. /\ g \in FrameType /\ FrameOK(g) /\ TopOK(g) /\ Doomed(g) = {} /\ g.op = "TraverseNext"
      /\ g.curr = f.curr
  BY <1>1 DEF FrameType, Functions, FrameOK, NeedsChildless, TopOK, Doomed
<1>5. h \in FrameType /\ FrameOK(h) /\ TopOK(h) /\ Doomed(h) = {} /\ WaitsFor(g, h)
  BY <1>1, <1>2, <1>4
  DEF FrameType, Functions, Frame, Pointer, FrameOK, NeedsChildless, TopOK,
      Doomed, WaitsFor
<1>6. CASE stack' = <<g>> \o Tail(stack)
  BY <1>1, <1>3, <1>4, <1>6, AdvanceKeeps
<1>7. CASE stack' = <<h, g>> \o Tail(stack)
  BY <1>1, <1>3, <1>4, <1>5, <1>7, AdvanceAndCallKeeps
<1> QED
  BY <1>3, <1>6, <1>7

(* MemoryContextResetChildren goes on to the next descendant. *)
LEMMA ResetNextDescendantKeepsStack ==
  ASSUME TreeInv, StackInv, ResetNextDescendant
  PROVE  StackInv'
<1> DEFINE f == Head(stack)
           next == TraverseNext(f.curr, f.ctx)
           g == [f EXCEPT !.op = "ResetChildren", !.curr = next]
<1>1. /\ ~Idle /\ f.op = "TraverseNext" /\ f.ctx \in live /\ f \in FrameType
      /\ f.curr \in Below(f.ctx)
  BY CallingFacts, Innermost DEF ResetNextDescendant, FrameOK
<1>2. next \in Below(f.ctx) \cup {NULL}
  BY <1>1, TraverseNextBelow
<1>3. /\ IF next = NULL THEN stack' = Tail(stack) ELSE stack' = <<g>> \o Tail(stack)
      /\ SameTree
  BY DEF ResetNextDescendant, Return, Advance, GoOn, OnlyTheCalls, SameTree
<1> HIDE DEF next
<1>4. CASE next = NULL
  BY <1>1, <1>3, <1>4, ReturnKeeps
<1>5. CASE next # NULL
  <2>1. next \in Context
    BY <1>1, <1>2, <1>5, SubtreeLive DEF Below, TreeInv, TreeTypeOK
  <2>2. g \in FrameType /\ FrameOK(g) /\ TopOK(g) /\ Doomed(g) = {} /\ g.op = "ResetChildren"
    BY <1>1, <1>2, <1>5, <2>1
    DEF FrameType, Functions, FrameOK, NeedsChildless, TopOK, Doomed
  <2> QED
    BY <1>1, <1>3, <1>5, <2>2, AdvanceKeeps
<1> QED
  BY <1>4, <1>5

(* MemoryContextDeleteChildren calls MemoryContextDelete for the first     *)
(* child.                                                                  *)
LEMMA DeleteFirstChildKeepsStack ==
  ASSUME TreeInv, StackInv, DeleteFirstChild
  PROVE  StackInv'
<1> DEFINE f == Head(stack)
           c == firstchild[f.ctx]
           g == Frame("Delete", c)
<1>1. ~Idle /\ f.op = "DeleteChildren" /\ f.ctx \in live /\ f \in FrameType
  BY CallingFacts, Innermost DEF DeleteFirstChild
<1>2. /\ IF c = NULL THEN stack' = Tail(stack) ELSE stack' = <<g>> \o stack
      /\ SameTree
  BY DEF DeleteFirstChild, Return, Call, GoOn, OnlyTheCalls, SameTree
<1>3. CASE c = NULL
  BY <1>1, <1>2, <1>3, ReturnKeeps
<1>4. CASE c # NULL
  <2>1. c \in live /\ parent[c] = f.ctx /\ c \in Context
    BY <1>1, <1>4 DEF TreeInv, TreeTypeOK, LinksOK, DownOK
  <2>2. c \in Below(f.ctx)
    BY <1>1, <2>1, ChildBelow, SubtreeClosed
  <2>3. Subtree(c) \subseteq Doomed(f) /\ f.ctx \notin Subtree(c) /\ c \in Subtree(c)
    BY <1>1, <2>1, <2>2, NotAbove, SubtreeOfMember, SubtreeClosed DEF Doomed, Below
  <2>4. /\ g \in FrameType /\ FrameOK(g) /\ TopOK(g) /\ Doomed(g) = Subtree(c)
        /\ WaitsFor(f, g)
    BY <1>1, <2>1, <2>3
    DEF FrameType, Functions, Frame, Pointer, FrameOK, NeedsChildless, TopOK,
        Doomed, WaitsFor
  <2>5. ASSUME NEW i \in 1..Len(stack)
        PROVE  stack[i].ctx \notin Doomed(g)
    <3>1. i = 1 \/ (i - 1 \in 1..Len(Tail(stack)) /\ stack[i] = Tail(stack)[i - 1])
      BY <1>1, Innermost, Popped DEF Idle
    <3> QED
      BY <1>1, <2>3, <2>4, <3>1, Innermost
  <2>6. Fixed \cap Doomed(g) = {}
    BY <1>1, <2>3, <2>4, Innermost
  <2> HIDE DEF c
  <2> QED
    BY <1>1, <1>2, <1>4, <2>4, <2>5, <2>6, CallKeeps
<1> QED
  BY <1>3, <1>4

(* MemoryContextDelete goes down to a leaf. *)
LEMMA DescendToLeafKeepsStack ==
  ASSUME TreeInv, StackInv, DescendToLeaf
  PROVE  StackInv'
<1> DEFINE f == Head(stack)
           c == firstchild[f.curr]
           g == [f EXCEPT !.curr = c]
<1>1. /\ ~Idle /\ f.op = "Delete" /\ f.ctx \in live /\ f \in FrameType
      /\ f.curr \in Subtree(f.ctx)
  BY CallingFacts, Innermost DEF DescendToLeaf, FrameOK
<1>2. c # NULL /\ stack' = <<g>> \o Tail(stack) /\ SameTree
  BY DEF DescendToLeaf, Advance, GoOn, OnlyTheCalls, SameTree
<1>3. c \in live /\ parent[c] = f.curr /\ c \in Context
  BY <1>1, <1>2, SubtreeLive DEF TreeInv, TreeTypeOK, LinksOK, DownOK
<1>4. c \in Subtree(f.ctx)
  BY <1>1, <1>3, SubtreeClosed DEF ClosedBelow
<1>5. /\ g \in FrameType /\ FrameOK(g) /\ TopOK(g) /\ Doomed(g) = Doomed(f) /\ g.op = "Delete"
  BY <1>1, <1>3, <1>4
  DEF FrameType, Functions, FrameOK, NeedsChildless, TopOK, Doomed
<1> QED
  BY <1>1, <1>2, <1>5, Innermost, AdvanceKeeps

(* MemoryContextDelete calls MemoryContextDeleteOnly for the leaf. *)
LEMMA DeleteLeafContextKeepsStack ==
  ASSUME TreeInv, StackInv, DeleteLeafContext
  PROVE  StackInv'
<1> DEFINE f == Head(stack)
           g == [f EXCEPT !.op = "DeleteNext", !.up = parent[f.curr]]
           h == Frame("DeleteOnly", f.curr)
<1>1. /\ ~Idle /\ f.op = "Delete" /\ f.ctx \in live /\ f \in FrameType
      /\ f.curr \in Subtree(f.ctx) /\ f.curr \in live
  BY CallingFacts, Innermost, SubtreeLive DEF DeleteLeafContext, FrameOK
<1>2. firstchild[f.curr] = NULL /\ stack' = <<h, g>> \o Tail(stack) /\ SameTree
  BY DEF DeleteLeafContext, GoOn, OnlyTheCalls, SameTree
<1>3. parent[f.curr] \in Pointer /\ f.curr \in Context
  BY <1>1 DEF TreeInv, TreeTypeOK
<1>4. /\ g \in FrameType /\ FrameOK(g) /\ Doomed(g) = Doomed(f) /\ g.op = "DeleteNext"
      /\ g.ctx = f.ctx /\ g.curr = f.curr /\ g.up = parent[f.curr]
  BY <1>1, <1>3 DEF FrameType, Functions, FrameOK, NeedsChildless, Doomed
<1>5. /\ h \in FrameType /\ FrameOK(h) /\ TopOK(h) /\ Doomed(h) = {} /\ WaitsFor(g, h)
  BY <1>1, <1>2, <1>3, <1>4
  DEF FrameType, Functions, Frame, Pointer, FrameOK, NeedsChildless, TopOK,
      Doomed, WaitsFor
<1> QED
  BY <1>1, <1>2, <1>4, <1>5, Innermost, AdvanceAndCallKeeps

(* MemoryContextDelete goes on with the parent of the leaf it deleted. *)
LEMMA DeleteContinuesKeepsStack ==
  ASSUME TreeInv, StackInv, DeleteContinues
  PROVE  StackInv'
<1> DEFINE f == Head(stack)
           g == [f EXCEPT !.op = "Delete", !.curr = f.up, !.up = NULL]
<1>1. ~Idle /\ f.op = "DeleteNext" /\ f \in FrameType
  BY CallingFacts, Innermost DEF DeleteContinues
<1>2. /\ IF f.curr = f.ctx THEN stack' = Tail(stack) ELSE stack' = <<g>> \o Tail(stack)
      /\ SameTree
  BY DEF DeleteContinues, Return, Advance, GoOn, OnlyTheCalls, SameTree
<1>3. CASE f.curr = f.ctx
  BY <1>1, <1>2, <1>3, ReturnKeeps
<1>4. CASE f.curr # f.ctx
  <2>1. f.ctx \in live /\ f.up \in Subtree(f.ctx)
    BY <1>1, <1>4, Innermost DEF TopOK
  <2>2. f.up \in Context
    BY <2>1, SubtreeLive DEF TreeInv, TreeTypeOK
  <2>3. g \in FrameType /\ FrameOK(g) /\ TopOK(g) /\ Doomed(g) = Doomed(f) /\ g.op = "Delete"
    BY <1>1, <2>1, <2>2
    DEF FrameType, Functions, Pointer, FrameOK, NeedsChildless, TopOK, Doomed
  <2> QED
    BY <1>1, <1>2, <1>4, <2>3, Innermost, AdvanceKeeps
<1> QED
  BY <1>3, <1>4

(* Every step of the library but the end of MemoryContextDeleteOnly. *)
LEMMA LibraryKeepsStack ==
  ASSUME TreeInv, StackInv, QuietStep \/ FinishResetOnly
  PROVE  StackInv'
  BY RunCallbackKeepsStack, SimpleReturnsKeepStack, ResetChildrenFirstKeepsStack,
     ResetSelfKeepsStack, ResetDescendantKeepsStack, ResetNextDescendantKeepsStack,
     DeleteFirstChildKeepsStack, DescendToLeafKeepsStack, DeleteLeafContextKeepsStack,
     DeleteContinuesKeepsStack
  DEF QuietStep

--------------------------------------------------------------------------------
(***************************************************************************)
(* Client operations.                                                      *)
(***************************************************************************)
(* What is known of the calls while a callback runs.                       *)
LEMMA UnderCallback ==
  ASSUME StackInv, Calling("Callback"), NEW i \in 1..Len(stack)
  PROVE  /\ stack[i] \in FrameType /\ stack[i] \in Calls /\ FrameOK(stack[i])
         /\ stack[i].op \notin {"Delete", "Reset", "ResetChildren"}
         /\ i > 1 => i - 1 \in 1..Len(stack) /\ WaitsFor(stack[i], stack[i - 1])
         /\ stack[i].ctx \in live
<1>1. /\ stack \in Seq(FrameType) /\ Len(stack) \in Nat \ {0}
      /\ stack[1].op = "Callback" /\ BodyOK(stack)
  BY CallingFacts, Innermost DEF StackInv, StackOK
<1>2. stack[i] \in FrameType /\ stack[i] \in Calls /\ FrameOK(stack[i])
  BY <1>1 DEF BodyOK, Calls
<1>3. i > 1 => i - 1 \in 1..Len(stack) /\ WaitsFor(stack[i], stack[i - 1])
  <2> SUFFICES ASSUME i > 1
               PROVE  i - 1 \in 1..Len(stack) /\ WaitsFor(stack[i], stack[i - 1])
    OBVIOUS
  <2>1. i - 1 \in 1..(Len(stack) - 1) /\ (i - 1) + 1 = i
    BY <1>1
  <2> QED
    BY <1>1, <2>1 DEF BodyOK
<1> QED
  BY <1>1, <1>2, <1>3 DEF WaitsFor, FrameOK

(* A call of the client that deletes nothing a call around it is at. *)
LEMMA ClientCallKeeps ==
  ASSUME StackInv, ClientRuns, SameTree,
         NEW g \in FrameType, stack' = <<g>> \o stack,
         FrameOK(g), TopOK(g), g.op # "DeleteOnly",
         Doomed(g) \cap (Protected \cup {current}) = {}
  PROVE  StackInv'
<1>1. Fixed \cap Doomed(g) = {}
  BY DEF Fixed, Protected
<1>2. \A i \in 1..Len(stack) : stack[i].ctx \notin Doomed(g)
  BY DEF Protected, Held, Calls
<1>3. stack # <<>> => WaitsFor(stack[1], g)
  <2> SUFFICES ASSUME stack # <<>>
               PROVE  WaitsFor(stack[1], g)
    OBVIOUS
  <2>1. Head(stack).op = "Callback" /\ ~Idle
    BY DEF ClientRuns, Idle, Calling
  <2> QED
    BY <2>1, Innermost DEF WaitsFor
<1>4. BodyOK(<<g>> \o stack) /\ (<<g>> \o stack)[1] = g
  <2>1. BodyOK(stack) /\ stack \in Seq(FrameType)
    BY DEF StackInv, StackOK, BodyOK
  <2> QED
    BY <1>1, <1>2, <1>3, <2>1, BodyPush, Pushed
<1> QED
  BY <1>4, SameTreeKeeps DEF StackInv, StackOK

(* The resets and deletions that a client starts. *)
LEMMA StartsKeepStack ==
  ASSUME TreeInv, StackInv, NEW c \in live,
         \/ StartReset(c) \/ StartResetOnly(c) \/ StartResetChildren(c)
         \/ StartDelete(c) \/ StartDeleteChildren(c)
  PROVE  StackInv'
<1> USE DEF FrameType, Functions, Frame, Pointer, FrameOK, NeedsChildless, TopOK, Doomed
<1>1. ClientRuns /\ SameTree /\ c \in Context
  BY OnlyTheCallsSame
  DEF StartReset, StartResetOnly, StartResetChildren, StartDelete, StartDeleteChildren,
      TreeInv, TreeTypeOK
<1>2. CASE StartReset(c) \/ StartDeleteChildren(c)
  <2>1. PICK op \in {"Reset", "DeleteChildren"} :
          stack' = <<Frame(op, c)>> \o stack /\ Below(c) \cap (Protected \cup {current}) = {}
    BY <1>2 DEF StartReset, StartDeleteChildren, MayDeleteChildren
  <2> DEFINE g == Frame(op, c)
  <2>2. /\ g \in FrameType /\ FrameOK(g) /\ TopOK(g) /\ g.op # "DeleteOnly"
        /\ Doomed(g) = Below(c)
    BY <1>1
  <2> QED
    BY <1>1, <2>1, <2>2, ClientCallKeeps
<1>3. CASE StartResetOnly(c)
  <2> DEFINE g == Frame("ResetOnly", c)
  <2>1. /\ g \in FrameType /\ FrameOK(g) /\ TopOK(g) /\ g.op # "DeleteOnly"
        /\ Doomed(g) = {} /\ stack' = <<g>> \o stack
    BY <1>1, <1>3 DEF StartResetOnly
  <2> QED
    BY <1>1, <2>1, ClientCallKeeps
<1>4. CASE StartResetChildren(c)
  <2> DEFINE g == [Frame("ResetChildren", c) EXCEPT !.curr = firstchild[c]]
  <2>1. firstchild[c] \in live /\ parent[firstchild[c]] = c
    BY <1>4 DEF StartResetChildren, TreeInv, LinksOK, DownOK
  <2>2. firstchild[c] \in Below(c) /\ firstchild[c] \in Context
    BY <2>1, ChildBelow, SubtreeClosed DEF TreeInv, TreeTypeOK
  <2>3. /\ g \in FrameType /\ FrameOK(g) /\ TopOK(g) /\ g.op # "DeleteOnly"
        /\ Doomed(g) = {} /\ stack' = <<g>> \o stack
    BY <1>1, <1>4, <2>2 DEF StartResetChildren
  <2> QED
    BY <1>1, <2>3, ClientCallKeeps
<1>5. CASE StartDelete(c)
  <2> DEFINE g == Frame("Delete", c)
  <2>1. c \in Subtree(c)
    BY SubtreeClosed
  <2>2. /\ g \in FrameType /\ FrameOK(g) /\ TopOK(g) /\ g.op # "DeleteOnly"
        /\ Doomed(g) = Subtree(c) /\ stack' = <<g>> \o stack
        /\ Subtree(c) \cap (Protected \cup {current}) = {}
    BY <1>1, <1>5, <2>1 DEF StartDelete, MayDelete
  <2> QED
    BY <1>1, <2>2, ClientCallKeeps
<1> QED
  BY <1>2, <1>3, <1>4, <1>5

(***************************************************************************)
(* A step that changes the tree under the calls s.  H is a set of contexts *)
(* that keep their places; it holds the contexts of all calls, but for the *)
(* innermost when that is a deletion that goes on.                         *)
(***************************************************************************)
LEMMA CallsKept ==
  ASSUME NEW s, stack' = s, s # <<>>, BodyOK(s),
         NEW H \in SUBSET (live \cap live'), {Top, Error} \subseteq H,
         s[1].op \in {"Callback", "DeleteNext"},
         TopOK(s[1])',
         \A i \in 1..Len(s) : i > 1 \/ s[1].op = "Callback" => s[i].ctx \in H,
         \A i \in 1..Len(s), h \in H : h \in Subtree(s[i].ctx)' => h \in Subtree(s[i].ctx),
         \A d, h \in H : h \in Subtree(d) => h \in Subtree(d)',
         \A h \in H : parent'[h] = parent[h],
         \A i \in 1..Len(s) : /\ NeedsChildless(s[i])
                             /\ s[i].ctx \in H
                             /\ firstchild[s[i].ctx] = NULL
                             => firstchild'[s[i].ctx] = NULL,
         {current', Error} \subseteq live',
         \A i \in 1..Len(s) : current' \notin Doomed(s[i])'
  PROVE  StackInv'
<1>1. s \in Seq(FrameType) /\ Len(s) \in Nat \ {0} /\ \A i \in 1..Len(s) : s[i] \in FrameType
  BY EmptyStack DEF BodyOK
<1>2. ASSUME NEW i \in 1..Len(s), i > 1
      PROVE  /\ i - 1 \in 1..Len(s) /\ WaitsFor(s[i], s[i - 1])
             /\ s[i - 1].op \in {"ResetOnly", "DeleteOnly"} => s[i - 1].ctx \in H
  <2>1. i - 1 \in 1..(Len(s) - 1) /\ (i - 1) + 1 = i
    BY <1>1, <1>2
  <2>2. WaitsFor(s[(i - 1) + 1], s[i - 1])
    BY <2>1 DEF BodyOK
  <2>3. s[i - 1].op \in {"ResetOnly", "DeleteOnly"} => i - 1 > 1
    BY <2>1
  <2> QED
    BY <1>1, <2>1, <2>2, <2>3
<1>3. ASSUME NEW i \in 1..Len(s), NEW h \in H, h \notin Doomed(s[i])
      PROVE  h \notin Doomed(s[i])'
  <2>1. i > 1 \/ s[i].op \in {"Callback", "DeleteNext"}
    BY <1>1
  <2> QED
    BY <1>3 DEF Doomed, Below
<1>4. OuterSpared(s)'
  <2> SUFFICES ASSUME NEW i \in 1..Len(s), NEW j \in 1..Len(s), i < j
               PROVE  s[j].ctx \notin Doomed(s[i])'
    BY DEF OuterSpared
  <2>1. s[j].ctx \in H /\ s[j].ctx \notin Doomed(s[i])
    BY <1>1 DEF BodyOK, OuterSpared
  <2> QED
    BY <2>1, <1>3
<1>5. FixedSpared(s)'
  <2> SUFFICES ASSUME NEW i \in 1..Len(s)
               PROVE  Fixed' \cap Doomed(s[i])' = {}
    BY DEF FixedSpared
  <2>1. Top \notin Doomed(s[i]) /\ Error \notin Doomed(s[i])
    BY DEF BodyOK, FixedSpared, Fixed
  <2> QED
    BY <1>3, <2>1 DEF Fixed
<1>6. ASSUME NEW i \in 1..Len(s)
      PROVE  FrameOK(s[i])'
  <2>1. FrameOK(s[i])
    BY DEF BodyOK
  <2>2. s[i].op \notin {"Delete", "ResetChildren"}
    BY <1>1, <1>2 DEF WaitsFor
  <2>3. s[i].op # "DeleteNext" => s[i].ctx \in H
    BY <1>1
  <2>4. s[i].op = "TraverseNext" => s[i].curr \in H /\ s[i].curr \in Below(s[i].ctx)
    BY <1>1, <1>2, <2>1 DEF WaitsFor, FrameOK
  <2>5. s[i].op = "TraverseNext" => s[i].curr \in Below(s[i].ctx)'
    BY <2>3, <2>4 DEF Below
  <2> QED
    BY <2>1, <2>2, <2>3, <2>5 DEF FrameOK, NeedsChildless
<1>7. ASSUME NEW i \in 1..(Len(s) - 1)
      PROVE  WaitsFor(s[i + 1], s[i])'
  <2>1. i + 1 \in 1..Len(s) /\ i + 1 > 1 /\ (i + 1) - 1 = i
    BY <1>1
  <2>2. /\ WaitsFor(s[i + 1], s[i]) /\ s[i + 1].ctx \in H
        /\ s[i].op \in {"ResetOnly", "DeleteOnly"} => s[i].ctx \in H
    BY <1>2, <2>1
  <2> QED
    BY <2>2 DEF WaitsFor
<1>8. BodyOK(s)'
  BY <1>1, <1>4, <1>5, <1>6, <1>7 DEF BodyOK
<1> QED
  BY <1>8 DEF StackInv, StackOK

(* Before a callback no call is in progress, and nothing can go wrong.     *)
LEMMA IdleKeeps ==
  ASSUME Idle, stack' = stack, {current', Error} \subseteq live'
  PROVE  StackInv'
<1>1. stack' = <<>>
  BY DEF Idle
<1>2. stack' \in Seq(FrameType) /\ Len(stack') = 0
  BY <1>1
<1> QED
  BY <1>1, <1>2 DEF StackInv, StackOK, BodyOK, OuterSpared, FixedSpared

(* MemoryContextCreate. *)
LEMMA CreateKeepsStack ==
  ASSUME TreeInv, StackInv, "dying" \in Discipline,
         Idle \/ Calling("Callback"),
         NEW c \in Context, NEW p \in live \cup {NULL}, Create(c, p), MayAdopt(p),
         stack' = stack, current' = current
  PROVE  StackInv'
<1>1. live' = live \cup {c} /\ {current, Error} \subseteq live /\ Top \in live
  BY DEF Create, CreateNode, StackInv, StackOK, TreeInv, TreeTypeOK
<1>2. \A d, h \in live : h \in Subtree(d)' <=> h \in Subtree(d)
  BY CreateKeepsSubtrees
<1>3. \A h \in live : parent'[h] = parent[h]
  BY ContextAssumption DEF TreeInv, TreeTypeOK, Create, CreateNode, Relink
<1>4. CASE Idle
  BY <1>1, <1>4, IdleKeeps
<1>5. CASE Calling("Callback")
  <2>1. PICK s : s = stack /\ stack' = s
    OBVIOUS
  <2>2. /\ s # <<>> /\ s[1].op = "Callback" /\ BodyOK(s) /\ TopOK(s[1])'
    BY <1>5, <2>1, CallingFacts, Innermost DEF StackInv, StackOK, Idle, TopOK
  <2>3. ASSUME NEW i \in 1..Len(s)
        PROVE  /\ s[i].ctx \in live /\ s[i] \in Calls
               /\ s[i].op \notin {"Delete", "Reset", "ResetChildren"}
               /\ current \notin Doomed(s[i])
    BY <1>5, <2>1, <2>2, UnderCallback DEF BodyOK, FixedSpared, Fixed
  <2>4. \A i \in 1..Len(s) : current \notin Doomed(s[i])'
    BY <1>1, <1>2, <2>3 DEF Doomed, Below
  <2>5. ASSUME NEW i \in 1..Len(s), NeedsChildless(s[i]), firstchild[s[i].ctx] = NULL
        PROVE  firstchild'[s[i].ctx] = NULL
    <3>1. s[i].ctx # p
      BY <2>3, <2>5 DEF MayAdopt, NeedsChildless
    <3> QED
      BY <2>3, <2>5, <3>1, CreateKeepsLeaves
  <2> DEFINE H == live
  <2>6. H \in SUBSET (live \cap live') /\ {Top, Error} \subseteq H
    BY <1>1
  <2> HIDE DEF H
  <2> QED
    BY <1>1, <1>2, <1>3, <2>1, <2>2, <2>3, <2>4, <2>5, <2>6, CallsKept DEF H
<1> QED
  BY <1>4, <1>5

(* MemoryContextSetParent. *)
LEMMA MoveKeepsStack ==
  ASSUME TreeInv, StackInv, "dying" \in Discipline,
         NEW c \in live, NEW p \in live \cup {NULL}, MoveContext(c, p)
  PROVE  StackInv'
<1>1. /\ Reparent(c, p) /\ MayAdopt(p) /\ Subtree(c) \cap Protected = {}
      /\ current \in Subtree(c) => MayCarryCurrent(p)
      /\ stack' = stack /\ current' = current /\ live' = live
      /\ Idle \/ Calling("Callback")
  BY DEF MoveContext, MayMove, Reparent, ClientRuns
<1>2. {current, Error} \subseteq live /\ Top \in live
  BY DEF StackInv, StackOK, TreeInv, TreeTypeOK
<1>3. /\ \A h \in live \ Subtree(c), d \in live : h \in Subtree(d)' <=> h \in Subtree(d)
      /\ \A d \in live : p \notin Subtree(d) => Subtree(d)' \subseteq Subtree(d)
  BY <1>1, ReparentKeepsSubtrees, ReparentAddsNothing
<1>4. \A h \in live \ Subtree(c) : parent'[h] = parent[h]
  BY <1>1, SubtreeClosed, ReparentParent
<1>5. CASE Idle
  BY <1>1, <1>2, <1>5, IdleKeeps
<1>6. CASE Calling("Callback")
  <2>1. PICK s : s = stack /\ stack' = s
    BY <1>1
  <2>2. /\ s # <<>> /\ s[1].op = "Callback" /\ BodyOK(s) /\ TopOK(s[1])'
    BY <1>6, <2>1, CallingFacts, Innermost DEF StackInv, StackOK, Idle, TopOK
  <2>3. ASSUME NEW i \in 1..Len(s)
        PROVE  /\ s[i].ctx \in live \ Subtree(c) /\ s[i] \in Calls
               /\ s[i].op \notin {"Delete", "Reset", "ResetChildren"}
               /\ current \notin Doomed(s[i])
    <3>1. /\ s[i].ctx \in live /\ s[i] \in Calls
          /\ s[i].op \notin {"Delete", "Reset", "ResetChildren"}
      BY <1>6, <2>1, UnderCallback
    <3> QED
      BY <1>1, <2>2, <3>1 DEF BodyOK, FixedSpared, Fixed, Protected, Held
  <2>4. ASSUME NEW i \in 1..Len(s)
        PROVE  current \notin Doomed(s[i])'
    <3>1. CASE current \in Subtree(c) /\ s[i].op \in {"DeleteNext", "DeleteChildren"}
      <4>1. p \notin Subtree(s[i].ctx)
        BY <1>1, <2>3, <3>1 DEF MayCarryCurrent, Clearing
      <4>2. Subtree(s[i].ctx)' \subseteq Subtree(s[i].ctx)
        BY <1>3, <2>3, <4>1
      <4> QED
        BY <2>3, <4>2 DEF Doomed, Below
    <3>2. CASE current \notin Subtree(c) \/ s[i].op \notin {"DeleteNext", "DeleteChildren"}
      BY <1>2, <1>3, <2>3, <3>2 DEF Doomed, Below
    <3> QED
      BY <3>1, <3>2
  <2>5. ASSUME NEW i \in 1..Len(s), NeedsChildless(s[i]), firstchild[s[i].ctx] = NULL
        PROVE  firstchild'[s[i].ctx] = NULL
    <3>1. s[i].ctx # p
      BY <1>1, <2>3, <2>5 DEF MayAdopt, NeedsChildless
    <3> QED
      BY <1>1, <2>3, <2>5, <3>1, ReparentKeepsLeaves
  <2> DEFINE H == live \ Subtree(c)
  <2>6. H \in SUBSET (live \cap live') /\ {Top, Error} \subseteq H
    BY <1>1, <1>2 DEF Protected
  <2>7. /\ \A i \in 1..Len(s), h \in H : h \in Subtree(s[i].ctx)' => h \in Subtree(s[i].ctx)
        /\ \A d, h \in H : h \in Subtree(d) => h \in Subtree(d)'
        /\ \A h \in H : parent'[h] = parent[h]
        /\ \A i \in 1..Len(s) : s[i].ctx \in H
        /\ {current', Error} \subseteq live'
    BY <1>1, <1>2, <1>3, <1>4, <2>3
  <2>8. \A i \in 1..Len(s) : current' \notin Doomed(s[i])'
    BY <1>1, <2>4
  <2> HIDE DEF H
  <2> QED
    BY <2>1, <2>2, <2>5, <2>6, <2>7, <2>8, CallsKept
<1> QED
  BY <1>1, <1>5, <1>6

(* MemoryContextSwitchTo. *)
LEMMA SwitchKeepsStack ==
  ASSUME TreeInv, StackInv, NEW c \in live, SwitchTo(c)
  PROVE  StackInv'
<1>1. /\ MaySwitch(c) /\ current' = c /\ stack' = stack /\ UNCHANGED treeVars
      /\ Idle \/ Calling("Callback")
  BY DEF SwitchTo, ClientRuns
<1>2. {c, Error} \subseteq live /\ Top \in live /\ live' = live
  BY <1>1 DEF StackInv, StackOK, TreeInv, TreeTypeOK, treeVars
<1>3. CASE Idle
  BY <1>1, <1>2, <1>3, IdleKeeps
<1>4. CASE Calling("Callback")
  <2>1. PICK s : s = stack /\ stack' = s
    BY <1>1
  <2>2. /\ s # <<>> /\ s[1].op = "Callback" /\ BodyOK(s) /\ TopOK(s[1])'
    BY <1>4, <2>1, CallingFacts, Innermost DEF StackInv, StackOK, Idle, TopOK
  <2>3. \A d : Subtree(d)' = Subtree(d) /\ Below(d)' = Below(d)
    BY <1>1 DEF treeVars, Below, Subtree, ClosedBelow
  <2>4. ASSUME NEW i \in 1..Len(s)
        PROVE  /\ s[i].ctx \in live /\ c \notin Doomed(s[i])'
    <3>1. /\ s[i].ctx \in live /\ s[i] \in Calls
          /\ s[i].op \notin {"Delete", "Reset", "ResetChildren"}
      BY <1>4, <2>1, UnderCallback
    <3> QED
      BY <1>1, <2>3, <3>1 DEF MaySwitch, Clearing, Doomed, Below
  <2>5. /\ \A i \in 1..Len(s), h \in live : h \in Subtree(s[i].ctx)' => h \in Subtree(s[i].ctx)
        /\ \A d, h \in live : h \in Subtree(d) => h \in Subtree(d)'
        /\ parent' = parent /\ firstchild' = firstchild
        /\ {current', Error} \subseteq live'
    BY <1>1, <1>2, <2>3 DEF treeVars
  <2> DEFINE H == live
  <2>6. H \in SUBSET (live \cap live') /\ {Top, Error} \subseteq H
    BY <1>2
  <2>7. \A i \in 1..Len(s) : current' \notin Doomed(s[i])'
    BY <1>1, <2>4
  <2> HIDE DEF H
  <2> QED
    BY <2>1, <2>2, <2>4, <2>5, <2>6, <2>7, CallsKept DEF H
<1> QED
  BY <1>1, <1>3, <1>4

(* What remains of the client's operations touches neither the tree nor    *)
(* the calls.                                                              *)
LEMMA QuietClientOpKeepsStack ==
  ASSUME TreeInv, StackInv, "dying" \in Discipline,
         QuietClientOp \/ \E c \in live \cap Subject : Alloc(c)
  PROVE  StackInv'
<1>1. ASSUME NEW c \in live,
             \/ Alloc(c)
             \/ \E cb \in Callback : RegisterResetCallback(c, cb) \/ UnregisterResetCallback(c, cb)
      PROVE  StackInv'
  <2>1. SameTree /\ stack' = stack
    BY <1>1 DEF Alloc, RegisterResetCallback, UnregisterResetCallback, SameTree
  <2> QED
    BY <2>1, SameTreeKeeps DEF StackInv
<1>2. \A p \in Parents : p \in live \cup {NULL}
  BY DEF Parents
<1> QED
  BY <1>1, <1>2, MoveKeepsStack, SwitchKeepsStack, StartsKeepStack DEF QuietClientOp

(***************************************************************************)
(* The end of MemoryContextDeleteOnly.                                     *)
(***************************************************************************)
(* What the deletion of x relies on: x is a leaf, and none of the contexts *)
(* that must stay.                                                         *)
LEMMA DyingContext ==
  ASSUME TreeInv, StackInv, Calling("DeleteOnly")
  PROVE  LET x == Head(stack).ctx IN
         /\ x \in live /\ firstchild[x] = NULL /\ x \notin Fixed
         /\ Tail(stack) # <<>>
         /\ Tail(stack)[1].op = "DeleteNext" /\ Tail(stack)[1].curr = x
         /\ Tail(stack)[1].ctx \in live /\ x \in Subtree(Tail(stack)[1].ctx)
         /\ x # Tail(stack)[1].ctx => Tail(stack)[1].up = parent[x]
<1> DEFINE x == Head(stack).ctx
           n == Tail(stack)[1]
<1>1. ~Idle /\ Head(stack).op = "DeleteOnly" /\ x \in live
  BY CallingFacts
<1>2. firstchild[x] = NULL
  BY <1>1, Innermost DEF FrameOK, NeedsChildless
<1>3. Tail(stack) # <<>> /\ WaitsFor(n, Head(stack)) /\ BodyOK(Tail(stack))
  BY <1>1, Innermost
<1>4. /\ n.op = "DeleteNext" /\ n.curr = x /\ n.ctx \in live /\ x \in Subtree(n.ctx)
      /\ x # n.ctx => n.up = parent[x]
  BY <1>1, <1>3 DEF WaitsFor
<1>5. 1 \in 1..Len(Tail(stack))
  BY <1>1, <1>3, Innermost, EmptyStack
<1>6. Fixed \cap Subtree(n.ctx) = {}
  BY <1>3, <1>4, <1>5 DEF BodyOK, FixedSpared, Doomed
<1> QED
  BY <1>1, <1>2, <1>3, <1>4, <1>6

(* MemoryContextDeleteOnly delinks the context and returns. *)
LEMMA FinishDeleteKeepsStack ==
  ASSUME TreeInv, StackInv, Calling("DeleteOnly"),
         DeleteLeaf(Head(stack).ctx), stack' = Tail(stack), current' = current
  PROVE  StackInv'
<1>1. PICK x, s : x = Head(stack).ctx /\ s = Tail(stack) /\ stack' = s
  OBVIOUS
<1> DEFINE d == s[1].ctx
<1>2. /\ x \in live /\ x \notin Fixed /\ s # <<>> /\ s[1].op = "DeleteNext" /\ s[1].curr = x
      /\ d \in live /\ x \in Subtree(d)
      /\ x # d => s[1].up = parent[x]
  BY <1>1, DyingContext
<1>3. BodyOK(s) /\ s \in Seq(FrameType) /\ Len(s) \in Nat \ {0}
  BY <1>1, <1>2, CallingFacts, Innermost, EmptyStack
<1>4. /\ live' = live \ {x}
      /\ \A h \in live \ {x} : parent'[h] = parent[h]
  BY <1>1 DEF DeleteLeaf, RemoveNode, TreeInv, TreeTypeOK
<1>5. /\ \A e, h \in live \ {x} : h \in Subtree(e)' <=> h \in Subtree(e)
      /\ \A h \in live \ {x} : h \notin Subtree(x)'
  BY <1>1, <1>2, RemoveKeepsSubtrees
<1> DEFINE H == live \ {x}
<1>6. H \in SUBSET (live \cap live') /\ {Top, Error, current} \subseteq H
  BY <1>2, <1>4 DEF Fixed, StackInv, StackOK, TreeInv, TreeTypeOK
<1>7. TopOK(s[1])'
  <2> SUFFICES ASSUME x # d
               PROVE  d \in live' /\ s[1].up \in Subtree(d)'
    BY <1>2 DEF TopOK
  <2>1. parent[x] \in Subtree(d) /\ parent[x] \in live /\ parent[x] # x
    BY <1>2, ParentInside, SubtreeLive, NoSelfLink DEF Below
  <2> QED
    BY <1>2, <1>4, <1>5, <2>1
<1>8. ASSUME NEW i \in 1..Len(s), i > 1
      PROVE  s[i].ctx \in H
  <2>1. 1 \in 1..Len(s) /\ i - 1 \in 1..(Len(s) - 1) /\ (i - 1) + 1 = i
    BY <1>3, <1>8
  <2>2. s[i].ctx \notin Subtree(d)
    BY <1>2, <1>3, <1>8, <2>1 DEF BodyOK, OuterSpared, Doomed
  <2>3. WaitsFor(s[i], s[i - 1]) /\ FrameOK(s[i])
    BY <1>3, <2>1 DEF BodyOK
  <2>4. s[i].ctx \in live
    BY <2>3 DEF WaitsFor, FrameOK
  <2> QED
    BY <1>2, <2>2, <2>4
<1>9. ASSUME NEW i \in 1..Len(s), NEW h \in H, h \in Subtree(s[i].ctx)'
      PROVE  h \in Subtree(s[i].ctx)
  <2>1. CASE s[i].ctx \in H
    BY <1>5, <1>9, <2>1
  <2>2. CASE s[i].ctx \notin H
    <3>1. i = 1 /\ s[i].ctx = x
      BY <1>2, <1>3, <1>8, <1>9, <2>2
    <3> QED
      BY <1>5, <1>9, <3>1
  <2> QED
    BY <2>1, <2>2
<1>10. \A i \in 1..Len(s) :
         s[i].ctx \in H /\ firstchild[s[i].ctx] = NULL => firstchild'[s[i].ctx] = NULL
  BY <1>1, <1>2, RemoveKeepsLeaves
<1>11. ASSUME NEW i \in 1..Len(s)
       PROVE  current' \notin Doomed(s[i])'
  <2>1. current \notin Doomed(s[i])
    BY <1>3 DEF BodyOK, FixedSpared, Fixed
  <2>2. current \notin Subtree(s[i].ctx) => current \notin Subtree(s[i].ctx)'
    BY <1>6, <1>9
  <2> QED
    BY <2>1, <2>2 DEF Doomed, Below
<1>12. {current', Error} \subseteq live' /\ \A e, h \in H : h \in Subtree(e) => h \in Subtree(e)'
  BY <1>5, <1>6
<1>13. {Top, Error} \subseteq H /\ \A h \in H : parent'[h] = parent[h]
  BY <1>4, <1>6
<1> HIDE DEF H, d
<1> QED
  BY <1>1, <1>2, <1>3, <1>6, <1>7, <1>8, <1>9, <1>10, <1>11, <1>12, <1>13, CallsKept

--------------------------------------------------------------------------------
FreelistTypes ==
  /\ first_free \in [{0, 1} -> Pointer]
  /\ num_free \in [{0, 1} -> 0..MaxFreeContexts]
  /\ freeListIndex \in [Context -> {-1, 0, 1}]
  /\ malloced \subseteq Context

(* What makes Chained(i) a list: it ends, nothing leads back to its head,  *)
(* and no two of its headers have the same successor.                      *)
ChainOK(i) ==
  /\ IsFiniteSet(Chained(i))
  /\ \A y \in Chained(i) : nextchild[y] = first_free[i] => nextchild[y] = NULL
  /\ \A y, z \in Chained(i) : nextchild[y] = nextchild[z] => y = z \/ nextchild[y] = NULL

FreelistInv ==
  /\ FreelistTypes
  /\ FreelistsOK
  /\ \A i \in {0, 1} : ChainOK(i)

--------------------------------------------------------------------------------
(* The list holds its head and the successor of each member, and is the    *)
(* least set that does.                                                    *)
LEMMA ChainClosed ==
  ASSUME TreeTypeOK, FreelistTypes, NEW i \in {0, 1}
  PROVE  /\ Chained(i) \subseteq Context
         /\ first_free[i] \in Chained(i) \cup {NULL}
         /\ \A y \in Chained(i) : nextchild[y] \in Chained(i) \cup {NULL}
  BY DEF Chained, TreeTypeOK, FreelistTypes, Pointer

(* What holds the head and each successor holds the list. *)
LEMMA ChainLeast ==
  ASSUME NEW i \in {0, 1}, NEW S \in SUBSET Context,
         first_free[i] \in S \cup {NULL},
         \A y \in S : nextchild[y] \in S \cup {NULL}
  PROVE  Chained(i) \subseteq S
  BY DEF Chained

(* The same of the list after a step.                                      *)
LEMMA ChainLeastAfter ==
  ASSUME NEW i \in {0, 1}, NEW S \in SUBSET Context,
         first_free'[i] \in S \cup {NULL},
         \A y \in S : nextchild'[y] \in S \cup {NULL}
  PROVE  Chained(i)' \subseteq S
  BY DEF Chained

(* After a step the list holds whatever every such set holds. *)
LEMMA ChainAfter ==
  ASSUME NEW i \in {0, 1}, NEW T \in SUBSET Context,
         \A S \in SUBSET Context :
           first_free'[i] \in S \cup {NULL} /\ (\A y \in S : nextchild'[y] \in S \cup {NULL})
             => T \subseteq S
  PROVE  T \subseteq Chained(i)'
  BY DEF Chained

(* A list whose headers are not touched stays as it is.                    *)
LEMMA ChainKept ==
  ASSUME TreeTypeOK, FreelistTypes, NEW i \in {0, 1},
         first_free'[i] = first_free[i],
         \A x \in Chained(i) : nextchild'[x] = nextchild[x]
  PROVE  /\ Chained(i)' = Chained(i)
         /\ ChainOK(i) => ChainOK(i)'
<1> DEFINE C == Chained(i)
<1>1. /\ C \in SUBSET Context /\ first_free[i] \in C \cup {NULL}
      /\ \A y \in C : nextchild[y] \in C \cup {NULL}
  BY ChainClosed
<1>2. \A S \in SUBSET Context :
        first_free[i] \in S \cup {NULL} /\ (\A y \in S : nextchild[y] \in S \cup {NULL})
          => C \subseteq S
  BY ChainLeast
<1> HIDE DEF C
<1>3. Chained(i)' \subseteq C
  BY <1>1, ChainLeastAfter DEF C
<1>4. ASSUME NEW S \in SUBSET Context, first_free'[i] \in S \cup {NULL},
             \A y \in S : nextchild'[y] \in S \cup {NULL}
      PROVE  C \subseteq S
  <2>1. C \cap S \in SUBSET Context /\ first_free[i] \in (C \cap S) \cup {NULL}
    BY <1>1, <1>4
  <2>2. \A y \in C \cap S : nextchild[y] \in (C \cap S) \cup {NULL}
    BY <1>1, <1>4 DEF C
  <2> QED
    BY <1>2, <2>1, <2>2
<1>5. C \subseteq Chained(i)'
  BY <1>1, <1>4, ChainAfter
<1>6. Chained(i)' = Chained(i)
  BY <1>3, <1>5 DEF C
<1>7. ChainOK(i) => ChainOK(i)'
  BY <1>6 DEF ChainOK
<1> QED
  BY <1>6, <1>7

(* Taking the first header off.                                            *)
LEMMA ChainPopped ==
  ASSUME TreeTypeOK, FreelistTypes, NEW i \in {0, 1}, ChainOK(i),
         NEW c \in Context, c = first_free[i], c # NULL,
         first_free'[i] = nextchild[c],
         \A x \in Chained(i) : x # c => nextchild'[x] = nextchild[x]
  PROVE  /\ c \in Chained(i)
         /\ Chained(i)' = Chained(i) \ {c}
         /\ ChainOK(i)'
<1> DEFINE C == Chained(i)
<1>1. /\ C \in SUBSET Context /\ c \in C
      /\ \A y \in C : nextchild[y] \in C \cup {NULL}
      /\ \A y \in C : nextchild[y] # c
  BY ChainClosed DEF ChainOK
<1>2. \A S \in SUBSET Context :
        c \in S /\ (\A y \in S : nextchild[y] \in S \cup {NULL}) => C \subseteq S
  BY ChainLeast
<1> HIDE DEF C
<1>3. Chained(i)' \subseteq C \ {c}
  <2>1. C \ {c} \in SUBSET Context /\ first_free'[i] \in (C \ {c}) \cup {NULL}
    BY <1>1
  <2>2. \A y \in C \ {c} : nextchild'[y] \in (C \ {c}) \cup {NULL}
    BY <1>1 DEF C
  <2> QED
    BY <2>1, <2>2, ChainLeastAfter
<1>4. ASSUME NEW S \in SUBSET Context, first_free'[i] \in S \cup {NULL},
             \A y \in S : nextchild'[y] \in S \cup {NULL}
      PROVE  C \ {c} \subseteq S
  <2> DEFINE T == (C \cap S) \cup {c}
  <2>1. T \in SUBSET Context /\ c \in T
    BY <1>1
  <2>2. \A y \in T : nextchild[y] \in T \cup {NULL}
    BY <1>1, <1>4 DEF C
  <2> HIDE DEF T
  <2>3. C \subseteq T
    BY <1>2, <2>1, <2>2
  <2> QED
    BY <2>3 DEF T
<1>5. C \ {c} \subseteq Chained(i)'
  <2> DEFINE D == C \ {c}
  <2>1. D \in SUBSET Context
    BY <1>1
  <2>2. \A S \in SUBSET Context :
          first_free'[i] \in S \cup {NULL} /\ (\A y \in S : nextchild'[y] \in S \cup {NULL})
            => D \subseteq S
    BY <1>4
  <2> HIDE DEF D
  <2>3. D \subseteq Chained(i)'
    BY <2>1, <2>2, ChainAfter
  <2> QED
    BY <2>3 DEF D
<1>6. Chained(i)' = C \ {c}
  BY <1>3, <1>5
<1>7. ChainOK(i)'
  <2>1. IsFiniteSet(C \ {c})
    BY FS_RemoveElement DEF ChainOK, C
  <2>2. \A y \in C \ {c} : nextchild'[y] = nextchild[y]
    BY DEF C
  <2> QED
    <3>1. /\ \A y \in C \ {c} : nextchild'[y] = first_free'[i] => nextchild'[y] = NULL
          /\ \A y, z \in C \ {c} :
               nextchild'[y] = nextchild'[z] => y = z \/ nextchild'[y] = NULL
      BY <1>1, <2>2 DEF ChainOK, C
    <3> QED
      BY <1>6, <2>1, <3>1 DEF ChainOK
<1> QED
  BY <1>1, <1>6, <1>7 DEF C

(* Putting a header in front.                                              *)
LEMMA ChainPushed ==
  ASSUME TreeTypeOK, FreelistTypes, NEW i \in {0, 1}, ChainOK(i),
         NEW c \in Context, c \notin Chained(i),
         first_free'[i] = c, nextchild'[c] = first_free[i],
         \A x \in Chained(i) : nextchild'[x] = nextchild[x]
  PROVE  /\ Chained(i)' = Chained(i) \cup {c}
         /\ ChainOK(i)'
<1> DEFINE C == Chained(i)
<1>1. /\ C \in SUBSET Context /\ first_free[i] \in C \cup {NULL}
      /\ \A y \in C : nextchild[y] \in C \cup {NULL}
      /\ c \notin C
  BY ChainClosed
<1>2. \A S \in SUBSET Context :
        first_free[i] \in S \cup {NULL} /\ (\A y \in S : nextchild[y] \in S \cup {NULL})
          => C \subseteq S
  BY ChainLeast
<1> HIDE DEF C
<1>3. Chained(i)' \subseteq C \cup {c}
  <2>1. C \cup {c} \in SUBSET Context /\ first_free'[i] \in (C \cup {c}) \cup {NULL}
    BY <1>1
  <2>2. \A y \in C \cup {c} : nextchild'[y] \in (C \cup {c}) \cup {NULL}
    BY <1>1 DEF C
  <2> QED
    BY <2>1, <2>2, ChainLeastAfter
<1>4. ASSUME NEW S \in SUBSET Context, first_free'[i] \in S \cup {NULL},
             \A y \in S : nextchild'[y] \in S \cup {NULL}
      PROVE  C \cup {c} \subseteq S
  <2>1. c \in S /\ first_free[i] \in S \cup {NULL}
    BY <1>4, ContextAssumption
  <2>2. C \cap S \in SUBSET Context /\ first_free[i] \in (C \cap S) \cup {NULL}
    BY <1>1, <2>1
  <2>3. \A y \in C \cap S : nextchild[y] \in (C \cap S) \cup {NULL}
    BY <1>1, <1>4 DEF C
  <2>4. C \subseteq C \cap S
    BY <1>2, <2>2, <2>3
  <2> QED
    BY <2>1, <2>4
<1>5. C \cup {c} \subseteq Chained(i)'
  <2>1. C \cup {c} \in SUBSET Context
    BY <1>1
  <2>2. \A S \in SUBSET Context :
          first_free'[i] \in S \cup {NULL} /\ (\A y \in S : nextchild'[y] \in S \cup {NULL})
            => C \cup {c} \subseteq S
    BY <1>4
  <2> QED
    BY <2>1, <2>2, ChainAfter
<1>6. Chained(i)' = C \cup {c}
  BY <1>3, <1>5
<1>7. ChainOK(i)'
  <2>1. IsFiniteSet(C \cup {c})
    BY FS_AddElement DEF ChainOK, C
  <2>2. \A y \in C : nextchild'[y] = nextchild[y]
    BY DEF C
  <2>3. \A y \in C \cup {c} : nextchild'[y] # c
    BY <1>1, <2>2, ContextAssumption
  <2>4. ASSUME NEW y \in C \cup {c}, NEW z \in C \cup {c}, nextchild'[y] = nextchild'[z]
        PROVE  y = z \/ nextchild'[y] = NULL
    BY <2>2, <2>4 DEF ChainOK, C
  <2> QED
    BY <1>6, <2>1, <2>3, <2>4 DEF ChainOK
<1> QED
  BY <1>6, <1>7 DEF C

(* Starting the list again with one header.                                *)
LEMMA ChainRestarted ==
  ASSUME NEW i \in {0, 1}, NEW c \in Context, first_free'[i] = c, nextchild'[c] = NULL
  PROVE  /\ Chained(i)' = {c}
         /\ ChainOK(i)'
<1>1. /\ {c} \in SUBSET Context /\ first_free'[i] \in {c} \cup {NULL} /\ c # NULL
      /\ \A y \in {c} : nextchild'[y] \in {c} \cup {NULL}
  BY ContextAssumption
<1>2. Chained(i)' \subseteq {c}
  BY <1>1, ChainLeastAfter
<1>3. {c} \subseteq Chained(i)'
  <2>1. {c} \in SUBSET Context
    BY <1>1
  <2>2. \A S \in SUBSET Context :
          first_free'[i] \in S \cup {NULL} /\ (\A y \in S : nextchild'[y] \in S \cup {NULL})
            => {c} \subseteq S
    BY <1>1
  <2> QED
    BY <2>1, <2>2, ChainAfter
<1>4. Chained(i)' = {c}
  BY <1>2, <1>3
<1>5. IsFiniteSet({c})
  BY FS_Singleton
<1> QED
  BY <1>1, <1>4, <1>5 DEF ChainOK

--------------------------------------------------------------------------------
(* What FreelistInv says of one header.                                    *)
LEMMA ListedHeader ==
  ASSUME TreeInv, FreelistInv, NEW i \in {0, 1}, NEW x \in Chained(i)
  PROVE  /\ x \in Context \ live /\ x \in malloced
         /\ freeListIndex[x] = i /\ isReset[x]
<1>1. x \in Chained(0) \cup Chained(1)
  OBVIOUS
<1>2. x \in Context
  BY ChainClosed DEF TreeInv, FreelistInv
<1> QED
  BY <1>1, <1>2 DEF FreelistInv, FreelistsOK

(* Steps that obtain no header and give none back.                         *)
LEMMA FreelistsUntouched ==
  ASSUME TreeInv, FreelistInv, UNCHANGED freelistVars, live' = live,
         \A x \in Context \ live : nextchild'[x] = nextchild[x] /\ isReset'[x] = isReset[x]
  PROVE  FreelistInv'
<1>1. FreelistTypes'
  BY DEF FreelistInv, FreelistTypes, freelistVars
<1>2. \A i \in {0, 1} : Chained(i)' = Chained(i) /\ ChainOK(i)'
  BY ListedHeader, ChainKept DEF TreeInv, FreelistInv, freelistVars
<1>3. ASSUME NEW i \in {0, 1}
      PROVE  num_free'[i] = Cardinality(Chained(i)')
  BY <1>2 DEF FreelistInv, FreelistsOK, freelistVars
<1>4. ASSUME NEW i \in {0, 1}, NEW x \in Chained(i)'
      PROVE  freeListIndex'[x] = i /\ isReset'[x]
  BY <1>2, ListedHeader DEF freelistVars
<1>5. /\ malloced' = live' \cup Chained(0)' \cup Chained(1)'
      /\ live' \cap (Chained(0)' \cup Chained(1)') = {}
  BY <1>2 DEF FreelistInv, FreelistsOK, freelistVars
<1> QED
  BY <1>1, <1>2, <1>3, <1>4, <1>5 DEF FreelistInv, FreelistsOK

(* AllocSetContextCreateInternal with a header from the freelist.          *)
LEMMA RecycleKeepsFreelists ==
  ASSUME TreeInv, FreelistInv, isReset \in [Context -> BOOLEAN],
         NEW p \in live \cup {NULL}, NEW class \in Class, Recycle(p, class)
  PROVE  /\ FreelistInv'
         /\ first_free[class] \in Context \ live
         /\ Create(first_free[class], p)
         /\ first_free[class] \in malloced /\ isReset[first_free[class]]
<1> DEFINE c == first_free[class]
<1>1. class \in {0, 1} /\ c # NULL /\ c \in Context
  BY LifecycleAssumption DEF Recycle, Class, FreelistInv, FreelistTypes, Pointer
<1>2. c \in Chained(class)
  BY <1>1, ChainClosed DEF TreeInv, FreelistInv
<1>3. c \in Context \ live /\ c \in malloced /\ isReset[c]
  BY <1>1, <1>2, ListedHeader
<1>4. Create(c, p)
  BY <1>3 DEF Recycle, Create
<1>5. /\ first_free' = [first_free EXCEPT ![class] = nextchild[c]]
      /\ num_free' = [num_free EXCEPT ![class] = @ - 1]
      /\ isReset' = [isReset EXCEPT ![c] = TRUE]
      /\ live' = live \cup {c}
      /\ freeListIndex' = freeListIndex /\ malloced' = malloced
  BY DEF Recycle, TakeFirstFree, CreateNode
<1> HIDE DEF c
<1>6. \A x \in Context \ live : x # c => nextchild'[x] = nextchild[x]
  BY <1>3, <1>4, CreateKeepsChains
<1>7. /\ Chained(class)' = Chained(class) \ {c}
      /\ ChainOK(class)'
  <2>1. first_free'[class] = nextchild[c]
    BY <1>1, <1>5 DEF FreelistInv, FreelistTypes
  <2>2. \A x \in Chained(class) : x # c => nextchild'[x] = nextchild[x]
    BY <1>1, <1>6, ListedHeader
  <2> QED
    BY <1>1, <2>1, <2>2, ChainPopped DEF TreeInv, FreelistInv, c
<1>8. ASSUME NEW i \in {0, 1}, i # class
      PROVE  Chained(i)' = Chained(i) /\ ChainOK(i)' /\ c \notin Chained(i)
  <2>1. first_free'[i] = first_free[i]
    BY <1>5, <1>8 DEF FreelistInv, FreelistTypes
  <2>2. c \notin Chained(i)
    BY <1>1, <1>2, <1>8, ListedHeader
  <2>3. \A x \in Chained(i) : nextchild'[x] = nextchild[x]
    BY <1>6, <2>2, ListedHeader
  <2> QED
    BY <2>1, <2>2, <2>3, ChainKept DEF TreeInv, FreelistInv
<1>9. num_free'[class] = Cardinality(Chained(class)') /\ num_free'[class] \in 0..MaxFreeContexts
  <2>1. IsFiniteSet(Chained(class)) /\ num_free[class] = Cardinality(Chained(class))
        /\ num_free[class] \in 0..MaxFreeContexts /\ MaxFreeContexts \in Nat
    BY <1>1, LifecycleAssumption
    DEF FreelistInv, ChainOK, FreelistsOK, FreelistTypes
  <2>2. Cardinality(Chained(class)') = Cardinality(Chained(class)) - 1
    BY <1>2, <1>7, <2>1, FS_RemoveElement
  <2>3. IsFiniteSet(Chained(class)') /\ Cardinality(Chained(class)') \in Nat
    BY <1>7, FS_CardinalityType DEF ChainOK
  <2>4. num_free'[class] = num_free[class] - 1
    BY <1>1, <1>5 DEF FreelistInv, FreelistTypes
  <2> QED
    BY <2>1, <2>2, <2>3, <2>4
<1>10. FreelistTypes'
  <2>1. nextchild[c] \in Pointer
    BY <1>3 DEF TreeInv, TreeTypeOK
  <2>2. first_free' \in [{0, 1} -> Pointer]
    BY <1>1, <1>5, <2>1 DEF FreelistInv, FreelistTypes
  <2>3. num_free' \in [{0, 1} -> 0..MaxFreeContexts]
    <3>1. num_free' \in [{0, 1} -> Int] /\ \A i \in {0, 1} : num_free'[i] \in 0..MaxFreeContexts
      BY <1>1, <1>5, <1>9 DEF FreelistInv, FreelistTypes
    <3> QED
      BY <3>1
  <2> QED
    BY <1>5, <2>2, <2>3 DEF FreelistInv, FreelistTypes
<1>11. \A i \in {0, 1} : num_free'[i] = Cardinality(Chained(i)')
  BY <1>5, <1>8, <1>9 DEF FreelistInv, FreelistTypes, FreelistsOK
<1>12. ASSUME NEW i \in {0, 1}, NEW x \in Chained(i)'
       PROVE  freeListIndex'[x] = i /\ isReset'[x]
  <2>1. x \in Chained(i) /\ x # c
    BY <1>7, <1>8, <1>12
  <2> QED
    BY <1>5, <2>1, ListedHeader
<1>13. /\ malloced' = live' \cup Chained(0)' \cup Chained(1)'
       /\ live' \cap (Chained(0)' \cup Chained(1)') = {}
  <2>1. /\ malloced = live \cup Chained(0) \cup Chained(1)
        /\ live \cap (Chained(0) \cup Chained(1)) = {}
    BY DEF FreelistInv, FreelistsOK
  <2>2. \A i \in {0, 1} : Chained(i)' = Chained(i) \ {c}
    BY <1>7, <1>8
  <2> QED
    BY <1>3, <1>5, <2>1, <2>2
<1>14. \A i \in {0, 1} : ChainOK(i)'
  BY <1>7, <1>8
<1> QED
  BY <1>3, <1>4, <1>10, <1>11, <1>12, <1>13, <1>14 DEF FreelistInv, FreelistsOK, c

(* AllocSetContextCreateInternal with a header from malloc.                *)
LEMMA CreateFreshKeepsFreelists ==
  ASSUME TreeInv, FreelistInv, isReset \in [Context -> BOOLEAN],
         NEW p \in live \cup {NULL}, NEW class \in Class, NEW c \in Context \ malloced,
         CreateNode(c, p),
         malloced' = malloced \cup {c},
         freeListIndex' = [freeListIndex EXCEPT ![c] = class],
         isReset' = [isReset EXCEPT ![c] = TRUE],
         UNCHANGED <<first_free, num_free>>
  PROVE  /\ FreelistInv'
         /\ Create(c, p)
<1>1. c \notin live /\ c \in Context
  BY DEF FreelistInv, FreelistsOK
<1>2. Create(c, p)
  BY <1>1 DEF Create
<1>3. \A i \in {0, 1} : c \notin Chained(i)
  BY ListedHeader
<1>4. ASSUME NEW i \in {0, 1}
      PROVE  Chained(i)' = Chained(i) /\ ChainOK(i)'
  <2>1. \A x \in Chained(i) : nextchild'[x] = nextchild[x]
    BY <1>1, <1>2, <1>3, ListedHeader, CreateKeepsChains
  <2> QED
    BY <2>1, ChainKept DEF TreeInv, FreelistInv
<1>5. FreelistTypes'
  BY LifecycleAssumption DEF FreelistInv, FreelistTypes, Class
<1>6. \A i \in {0, 1} : num_free'[i] = Cardinality(Chained(i)')
  BY <1>4 DEF FreelistInv, FreelistsOK
<1>7. ASSUME NEW i \in {0, 1}, NEW x \in Chained(i)'
      PROVE  freeListIndex'[x] = i /\ isReset'[x]
  <2>1. x \in Chained(i) /\ x # c
    BY <1>3, <1>4, <1>7
  <2> QED
    BY <2>1, ListedHeader DEF FreelistInv, FreelistTypes
<1>8. /\ malloced' = live' \cup Chained(0)' \cup Chained(1)'
      /\ live' \cap (Chained(0)' \cup Chained(1)') = {}
  BY <1>2, <1>3, <1>4 DEF FreelistInv, FreelistsOK, Create, CreateNode
<1> QED
  BY <1>2, <1>4, <1>5, <1>6, <1>7, <1>8 DEF FreelistInv, FreelistsOK

(* AllocSetDelete, for each of its three ways to dispose of the header.    *)
LEMMA AllocSetDeleteRemoves ==
  ASSUME TreeInv, FreelistInv, NEW c \in live, AllocSetDelete(c)
  PROVE  \E chain \in Pointer : RemoveNode(c, chain)
<1>1. freeListIndex[c] >= 0 => freeListIndex[c] \in {0, 1}
  BY DEF TreeInv, TreeTypeOK, FreelistInv, FreelistTypes
<1>2. NULL \in Pointer /\ \A i \in {0, 1} : first_free[i] \in Pointer
  BY DEF FreelistInv, FreelistTypes, Pointer
<1>3. CASE freeListIndex[c] >= 0
  <2> DEFINE i == freeListIndex[c]
             chain == IF num_free[i] >= MaxFreeContexts THEN NULL ELSE first_free[i]
  <2>1. RemoveNode(c, chain)
    BY <1>3 DEF AllocSetDelete, AddToFreelist
  <2>2. chain \in Pointer
    BY <1>1, <1>2, <1>3
  <2> QED
    BY <2>1, <2>2
<1>4. CASE ~(freeListIndex[c] >= 0)
  BY <1>2, <1>4 DEF AllocSetDelete, FreeContext
<1> QED
  BY <1>3, <1>4

(* What a deletion does to the list of class i when the header joins it.   *)
LEMMA AddedToFreelist ==
  ASSUME TreeInv, FreelistInv, NEW c \in live, NEW i \in {0, 1}, AddToFreelist(c, i)
  PROVE  /\ ChainOK(i)'
         /\ num_free'[i] = Cardinality(Chained(i)')
         /\ num_free'[i] \in 0..MaxFreeContexts
         /\ malloced' = (malloced \ Chained(i)) \cup (Chained(i)' \ {c})
         /\ Chained(i)' \subseteq Chained(i) \cup {c} /\ c \in Chained(i)'
<1>1. c \in Context /\ c \notin Chained(i) /\ c \in malloced
  BY ListedHeader DEF TreeInv, TreeTypeOK, FreelistInv, FreelistsOK
<1>2. /\ first_free'[i] = c
      /\ MaxFreeContexts \in Nat \ {0} /\ num_free[i] \in 0..MaxFreeContexts
      /\ num_free[i] = Cardinality(Chained(i)) /\ IsFiniteSet(Chained(i))
  BY LifecycleAssumption
  DEF AddToFreelist, FreelistInv, FreelistTypes, FreelistsOK, ChainOK
<1>3. CASE num_free[i] >= MaxFreeContexts
  <2>1. /\ RemoveNode(c, NULL) /\ num_free'[i] = 1
        /\ malloced' = malloced \ Chained(i)
    BY <1>3 DEF AddToFreelist, FreelistInv, FreelistTypes
  <2>2. nextchild'[c] = NULL
    BY <2>1, RemoveKeepsChains DEF Pointer
  <2>3. Chained(i)' = {c} /\ ChainOK(i)'
    BY <1>1, <1>2, <2>2, ChainRestarted
  <2>4. Cardinality({c}) = 1
    BY FS_Singleton
  <2> QED
    BY <1>1, <1>2, <2>1, <2>3, <2>4
<1>4. CASE ~(num_free[i] >= MaxFreeContexts)
  <2>1. /\ RemoveNode(c, first_free[i]) /\ num_free'[i] = num_free[i] + 1
        /\ malloced' = malloced
    BY <1>4 DEF AddToFreelist, FreelistInv, FreelistTypes
  <2>2. first_free[i] \in Pointer
    BY DEF FreelistInv, FreelistTypes
  <2>3. /\ nextchild'[c] = first_free[i]
        /\ \A x \in Chained(i) : nextchild'[x] = nextchild[x]
    BY <2>1, <2>2, RemoveKeepsChains, ListedHeader
  <2>4. Chained(i)' = Chained(i) \cup {c} /\ ChainOK(i)'
    BY <1>1, <1>2, <2>3, ChainPushed DEF TreeInv, FreelistInv
  <2>5. Cardinality(Chained(i) \cup {c}) = num_free[i] + 1
    BY <1>1, <1>2, FS_AddElement
  <2>6. Chained(i) \subseteq malloced
    BY ListedHeader
  <2> QED
    BY <1>1, <1>2, <1>4, <2>1, <2>4, <2>5, <2>6
<1> QED
  BY <1>3, <1>4

(* AllocSetDelete: the header goes onto its freelist, the list is emptied  *)
(* first if it is full, or the header is freed.                            *)
LEMMA AllocSetDeleteKeepsFreelists ==
  ASSUME TreeInv, FreelistInv, isReset \in [Context -> BOOLEAN],
         NEW c \in live, AllocSetDelete(c)
  PROVE  FreelistInv'
<1>1. PICK chain \in Pointer : RemoveNode(c, chain)
  BY AllocSetDeleteRemoves
<1>2. live' = live \ {c} /\ \A x \in Context \ live : nextchild'[x] = nextchild[x]
  BY <1>1, RemoveKeepsChains
<1>3. /\ isReset' = [isReset EXCEPT ![c] = TRUE]
      /\ freeListIndex' = [x \in Context |-> IF x \in malloced' THEN freeListIndex[x] ELSE -1]
      /\ c \in Context
  BY DEF AllocSetDelete, TreeInv, TreeTypeOK
<1>4. /\ malloced = live \cup Chained(0) \cup Chained(1)
      /\ \A i \in {0, 1} : \A x \in Chained(i) : x \in Context \ live
      /\ Chained(0) \cap Chained(1) = {}
  <2>1. \A x \in Chained(0) \cap Chained(1) : freeListIndex[x] = 0 /\ freeListIndex[x] = 1
    BY ListedHeader
  <2> QED
    BY <2>1, ListedHeader DEF FreelistInv, FreelistsOK
<1>5. ASSUME NEW i \in {0, 1}, first_free'[i] = first_free[i]
      PROVE  Chained(i)' = Chained(i) /\ ChainOK(i)'
  BY <1>2, <1>4, <1>5, ChainKept DEF TreeInv, FreelistInv
<1>6. ASSUME NEW i \in {0, 1}, num_free'[i] = num_free[i], Chained(i)' = Chained(i)
      PROVE  num_free'[i] = Cardinality(Chained(i)') /\ num_free'[i] \in 0..MaxFreeContexts
  BY <1>6 DEF FreelistInv, FreelistsOK, FreelistTypes
<1>7. CASE freeListIndex[c] >= 0
  <2> DEFINE k == freeListIndex[c]
  <2>1. k \in {0, 1} /\ AddToFreelist(c, k)
    BY <1>7 DEF AllocSetDelete, TreeInv, TreeTypeOK, FreelistInv, FreelistTypes
  <2>2. PICK i \in {0, 1} : i = k
    BY <2>1
  <2>3. AddToFreelist(c, i) /\ freeListIndex[c] = i
    BY <2>1, <2>2
  <2>4. /\ ChainOK(i)'
        /\ num_free'[i] = Cardinality(Chained(i)')
        /\ num_free'[i] \in 0..MaxFreeContexts
        /\ malloced' = (malloced \ Chained(i)) \cup (Chained(i)' \ {c})
        /\ Chained(i)' \subseteq Chained(i) \cup {c} /\ c \in Chained(i)'
    BY <2>3, AddedToFreelist
  <2>5. PICK j \in {0, 1} : j # i
    OBVIOUS
  <2>6. /\ first_free'[j] = first_free[j] /\ num_free'[j] = num_free[j]
        /\ first_free' = [first_free EXCEPT ![i] = c]
        /\ num_free' \in [{0, 1} -> Int]
    BY <2>3, <2>5 DEF AddToFreelist, FreelistInv, FreelistTypes
  <2>7. Chained(j)' = Chained(j) /\ ChainOK(j)'
    BY <2>6, <1>5
  <2>8. num_free'[j] = Cardinality(Chained(j)') /\ num_free'[j] \in 0..MaxFreeContexts
    BY <2>6, <2>7, <1>6
  <2>9. \A n \in {0, 1} : n = i \/ n = j
    BY <2>5
  <2>10. FreelistTypes'
    <3>1. first_free' \in [{0, 1} -> Pointer]
      BY <1>3, <2>6 DEF FreelistInv, FreelistTypes, Pointer
    <3>2. num_free' \in [{0, 1} -> 0..MaxFreeContexts]
      BY <2>4, <2>6, <2>8, <2>9
    <3>3. malloced' \subseteq Context
      BY <1>3, <1>4, <2>4 DEF FreelistInv, FreelistTypes
    <3> QED
      BY <1>3, <3>1, <3>2, <3>3 DEF FreelistInv, FreelistTypes
  <2>11. /\ malloced' = live' \cup Chained(i)' \cup Chained(j)'
         /\ live' \cap (Chained(i)' \cup Chained(j)') = {}
         /\ \A x \in Chained(i)' \cup Chained(j)' : x \in malloced'
    <3>1. malloced = live \cup Chained(i) \cup Chained(j) /\ Chained(i) \cap Chained(j) = {}
      BY <1>4, <2>5
    <3>2. c \notin Chained(i) /\ c \notin Chained(j)
      BY <1>4
    <3>3. malloced' = (live \cup Chained(j)) \cup (Chained(i)' \ {c})
      BY <1>4, <2>4, <3>1
    <3> QED
      BY <1>2, <1>4, <2>4, <2>7, <3>1, <3>2, <3>3
  <2>12. \A x \in Chained(i)' : freeListIndex'[x] = i /\ isReset'[x]
    BY <1>3, <1>4, <2>3, <2>4, <2>11, ListedHeader
  <2>13. \A x \in Chained(j)' : freeListIndex'[x] = j /\ isReset'[x]
    BY <1>3, <1>4, <2>7, <2>11, ListedHeader
  <2>14. /\ malloced' = live' \cup Chained(0)' \cup Chained(1)'
         /\ live' \cap (Chained(0)' \cup Chained(1)') = {}
    BY <2>5, <2>11
  <2> QED
    BY <2>4, <2>7, <2>8, <2>9, <2>10, <2>12, <2>13, <2>14 DEF FreelistInv, FreelistsOK
<1>8. CASE ~(freeListIndex[c] >= 0)
  <2>1. malloced' = malloced \ {c} /\ first_free' = first_free /\ num_free' = num_free
    BY <1>8 DEF AllocSetDelete, FreeContext
  <2>2. \A i \in {0, 1} : Chained(i)' = Chained(i) /\ ChainOK(i)'
    BY <2>1, <1>5
  <2>3. \A i \in {0, 1} : num_free'[i] = Cardinality(Chained(i)')
    BY <2>1, <2>2, <1>6
  <2>4. FreelistTypes'
    BY <1>3, <2>1 DEF FreelistInv, FreelistTypes
  <2>5. \A i \in {0, 1} : \A x \in Chained(i)' : freeListIndex'[x] = i /\ isReset'[x]
    BY <1>3, <1>4, <2>1, <2>2, ListedHeader
  <2>6. /\ malloced' = live' \cup Chained(0)' \cup Chained(1)'
        /\ live' \cap (Chained(0)' \cup Chained(1)') = {}
    BY <1>2, <1>4, <2>1, <2>2
  <2> QED
    BY <2>2, <2>3, <2>4, <2>5, <2>6 DEF FreelistInv, FreelistsOK
<1> QED
  BY <1>7, <1>8

--------------------------------------------------------------------------------
(* The invariant: beside the property itself, each context has a list. *)
ListPerContext == reset_cbs = [c \in Context |-> reset_cbs[c]]

CallbackInv == ListPerContext /\ NoCallbackLost

(* Steps that neither touch a callback list nor let a context go. *)
LEMMA QuietKeepsCallbacks ==
  ASSUME CallbackInv, reset_cbs' = reset_cbs, live \subseteq live'
  PROVE  CallbackInv'
  BY DEF CallbackInv, ListPerContext, NoCallbackLost

(* A list may change when its context stays live, and be emptied at any    *)
(* time.                                                                   *)
LEMMA ListChangeKeepsCallbacks ==
  ASSUME CallbackInv, NEW c, NEW s,
         live \subseteq live',
         reset_cbs' = [reset_cbs EXCEPT ![c] = s],
         c \in Context => c \in live' \/ s = <<>>
  PROVE  CallbackInv'
<1>1. reset_cbs' = [x \in Context |-> IF x = c THEN s ELSE reset_cbs[x]]
  BY DEF CallbackInv, ListPerContext
<1>2. ListPerContext'
  BY <1>1 DEF ListPerContext
<1>3. ASSUME NEW x \in Context \ live'
      PROVE  reset_cbs'[x] = <<>>
  BY <1>1, <1>3 DEF CallbackInv, NoCallbackLost
<1>4. QED
  BY <1>2, <1>3 DEF CallbackInv, NoCallbackLost

(* A context whose list is empty may go. *)
LEMMA DeletionKeepsCallbacks ==
  ASSUME CallbackInv, NEW c, reset_cbs[c] = <<>>, reset_cbs' = reset_cbs, live' = live \ {c}
  PROVE  CallbackInv'
  BY DEF CallbackInv, ListPerContext, NoCallbackLost

--------------------------------------------------------------------------------
(* What the client, or a callback, does. *)
LEMMA ClientOpKeepsCallbacks ==
  ASSUME CallbackInv, ClientOp
  PROVE  CallbackInv'
<1>1. ASSUME NEW p \in Parents, NEW class \in Class, Recycle(p, class)
      PROVE  CallbackInv'
  <2>1. live' = live \cup {first_free[class]}
    BY <1>1 DEF Recycle, CreateNode
  <2>2. reset_cbs' = [reset_cbs EXCEPT ![first_free[class]] = <<>>]
    BY <1>1 DEF Recycle
  <2>3. QED
    BY <2>1, <2>2, ListChangeKeepsCallbacks
<1>2. ASSUME NEW p \in Parents, NEW class \in Class, CreateFresh(p, class)
      PROVE  CallbackInv'
  <2>1. PICK c \in Context \ malloced :
               /\ live' = live \cup {c}
               /\ reset_cbs' = [reset_cbs EXCEPT ![c] = <<>>]
    BY <1>2 DEF CreateFresh, CreateNode
  <2>2. QED
    BY <2>1, ListChangeKeepsCallbacks
<1>3. ASSUME NEW c \in live \cap Subject, Alloc(c)
      PROVE  CallbackInv'
  BY <1>3, QuietKeepsCallbacks DEF Alloc, treeVars
<1>4. ASSUME NEW c \in live \cap Subject, NEW cb \in Callback, RegisterResetCallback(c, cb)
      PROVE  CallbackInv'
  <2>1. live' = live /\ reset_cbs' = [reset_cbs EXCEPT ![c] = <<cb>> \o reset_cbs[c]]
    BY <1>4 DEF RegisterResetCallback, treeVars
  <2>2. QED
    BY <2>1, ListChangeKeepsCallbacks
<1>5. ASSUME NEW c \in live, NEW cb \in Callback, UnregisterResetCallback(c, cb)
      PROVE  CallbackInv'
  <2>1. PICK rest : live' = live /\ reset_cbs' = [reset_cbs EXCEPT ![c] = rest]
    BY <1>5 DEF UnregisterResetCallback, treeVars
  <2>2. QED
    BY <2>1, ListChangeKeepsCallbacks
<1>6. ASSUME NEW c \in live, NEW p \in Parents, MoveContext(c, p)
      PROVE  CallbackInv'
  BY <1>6, QuietKeepsCallbacks DEF MoveContext, contentVars
<1>7. ASSUME NEW c \in live \cap (Subject \cup {Top}), SwitchTo(c)
      PROVE  CallbackInv'
  BY <1>7, QuietKeepsCallbacks DEF SwitchTo, treeVars, contentVars
<1>8. ASSUME NEW c \in live,
             \/ StartReset(c) \/ StartResetOnly(c) \/ StartResetChildren(c)
             \/ StartDelete(c) \/ StartDeleteChildren(c)
      PROVE  CallbackInv'
  <2>1. OnlyTheCalls
    BY <1>8 DEF StartReset, StartResetOnly, StartResetChildren, StartDelete,
                StartDeleteChildren
  <2>2. QED
    BY <2>1, QuietKeepsCallbacks DEF OnlyTheCalls, treeVars, contentVars
<1>9. QED
  BY <1>1, <1>2, <1>3, <1>4, <1>5, <1>6, <1>7, <1>8 DEF ClientOp, QuietClientOp

(* What the library does on its own. *)
LEMMA LibraryStepKeepsCallbacks ==
  ASSUME CallbackInv, LibraryStep
  PROVE  CallbackInv'
<1> DEFINE c == Head(stack).ctx
<1>1. CASE RunCallback
  <2>1. live' = live /\ reset_cbs[c] # <<>>
           /\ reset_cbs' = [reset_cbs EXCEPT ![c] = Tail(reset_cbs[c])]
    BY <1>1 DEF RunCallback, treeVars
  <2>2. c \in Context => c \in live'
    BY <2>1 DEF CallbackInv, NoCallbackLost
  <2> HIDE DEF c
  <2>3. QED
    BY <2>1, <2>2, ListChangeKeepsCallbacks
<1>2. CASE \/ CallbackReturns \/ ResetChildrenFirst \/ ResetSelf \/ ResetReturn
           \/ ResetDescendant \/ ResetNextDescendant \/ DeleteFirstChild
           \/ DescendToLeaf \/ DeleteLeafContext \/ DeleteContinues
  <2>1. OnlyTheCalls
    BY <1>2 DEF CallbackReturns, ResetChildrenFirst, ResetSelf, ResetReturn, ResetDescendant,
                ResetNextDescendant, DeleteFirstChild, DescendToLeaf, DeleteLeafContext,
                DeleteContinues
  <2>2. QED
    BY <2>1, QuietKeepsCallbacks DEF OnlyTheCalls, treeVars, contentVars
<1>3. CASE FinishResetOnly
  BY <1>3, QuietKeepsCallbacks DEF FinishResetOnly, treeVars
<1>4. CASE FinishDeleteOnly
  <2>1. reset_cbs[c] = <<>> /\ reset_cbs' = reset_cbs /\ AllocSetDelete(c)
    BY <1>4 DEF FinishDeleteOnly
  <2> HIDE DEF c
  <2>2. live' = live \ {c}
    <3>1. AddToFreelist(c, freeListIndex[c]) \/ FreeContext(c)
      BY <2>1 DEF AllocSetDelete
    <3>2. QED
      BY <3>1 DEF AddToFreelist, FreeContext, RemoveNode
  <2>3. QED
    BY <2>1, <2>2, DeletionKeepsCallbacks
<1>5. QED
  BY <1>1, <1>2, <1>3, <1>4 DEF LibraryStep, QuietStep

--------------------------------------------------------------------------------
(* No context goes away with a callback that was never called: what        *)
(* MemoryContextDeleteOnly does to callbacks that register others while it *)
(* runs the list, and AllocSetContextCreateInternal to a recycled header.  *)
THEOREM CallbacksAreNotLost == Spec => []NoCallbackLost
<1>1. Init => CallbackInv
  BY DEF Init, CallbackInv, ListPerContext, NoCallbackLost
<1>2. CallbackInv /\ [Next]_vars => CallbackInv'
  <2> SUFFICES ASSUME CallbackInv, [Next]_vars
               PROVE  CallbackInv'
    OBVIOUS
  <2>1. CASE ClientOp
    BY <2>1, ClientOpKeepsCallbacks
  <2>2. CASE LibraryStep
    BY <2>2, LibraryStepKeepsCallbacks
  <2>3. CASE UNCHANGED vars
    BY <2>3, QuietKeepsCallbacks DEF vars, treeVars, contentVars
  <2>4. QED
    BY <2>1, <2>2, <2>3 DEF Next
<1>3. CallbackInv => NoCallbackLost
  BY DEF CallbackInv
<1>4. QED
  BY <1>1, <1>2, <1>3, PTL DEF Spec

--------------------------------------------------------------------------------
(***************************************************************************)
(* The invariant of the whole lifecycle.  The tree needs the freelists (a  *)
(* recycled header is in no list of children) and the stack (what is       *)
(* deleted is a leaf); the freelists need the tree (its operations touch   *)
(* no header on a list); the stack needs both.                             *)
(***************************************************************************)
ContentTypes ==
  /\ isReset \in [Context -> BOOLEAN]
  /\ used \in [Context -> BOOLEAN]
  /\ ListPerContext
  /\ \A c \in Context : reset_cbs[c] \in Seq(Callback)

LifecycleInv ==
  /\ TreeInv
  /\ StackInv
  /\ FreelistInv
  /\ ContentTypes
  /\ EmptyMeansEmpty
  /\ ops \in 0..MaxCallbackOps

(* Removing one element of a list of callbacks.                            *)
LEMMA WithoutOne ==
  ASSUME NEW S, NEW s \in Seq(S), NEW i \in DOMAIN s
  PROVE  LET t == SubSeq(s, 1, i - 1) \o SubSeq(s, i + 1, Len(s)) IN
         /\ t \in Seq(S) /\ Len(s) \in Nat \ {0} /\ DOMAIN t = 1..(Len(s) - 1)
         /\ \A j \in 1..(Len(s) - 1) : t[j] = IF j < i THEN s[j] ELSE s[j + 1]
<1> DEFINE u == SubSeq(s, 1, i - 1)
           v == SubSeq(s, i + 1, Len(s))
<1>1. /\ Len(s) \in Nat \ {0} /\ i \in 1..Len(s)
      /\ \A j \in 1..Len(s) : s[j] \in S
  OBVIOUS
<1>2. /\ u \in Seq(S) /\ Len(u) = i - 1
      /\ \A j \in 1..(i - 1) : u[j] = s[j]
  <2>1. /\ 1 \in Int /\ i - 1 \in Int
        /\ \A j \in 1..(i - 1) : s[j] \in S
    BY <1>1
  <2>2. /\ u \in Seq(S)
        /\ Len(u) = IF 1 <= i - 1 THEN (i - 1) - 1 + 1 ELSE 0
        /\ \A j \in 1..((i - 1) - 1 + 1) : u[j] = s[1 + j - 1]
    BY <2>1, SubSeqProperties
  <2> QED
    BY <1>1, <2>2
<1>3. /\ v \in Seq(S) /\ Len(v) = Len(s) - i
      /\ \A j \in 1..(Len(s) - i) : v[j] = s[i + j]
  <2>1. /\ i + 1 \in Int /\ Len(s) \in Int
        /\ \A j \in (i + 1)..Len(s) : s[j] \in S
    BY <1>1
  <2>2. /\ v \in Seq(S)
        /\ Len(v) = IF i + 1 <= Len(s) THEN Len(s) - (i + 1) + 1 ELSE 0
        /\ \A j \in 1..(Len(s) - (i + 1) + 1) : v[j] = s[(i + 1) + j - 1]
    BY <2>1, SubSeqProperties
  <2> QED
    BY <1>1, <2>2
<1> HIDE DEF u, v
<1>4. /\ u \o v \in Seq(S) /\ Len(u \o v) = Len(s) - 1
      /\ DOMAIN (u \o v) = 1..(Len(s) - 1)
      /\ \A j \in 1..(Len(s) - 1) : (u \o v)[j] = IF j <= i - 1 THEN u[j] ELSE v[j - (i - 1)]
  <2>1. /\ u \o v \in Seq(S) /\ Len(u \o v) = Len(u) + Len(v)
        /\ \A j \in 1..(Len(u) + Len(v)) : (u \o v)[j] = IF j <= Len(u) THEN u[j] ELSE v[j - Len(u)]
    BY <1>2, <1>3, ConcatProperties
  <2>2. DOMAIN (u \o v) = 1..Len(u \o v)
    BY <2>1
  <2>3. Len(u) + Len(v) = Len(s) - 1
    BY <1>1, <1>2, <1>3
  <2> QED
    BY <1>2, <2>1, <2>2, <2>3
<1>5. ASSUME NEW j \in 1..(Len(s) - 1)
      PROVE  (u \o v)[j] = IF j < i THEN s[j] ELSE s[j + 1]
  <2>1. CASE j < i
    BY <1>1, <1>2, <1>4, <2>1
  <2>2. CASE ~(j < i)
    <3>1. j - (i - 1) \in 1..(Len(s) - i) /\ i + (j - (i - 1)) = j + 1 /\ ~(j <= i - 1)
      BY <1>1, <2>2
    <3> QED
      BY <1>3, <1>4, <2>2, <3>1
  <2> QED
    BY <2>1, <2>2
<1> QED
  BY <1>1, <1>4, <1>5 DEF u, v

--------------------------------------------------------------------------------
(* Each step is one of the tree's three operations, or none; when it is    *)
(* none, the headers on the freelists are as they were.                    *)
LEMMA FinishDeleteIsDeleteLeaf ==
  ASSUME LifecycleInv, FinishDeleteOnly
  PROVE  /\ DeleteLeaf(Head(stack).ctx)
         /\ Head(stack).ctx \in live /\ AllocSetDelete(Head(stack).ctx)
         /\ stack' = Tail(stack) /\ current' = current /\ reset_cbs' = reset_cbs
         /\ reset_cbs[Head(stack).ctx] = <<>>
<1> DEFINE x == Head(stack).ctx
<1>1. /\ Calling("DeleteOnly") /\ AllocSetDelete(x) /\ reset_cbs[x] = <<>>
      /\ stack' = Tail(stack) /\ current' = current /\ reset_cbs' = reset_cbs
  BY DEF FinishDeleteOnly, Return, GoOn
<1>2. x \in live /\ firstchild[x] = NULL /\ x # Top
  BY <1>1, DyingContext DEF LifecycleInv, Fixed
<1>3. \E chain \in Pointer : RemoveNode(x, chain)
  BY <1>1, <1>2, AllocSetDeleteRemoves DEF LifecycleInv
<1> QED
  BY <1>1, <1>2, <1>3 DEF DeleteLeaf

(* AllocSetContextCreateInternal, either way, is MemoryContextCreate in    *)
(* the tree.                                                               *)
LEMMA CreationIsCreate ==
  ASSUME LifecycleInv, NEW p \in Parents, NEW class \in Class,
         Recycle(p, class) \/ CreateFresh(p, class)
  PROVE  /\ p \in live \cup {NULL}
         /\ \E c \in Context :
              /\ Create(c, p)
              /\ isReset' = [isReset EXCEPT ![c] = TRUE]
              /\ reset_cbs' = [reset_cbs EXCEPT ![c] = <<>>]
              /\ \/ used' = [used EXCEPT ![c] = FALSE]
                 \/ used' = used /\ c \in malloced /\ isReset[c]
              /\ malloced' = malloced \cup {c}
         /\ FreelistInv'
<1>1. p \in live \cup {NULL}
  BY DEF Parents
<1>2. CASE Recycle(p, class)
  <2>1. /\ FreelistInv' /\ first_free[class] \in Context \ live
        /\ Create(first_free[class], p)
        /\ first_free[class] \in malloced /\ isReset[first_free[class]]
    BY <1>1, <1>2, RecycleKeepsFreelists DEF LifecycleInv, ContentTypes
  <2> QED
    BY <1>1, <1>2, <2>1 DEF Recycle
<1>3. CASE CreateFresh(p, class)
  <2>1. PICK c \in Context \ malloced :
          /\ CreateNode(c, p)
          /\ malloced' = malloced \cup {c}
          /\ freeListIndex' = [freeListIndex EXCEPT ![c] = class]
          /\ isReset' = [isReset EXCEPT ![c] = TRUE]
          /\ reset_cbs' = [reset_cbs EXCEPT ![c] = <<>>]
          /\ used' = [used EXCEPT ![c] = FALSE]
          /\ UNCHANGED <<first_free, num_free>>
    BY <1>3 DEF CreateFresh
  <2>2. FreelistInv' /\ Create(c, p)
    BY <1>1, <2>1, CreateFreshKeepsFreelists DEF LifecycleInv, ContentTypes
  <2> QED
    BY <1>1, <2>1, <2>2
<1> QED
  BY <1>2, <1>3

(* MemoryContextSetParent. *)
LEMMA MoveIsReparent ==
  ASSUME NEW c \in live, NEW p \in Parents, MoveContext(c, p)
  PROVE  p \in live \cup {NULL} /\ Reparent(c, p)
  BY DEF Parents, MoveContext, MayMove, Reparent

(* The other steps of the client and of the library.                       *)
TreeAlone ==
  /\ UNCHANGED <<treeVars, freelistVars>>
  /\ \A x \in Context \ live : isReset'[x] = isReset[x]

(* Every step but the creations, moves and deletions is such a step. *)
LEMMA OtherStepsLeaveTheTree ==
  ASSUME LifecycleInv,
         \/ QuietStep \/ FinishResetOnly
         \/ \E c \in live : \/ Alloc(c) \/ StartReset(c) \/ StartResetOnly(c)
                           \/ StartResetChildren(c) \/ StartDelete(c)
                           \/ StartDeleteChildren(c) \/ SwitchTo(c)
                           \/ \E cb \in Callback : \/ RegisterResetCallback(c, cb)
                                                  \/ UnregisterResetCallback(c, cb)
  PROVE  TreeAlone
<1>1. CASE OnlyTheCalls
  BY <1>1 DEF OnlyTheCalls, TreeAlone, contentVars
<1>2. CASE RunCallback
  BY <1>2 DEF RunCallback, TreeAlone
<1>3. CASE FinishResetOnly
  <2>1. Head(stack).ctx \in live
    BY <1>3, CallingFacts DEF FinishResetOnly, LifecycleInv
  <2> QED
    BY <1>3, <2>1 DEF FinishResetOnly, TreeAlone, LifecycleInv, ContentTypes
<1>4. ASSUME NEW c \in live, Alloc(c) \/ SwitchTo(c)
      PROVE  TreeAlone
  BY <1>4 DEF Alloc, SwitchTo, contentVars, TreeAlone, LifecycleInv, ContentTypes
<1>5. ASSUME NEW c \in live, NEW cb \in Callback,
             RegisterResetCallback(c, cb) \/ UnregisterResetCallback(c, cb)
      PROVE  TreeAlone
  BY <1>5
  DEF RegisterResetCallback, UnregisterResetCallback, TreeAlone, LifecycleInv, ContentTypes
<1> QED
  BY <1>1, <1>2, <1>3, <1>4, <1>5
  DEF QuietStep, CallbackReturns, ResetChildrenFirst, ResetSelf, ResetReturn,
      ResetDescendant, ResetNextDescendant, DeleteFirstChild, DescendToLeaf,
      DeleteLeafContext, DeleteContinues, StartReset, StartResetOnly,
      StartResetChildren, StartDelete, StartDeleteChildren

(* The lifecycle implements the tree, and keeps the freelists.             *)
LEMMA LifecycleStepIsTreeStep ==
  ASSUME LifecycleInv, [Next]_vars
  PROVE  [TreeNext]_treeVars /\ FreelistInv'
<1>1. ASSUME NEW p \in Parents, NEW class \in Class, Recycle(p, class) \/ CreateFresh(p, class)
      PROVE  [TreeNext]_treeVars /\ FreelistInv'
  BY <1>1, CreationIsCreate DEF TreeNext
<1>2. ASSUME NEW c \in live, NEW p \in Parents, MoveContext(c, p)
      PROVE  [TreeNext]_treeVars /\ FreelistInv'
  <2>1. p \in live \cup {NULL} /\ Reparent(c, p)
    BY <1>2, MoveIsReparent
  <2>2. UNCHANGED freelistVars /\ live' = live /\ isReset' = isReset
    BY <1>2 DEF MoveContext, contentVars
  <2>3. FreelistInv'
    BY <2>1, <2>2, ReparentKeepsChains, FreelistsUntouched DEF LifecycleInv
  <2> QED
    BY <2>1, <2>3 DEF TreeNext
<1>3. CASE FinishDeleteOnly
  <2>1. DeleteLeaf(Head(stack).ctx) /\ Head(stack).ctx \in live
        /\ AllocSetDelete(Head(stack).ctx)
    BY <1>3, FinishDeleteIsDeleteLeaf
  <2>2. FreelistInv'
    BY <2>1, AllocSetDeleteKeepsFreelists DEF LifecycleInv, ContentTypes
  <2> QED
    BY <2>1, <2>2 DEF TreeNext
<1>4. CASE TreeAlone
  BY <1>4, FreelistsUntouched DEF TreeAlone, treeVars, LifecycleInv
<1>5. CASE UNCHANGED vars
  BY <1>4, <1>5 DEF vars, contentVars, TreeAlone
<1> QED
  BY <1>1, <1>2, <1>3, <1>4, <1>5, OtherStepsLeaveTheTree
  DEF Next, ClientOp, QuietClientOp, LibraryStep

--------------------------------------------------------------------------------
(* What a context holds.  When a list or the space of one context changes, *)
(* only that context matters.                                              *)
LEMMA OneContextChanges ==
  ASSUME ContentTypes, EmptyMeansEmpty, NEW c \in Context,
         NEW r \in BOOLEAN, NEW l \in Seq(Callback), NEW u \in BOOLEAN,
         isReset' = [isReset EXCEPT ![c] = r],
         reset_cbs' = [reset_cbs EXCEPT ![c] = l],
         used' = [used EXCEPT ![c] = u],
         malloced \subseteq Context, malloced' \subseteq malloced \cup {c},
         r => ~u /\ l = <<>>
  PROVE  ContentTypes' /\ EmptyMeansEmpty'
<1>1. reset_cbs' = [x \in Context |-> IF x = c THEN l ELSE reset_cbs[x]]
  BY DEF ContentTypes, ListPerContext
<1>2. isReset' \in [Context -> BOOLEAN] /\ used' \in [Context -> BOOLEAN]
  BY DEF ContentTypes
<1>3. ListPerContext' /\ \A x \in Context : reset_cbs'[x] \in Seq(Callback)
  BY <1>1 DEF ContentTypes, ListPerContext
<1>4. ASSUME NEW x \in malloced', isReset'[x]
      PROVE  ~used'[x] /\ reset_cbs'[x] = <<>>
  BY <1>1, <1>4 DEF ContentTypes, EmptyMeansEmpty
<1> QED
  BY <1>2, <1>3, <1>4 DEF ContentTypes, EmptyMeansEmpty

(* Steps that leave the contents alone. *)
LEMMA NoContextChanges ==
  ASSUME ContentTypes, EmptyMeansEmpty, UNCHANGED contentVars, malloced' \subseteq malloced
  PROVE  ContentTypes' /\ EmptyMeansEmpty'
  BY DEF ContentTypes, ListPerContext, EmptyMeansEmpty, contentVars

(* A function whose value at c is the old one.                             *)
LEMMA SameValue ==
  ASSUME NEW f, f = [x \in Context |-> f[x]], NEW c \in Context
  PROVE  f = [f EXCEPT ![c] = f[c]]
  OBVIOUS

(* MemoryContextUnregisterResetCallback takes one callback out of the      *)
(* list.                                                                   *)
LEMMA UnregisterShortens ==
  ASSUME ContentTypes, NEW c \in live, c \in Context, NEW cb, UnregisterResetCallback(c, cb)
  PROVE  \E i \in DOMAIN reset_cbs[c] :
           reset_cbs' = [reset_cbs EXCEPT ![c] =
                           SubSeq(reset_cbs[c], 1, i - 1)
                             \o SubSeq(reset_cbs[c], i + 1, Len(reset_cbs[c]))]
  BY DEF UnregisterResetCallback

(* What every step does to the contents.                                   *)
LEMMA StepKeepsContents ==
  ASSUME LifecycleInv, [Next]_vars
  PROVE  ContentTypes' /\ EmptyMeansEmpty'
<1>0. /\ ContentTypes /\ EmptyMeansEmpty
      /\ malloced \subseteq Context /\ live \subseteq malloced
  BY DEF LifecycleInv, FreelistInv, FreelistTypes, FreelistsOK
<1>1. ASSUME NEW p \in Parents, NEW class \in Class, Recycle(p, class) \/ CreateFresh(p, class)
      PROVE  ContentTypes' /\ EmptyMeansEmpty'
  <2>1. PICK c \in Context :
          /\ isReset' = [isReset EXCEPT ![c] = TRUE]
          /\ reset_cbs' = [reset_cbs EXCEPT ![c] = <<>>]
          /\ \/ used' = [used EXCEPT ![c] = FALSE]
             \/ used' = used /\ c \in malloced /\ isReset[c]
          /\ malloced' = malloced \cup {c}
    BY <1>1, CreationIsCreate
  <2>2. used' = [used EXCEPT ![c] = FALSE]
    BY <1>0, <2>1 DEF ContentTypes, EmptyMeansEmpty
  <2>3. <<>> \in Seq(Callback)
    OBVIOUS
  <2> QED
    BY <1>0, <2>1, <2>2, <2>3, OneContextChanges
<1>2. ASSUME NEW c \in live, Alloc(c)
      PROVE  ContentTypes' /\ EmptyMeansEmpty'
  <2>1. PICK u \in BOOLEAN : used' = [used EXCEPT ![c] = u]
    BY <1>0, <1>2 DEF Alloc, ContentTypes
  <2>2. /\ isReset' = [isReset EXCEPT ![c] = FALSE] /\ malloced' = malloced
        /\ reset_cbs' = [reset_cbs EXCEPT ![c] = reset_cbs[c]]
    BY <1>0, <1>2, SameValue DEF Alloc, freelistVars, ContentTypes, ListPerContext
  <2>3. reset_cbs[c] \in Seq(Callback) /\ c \in Context
    BY <1>0 DEF ContentTypes
  <2> QED
    BY <1>0, <2>1, <2>2, <2>3, OneContextChanges
<1>3. ASSUME NEW c \in live, NEW cb \in Callback, RegisterResetCallback(c, cb)
      PROVE  ContentTypes' /\ EmptyMeansEmpty'
  <2>1. /\ isReset' = [isReset EXCEPT ![c] = FALSE] /\ malloced' = malloced
        /\ reset_cbs' = [reset_cbs EXCEPT ![c] = <<cb>> \o reset_cbs[c]]
        /\ used' = [used EXCEPT ![c] = used[c]]
    BY <1>0, <1>3 DEF RegisterResetCallback, freelistVars, ContentTypes
  <2>2. reset_cbs[c] \in Seq(Callback) /\ c \in Context /\ used[c] \in BOOLEAN
    BY <1>0 DEF ContentTypes
  <2>3. <<cb>> \o reset_cbs[c] \in Seq(Callback)
    BY <2>2
  <2> QED
    BY <1>0, <2>1, <2>2, <2>3, OneContextChanges
<1>4. ASSUME NEW c \in live, NEW cb \in Callback, UnregisterResetCallback(c, cb)
      PROVE  ContentTypes' /\ EmptyMeansEmpty'
  <2>1. c \in Context /\ reset_cbs[c] \in Seq(Callback)
    BY <1>0 DEF ContentTypes
  <2>2. PICK i \in DOMAIN reset_cbs[c] :
          reset_cbs' = [reset_cbs EXCEPT ![c] = SubSeq(reset_cbs[c], 1, i - 1)
                                                  \o SubSeq(reset_cbs[c], i + 1, Len(reset_cbs[c]))]
    BY <1>0, <1>4, <2>1, UnregisterShortens
  <2> DEFINE l == SubSeq(reset_cbs[c], 1, i - 1)
                    \o SubSeq(reset_cbs[c], i + 1, Len(reset_cbs[c]))
  <2>3. l \in Seq(Callback)
    BY <2>1, WithoutOne
  <2>4. ~isReset[c]
    BY <1>0, <2>1 DEF EmptyMeansEmpty
  <2>5. /\ isReset' = [isReset EXCEPT ![c] = FALSE] /\ malloced' = malloced
        /\ used' = [used EXCEPT ![c] = used[c]]
    BY <1>0, <1>4, <2>4 DEF UnregisterResetCallback, freelistVars, ContentTypes
  <2>6. used[c] \in BOOLEAN
    BY <1>0, <2>1 DEF ContentTypes
  <2>7. reset_cbs' = [reset_cbs EXCEPT ![c] = l]
    BY <2>2
  <2> HIDE DEF l
  <2> QED
    BY <1>0, <2>1, <2>3, <2>5, <2>6, <2>7, OneContextChanges
<1>5. CASE RunCallback
  <2> DEFINE c == Head(stack).ctx
  <2>1. c \in Context /\ reset_cbs[c] \in Seq(Callback)
    BY <1>0, <1>5, CallingFacts DEF RunCallback, LifecycleInv, ContentTypes
  <2>2. reset_cbs[c] # <<>> /\ reset_cbs' = [reset_cbs EXCEPT ![c] = Tail(reset_cbs[c])]
        /\ isReset' = isReset /\ used' = used /\ malloced' = malloced
    BY <1>5 DEF RunCallback, freelistVars
  <2>3. isReset' = [isReset EXCEPT ![c] = isReset[c]] /\ isReset[c] \in BOOLEAN
        /\ used' = [used EXCEPT ![c] = used[c]] /\ used[c] \in BOOLEAN
    BY <1>0, <2>1, <2>2 DEF ContentTypes
  <2>4. Tail(reset_cbs[c]) \in Seq(Callback)
    BY <2>1, <2>2
  <2> HIDE DEF c
  <2>5. CASE isReset[c]
    <3>1. c \notin malloced
      BY <1>0, <2>2, <2>5 DEF EmptyMeansEmpty
    <3>2. /\ isReset' \in [Context -> BOOLEAN] /\ used' \in [Context -> BOOLEAN]
          /\ reset_cbs' = [x \in Context |-> IF x = c THEN Tail(reset_cbs[c]) ELSE reset_cbs[x]]
      BY <1>0, <2>2 DEF ContentTypes, ListPerContext
    <3> QED
      BY <1>0, <2>2, <2>4, <3>1, <3>2 DEF ContentTypes, ListPerContext, EmptyMeansEmpty
  <2> QED
    BY <1>0, <2>1, <2>2, <2>3, <2>4, <2>5, OneContextChanges
<1>6. ASSUME NEW c \in Context, reset_cbs[c] = <<>>, reset_cbs' = reset_cbs,
             isReset' = [isReset EXCEPT ![c] = TRUE], used' = [used EXCEPT ![c] = FALSE],
             malloced' \subseteq malloced
      PROVE  ContentTypes' /\ EmptyMeansEmpty'
  <2>1. reset_cbs' = [reset_cbs EXCEPT ![c] = <<>>]
    BY <1>0, <1>6, SameValue DEF ContentTypes, ListPerContext
  <2>2. <<>> \in Seq(Callback)
    OBVIOUS
  <2> QED
    BY <1>0, <1>6, <2>1, <2>2, OneContextChanges
<1>7. CASE FinishResetOnly
  <2>1. Head(stack).ctx \in Context
    BY <1>7, CallingFacts DEF FinishResetOnly, LifecycleInv
  <2> QED
    BY <1>6, <1>7, <2>1 DEF FinishResetOnly, freelistVars
<1>8. CASE FinishDeleteOnly
  <2> DEFINE c == Head(stack).ctx
  <2>1. c \in Context
    BY <1>8, CallingFacts DEF FinishDeleteOnly, LifecycleInv
  <2>2. /\ reset_cbs[c] = <<>> /\ reset_cbs' = reset_cbs
        /\ isReset' = [isReset EXCEPT ![c] = TRUE] /\ used' = [used EXCEPT ![c] = FALSE]
        /\ AddToFreelist(c, freeListIndex[c]) \/ FreeContext(c)
    BY <1>8 DEF FinishDeleteOnly, AllocSetDelete
  <2> HIDE DEF c
  <2>3. malloced' \subseteq malloced
    BY <2>2 DEF AddToFreelist, FreeContext
  <2> QED
    BY <1>6, <2>1, <2>2, <2>3
<1>9. CASE UNCHANGED contentVars /\ malloced' = malloced
  BY <1>0, <1>9, NoContextChanges
<1> QED
  BY <1>1, <1>2, <1>3, <1>4, <1>5, <1>7, <1>8, <1>9
  DEF Next, ClientOp, QuietClientOp, LibraryStep, QuietStep, OnlyTheCalls, vars, freelistVars,
      CallbackReturns, ResetChildrenFirst, ResetSelf, ResetReturn, ResetDescendant,
      ResetNextDescendant, DeleteFirstChild, DescendToLeaf, DeleteLeafContext,
      DeleteContinues, StartReset, StartResetOnly, StartResetChildren, StartDelete,
      StartDeleteChildren, MoveContext, SwitchTo

(* What every step does to the calls in progress.                          *)
LEMMA StepKeepsStack ==
  ASSUME LifecycleInv, [Next]_vars, "dying" \in Discipline
  PROVE  StackInv'
<1>0. TreeInv /\ StackInv
  BY DEF LifecycleInv
<1>1. ASSUME NEW p \in Parents, NEW class \in Class, Recycle(p, class) \/ CreateFresh(p, class)
      PROVE  StackInv'
  <2>1. PICK c \in Context : Create(c, p) /\ p \in live \cup {NULL}
    BY <1>1, CreationIsCreate
  <2>2. /\ MayAdopt(p) /\ stack' = stack /\ current' = current
        /\ Idle \/ Calling("Callback")
    BY <1>1 DEF Recycle, CreateFresh, ClientRuns
  <2> QED
    BY <1>0, <2>1, <2>2, CreateKeepsStack
<1>2. CASE QuietClientOp \/ \E c \in live \cap Subject : Alloc(c)
  BY <1>0, <1>2, QuietClientOpKeepsStack
<1>3. CASE QuietStep \/ FinishResetOnly
  BY <1>0, <1>3, LibraryKeepsStack
<1>4. CASE FinishDeleteOnly
  <2>1. Calling("DeleteOnly") /\ DeleteLeaf(Head(stack).ctx)
        /\ stack' = Tail(stack) /\ current' = current
    BY <1>4, FinishDeleteIsDeleteLeaf DEF FinishDeleteOnly
  <2> QED
    BY <1>0, <2>1, FinishDeleteKeepsStack
<1>5. CASE UNCHANGED vars
  BY <1>0, <1>5, SameTreeKeeps DEF vars, treeVars, SameTree, StackInv
<1> QED
  BY <1>1, <1>2, <1>3, <1>4, <1>5 DEF Next, ClientOp, LibraryStep

(* What the callbacks of one call of the client have done stays bounded.   *)
LEMMA StepKeepsOps ==
  ASSUME ops \in 0..MaxCallbackOps, [Next]_vars
  PROVE  ops' \in 0..MaxCallbackOps
<1>1. CASE ClientOp
  <2>1. ClientRuns
    BY <1>1
    DEF ClientOp, QuietClientOp, Recycle, CreateFresh, Alloc, RegisterResetCallback,
        UnregisterResetCallback, MoveContext, SwitchTo, StartReset, StartResetOnly,
        StartResetChildren, StartDelete, StartDeleteChildren
  <2> QED
    BY <2>1, LifecycleAssumption DEF ClientRuns
<1>2. CASE LibraryStep
  <2>1. \E s : GoOn(s)
    BY <1>2
    DEF LibraryStep, QuietStep, RunCallback, CallbackReturns, ResetChildrenFirst, ResetSelf,
        ResetReturn, ResetDescendant, ResetNextDescendant, DeleteFirstChild, DescendToLeaf,
        DeleteLeafContext, DeleteContinues, FinishResetOnly, FinishDeleteOnly,
        Call, Return, Advance
  <2> QED
    BY <2>1, LifecycleAssumption DEF GoOn
<1> QED
  BY <1>1, <1>2 DEF Next, vars

(* MemoryContextInit. *)
LEMMA LifecycleInvInitially == Init => LifecycleInv
<1> SUFFICES ASSUME Init
             PROVE  LifecycleInv
  OBVIOUS
<1>1. TreeInv
  BY TreeInvInitially DEF Init
<1>2. StackInv
  <2>1. stack = <<>> /\ {current, Error} \subseteq live
    BY DEF Init, TreeInit
  <2>2. \A T : <<>> \in Seq(T) /\ Len(<<>>) = 0 /\ 1..Len(<<>>) = {} /\ 1..(Len(<<>>) - 1) = {}
    OBVIOUS
  <2> QED
    BY <2>1, <2>2 DEF StackInv, StackOK, BodyOK, OuterSpared, FixedSpared
<1>3. \A i \in {0, 1} : Chained(i) = {}
  <2> SUFFICES ASSUME NEW i \in {0, 1}
               PROVE  Chained(i) \subseteq {}
    OBVIOUS
  <2>1. {} \in SUBSET Context /\ first_free[i] \in {} \cup {NULL}
        /\ \A y \in {} : nextchild[y] \in {} \cup {NULL}
    BY DEF Init
  <2> QED
    BY <2>1, ChainLeast
<1>4. FreelistInv
  <2>1. FreelistTypes
    BY LifecycleAssumption, ContextAssumption DEF Init, FreelistTypes, Pointer
  <2>2. IsFiniteSet({}) /\ Cardinality({}) = 0
    BY FS_EmptySet
  <2>3. FreelistsOK
    BY <1>3, <2>2 DEF FreelistsOK, Init, TreeInit
  <2>4. \A i \in {0, 1} : ChainOK(i)
    BY <1>3, <2>2 DEF ChainOK
  <2> QED
    BY <2>1, <2>3, <2>4 DEF FreelistInv
<1>5. ContentTypes /\ EmptyMeansEmpty
  <2>1. malloced \subseteq Context
    BY <1>4 DEF FreelistInv, FreelistTypes
  <2>2. <<>> \in Seq(Callback)
    OBVIOUS
  <2> QED
    BY <2>1, <2>2 DEF Init, ContentTypes, ListPerContext, EmptyMeansEmpty
<1>6. ops \in 0..MaxCallbackOps
  BY LifecycleAssumption DEF Init
<1> QED
  BY <1>1, <1>2, <1>4, <1>5, <1>6 DEF LifecycleInv

(* Every step. *)
LEMMA LifecycleInvStep ==
  ASSUME LifecycleInv, [Next]_vars, "dying" \in Discipline
  PROVE  LifecycleInv'
<1>1. [TreeNext]_treeVars /\ FreelistInv'
  BY LifecycleStepIsTreeStep
<1>2. TreeInv'
  BY <1>1, TreeInvStep DEF LifecycleInv
<1>3. StackInv'
  BY StepKeepsStack
<1>4. ContentTypes' /\ EmptyMeansEmpty'
  BY StepKeepsContents
<1>5. (ops \in 0..MaxCallbackOps)'
  BY StepKeepsOps DEF LifecycleInv
<1> QED
  BY <1>1, <1>2, <1>3, <1>4, <1>5 DEF LifecycleInv

--------------------------------------------------------------------------------
(***************************************************************************)
(* What the invariant says of the calls in progress, for a client that     *)
(* creates no child for a context whose deletion has checked that it has   *)
(* none (ChildOfDying.cfg shows what happens otherwise).                   *)
(***************************************************************************)
LEMMA CallOnStack ==
  ASSUME LifecycleInv, NEW f \in Calls
  PROVE  \E i \in 1..Len(stack) :
           /\ f = stack[i] /\ f \in FrameType /\ FrameOK(f) /\ Fixed \cap Doomed(f) = {}
           /\ i = 1 => TopOK(f)
           /\ i # 1 => WaitsFor(f, stack[i - 1])
           /\ f.op = "DeleteOnly" =>
                \E g \in FrameType : FrameOK(g) /\ Fixed \cap Doomed(g) = {} /\ WaitsFor(g, f)
<1>1. /\ stack \in Seq(FrameType) /\ BodyOK(stack)
      /\ stack # <<>> => TopOK(stack[1])
      /\ Len(stack) \in Nat /\ (stack = <<>> <=> Len(stack) = 0)
  BY EmptyStack DEF LifecycleInv, StackInv, StackOK, BodyOK
<1>2. PICK i \in 1..Len(stack) : f = stack[i]
  BY DEF Calls
<1>3. f \in FrameType /\ FrameOK(f) /\ Fixed \cap Doomed(f) = {}
  BY <1>1, <1>2 DEF BodyOK, FixedSpared
<1>4. i = 1 => TopOK(f)
  BY <1>1, <1>2
<1>5. i # 1 => WaitsFor(f, stack[i - 1])
  <2> SUFFICES ASSUME i # 1
               PROVE  WaitsFor(f, stack[i - 1])
    OBVIOUS
  <2>1. i - 1 \in 1..(Len(stack) - 1) /\ (i - 1) + 1 = i
    BY <1>1
  <2> QED
    BY <1>1, <1>2, <2>1 DEF BodyOK
<1>6. ASSUME f.op = "DeleteOnly"
      PROVE  \E g \in FrameType : FrameOK(g) /\ Fixed \cap Doomed(g) = {} /\ WaitsFor(g, f)
  <2>1. i # Len(stack)
    BY <1>1, <1>2, <1>6 DEF BodyOK
  <2>2. i \in 1..(Len(stack) - 1) /\ i + 1 \in 1..Len(stack)
    BY <1>1, <2>1
  <2>3. /\ stack[i + 1] \in FrameType /\ FrameOK(stack[i + 1])
        /\ Fixed \cap Doomed(stack[i + 1]) = {} /\ WaitsFor(stack[i + 1], f)
    BY <1>1, <1>2, <2>2 DEF BodyOK, FixedSpared
  <2> QED
    BY <2>3
<1> QED
  BY <1>2, <1>3, <1>4, <1>5, <1>6

(* What the invariant says of the stack, for the calls of the code. *)
LEMMA CallsAreSafe ==
  ASSUME LifecycleInv
  PROVE  CallsTouchOnlyLive
<1>1. {current, Error} \subseteq live
  BY DEF LifecycleInv, StackInv, StackOK
<1>2. ASSUME NEW f \in Calls
      PROVE  WillTouch(f) \subseteq live
  <2>1. PICK i \in 1..Len(stack) :
               /\ f \in FrameType /\ FrameOK(f)
               /\ i = 1 => TopOK(f)
               /\ i # 1 => WaitsFor(f, stack[i - 1])
    BY <1>2, CallOnStack
  <2>2. CASE f.op = "DeleteNext" /\ f.curr # f.ctx
    <3>1. f.ctx \in live
      BY <2>1, <2>2 DEF TopOK, WaitsFor
    <3>2. f.up \in Subtree(f.ctx)
      BY <2>1, <2>2, <3>1, ParentInside DEF TopOK, WaitsFor, Below
    <3> QED
      BY <2>2, <3>1, <3>2, SubtreeLive DEF WillTouch
  <2>3. CASE f.op = "DeleteNext" /\ f.curr = f.ctx
    BY <2>3 DEF WillTouch
  <2>4. CASE f.op = "Callback"
    BY <2>4 DEF WillTouch
  <2>5. CASE f.op \notin {"DeleteNext", "Callback"}
    <3>1. f.ctx \in live
      BY <2>1, <2>5 DEF FrameOK
    <3>2. f.curr = f.ctx \/ f.curr \in Subtree(f.ctx)
      BY <2>1, <2>5 DEF FrameOK, Below
    <3> QED
      BY <2>5, <3>1, <3>2, SubtreeLive DEF WillTouch
  <2> QED
    BY <2>2, <2>3, <2>4, <2>5
<1> QED
  BY <1>1, <1>2 DEF CallsTouchOnlyLive

(* Likewise for the assertions of MemoryContextDeleteOnly. *)
LEMMA DeletionsAreSafe ==
  ASSUME LifecycleInv
  PROVE  DeleteAssertions
<1> SUFFICES ASSUME NEW f \in Calls, f.op = "DeleteOnly"
             PROVE  f.ctx \in live \ {Top, current} /\ firstchild[f.ctx] = NULL
  BY DEF DeleteAssertions
<1>1. FrameOK(f) /\ \E g \in FrameType : Fixed \cap Doomed(g) = {} /\ WaitsFor(g, f)
  BY CallOnStack
<1>2. f.ctx \in live /\ firstchild[f.ctx] = NULL
  BY <1>1 DEF FrameOK, NeedsChildless
<1>3. PICK g : Fixed \cap Doomed(g) = {} /\ WaitsFor(g, f)
  BY <1>1
<1>4. f.ctx \in Doomed(g)
  BY <1>3 DEF WaitsFor, Doomed
<1> QED
  BY <1>2, <1>3, <1>4 DEF Fixed

(* Likewise for MemoryContextReset when it returns. *)
LEMMA ResetsFindNoChild ==
  ASSUME LifecycleInv, "resetting" \in Discipline
  PROVE  ResetReturnsChildless
<1> SUFFICES ASSUME Calling("ResetReturn")
             PROVE  firstchild[Head(stack).ctx] = NULL
  BY DEF ResetReturnsChildless
<1> QED
  BY Innermost DEF Calling, LifecycleInv, FrameOK, NeedsChildless

--------------------------------------------------------------------------------
(* The other conjuncts.                                                    *)
LEMMA LifecycleTypes ==
  ASSUME LifecycleInv
  PROVE  LifecycleTypeOK
<1>1. TreeTypeOK /\ current \in Context
  BY DEF LifecycleInv, TreeInv, TreeTypeOK, StackInv, StackOK
<1> QED
  BY <1>1 DEF LifecycleInv, LifecycleTypeOK, ContentTypes, FreelistInv, FreelistTypes

(* Live contexts have live parents. *)
LEMMA ParentsLive ==
  ASSUME LifecycleInv
  PROVE  NoOrphans
  BY DEF LifecycleInv, TreeInv, LinksOK, UpOK, NoOrphans

(***************************************************************************)
(* MemoryContextReset returns to find the context reset: the last thing it *)
(* did was to see that it was, or to wait for MemoryContextResetOnly.      *)
(***************************************************************************)
ResetFound == Calling("ResetReturn") => isReset[Head(stack).ctx]

(* Where a call returns to.                                                *)
LEMMA ReturnsTo ==
  ASSUME StackInv, ~Idle, stack' = Tail(stack), Calling("ResetReturn")'
  PROVE  Head(stack).op = "ResetOnly" /\ Head(stack').ctx = Head(stack).ctx
<1> PICK s : s = Tail(stack)
  OBVIOUS
<1>1. s \in Seq(FrameType) /\ s # <<>> /\ s[1].op = "ResetReturn" /\ Head(s) = s[1]
  BY Innermost, Popped DEF Calling, Idle
<1>2. WaitsFor(s[1], Head(stack))
  BY <1>1, Innermost
<1> QED
  BY <1>1, <1>2 DEF WaitsFor

(* One frame, or two, put before a stack. *)
LEMMA Headed ==
  ASSUME NEW S, NEW s \in Seq(S), NEW f, NEW g
  PROVE  /\ <<f>> \o s # <<>> /\ Head(<<f>> \o s) = f
         /\ <<f, g>> \o s # <<>> /\ Head(<<f, g>> \o s) = f
  OBVIOUS

(* How the innermost call changes.  Only MemoryContextReset starts to      *)
(* return and only MemoryContextCallResetCallbacks calls a callback.       *)
OtherCall == stack' # <<>> /\ Head(stack').op \notin {"ResetReturn", "Callback"}

ResetDone ==
  /\ ~Idle /\ Head(stack').ctx = Head(stack).ctx /\ Head(stack').op # "Callback"
  /\ isReset[Head(stack).ctx] /\ isReset' = isReset

(* The client never calls into the middle of a reset. *)
LEMMA ClientCallsOther ==
  ASSUME StackInv, ClientOp
  PROVE  OtherCall \/ (stack' = stack /\ (Idle \/ Calling("Callback")))
<1>0. stack \in Seq(FrameType)
  BY DEF StackInv, StackOK, BodyOK
<1>1. ASSUME NEW f, stack' = <<f>> \o stack, f.op \notin {"ResetReturn", "Callback"}
      PROVE  OtherCall
  BY <1>0, <1>1, Headed DEF OtherCall
<1>2. ASSUME NEW c \in live,
             \/ StartReset(c) \/ StartResetOnly(c) \/ StartDelete(c) \/ StartDeleteChildren(c)
      PROVE  OtherCall
  <2>1. PICK op \in {"Reset", "ResetOnly", "Delete", "DeleteChildren"} :
          stack' = <<Frame(op, c)>> \o stack
    BY <1>2 DEF StartReset, StartResetOnly, StartDelete, StartDeleteChildren
  <2>2. Frame(op, c).op = op
    BY DEF Frame
  <2> QED
    BY <1>1, <2>1, <2>2
<1>3. ASSUME NEW c \in live, StartResetChildren(c)
      PROVE  OtherCall
  <2> DEFINE f == [Frame("ResetChildren", c) EXCEPT !.curr = firstchild[c]]
  <2>1. stack' = <<f>> \o stack
    BY <1>3 DEF StartResetChildren
  <2>2. f.op = "ResetChildren"
    BY DEF Frame
  <2> HIDE DEF f
  <2> QED
    BY <1>1, <2>1, <2>2
<1>4. ASSUME \/ \E p \in Parents, class \in Class : Recycle(p, class) \/ CreateFresh(p, class)
             \/ \E c \in live : Alloc(c) \/ SwitchTo(c) \/ \E p \in Parents : MoveContext(c, p)
             \/ \E c \in live, cb \in Callback : \/ RegisterResetCallback(c, cb)
                                                 \/ UnregisterResetCallback(c, cb)
      PROVE  stack' = stack /\ (Idle \/ Calling("Callback"))
  <2>1. ClientRuns /\ stack' = stack
    BY <1>4
    DEF Recycle, CreateFresh, Alloc, RegisterResetCallback, UnregisterResetCallback,
        MoveContext, SwitchTo
  <2> QED
    BY <2>1 DEF ClientRuns
<1> QED
  BY <1>2, <1>3, <1>4 DEF ClientOp, QuietClientOp

(* Nor does the library, but for the steps named. *)
LEMMA LibraryCallsOther ==
  ASSUME StackInv, LibraryStep
  PROVE  \/ stack' = Tail(stack) /\ ~Idle /\ (Calling("ResetOnly") => FinishResetOnly)
         \/ RunCallback /\ Head(stack').op = "Callback"
         \/ ResetDone
         \/ OtherCall
<1>0. ~Idle /\ stack \in Seq(FrameType) /\ Tail(stack) \in Seq(FrameType)
      /\ Head(stack) \in FrameType
  <2>1. ~Idle
    BY DEF LibraryStep, QuietStep, RunCallback, CallbackReturns, ResetChildrenFirst,
           ResetSelf, ResetReturn, ResetDescendant, ResetNextDescendant, DeleteFirstChild,
           DescendToLeaf, DeleteLeafContext, DeleteContinues, FinishResetOnly,
           FinishDeleteOnly, Calling
  <2> QED
    BY <2>1, Innermost
<1> DEFINE f == Head(stack)
<1>1. ASSUME NEW g, NEW h, g.op \notin {"ResetReturn", "Callback"},
             \/ stack' = <<g>> \o stack
             \/ stack' = <<g>> \o Tail(stack)
             \/ stack' = <<g, h>> \o Tail(stack)
      PROVE  OtherCall
  BY <1>0, <1>1, Headed DEF OtherCall
<1>2. CASE RunCallback
  <2>1. stack' = <<Frame("Callback", f.ctx)>> \o stack
    BY <1>2 DEF RunCallback, Call, GoOn
  <2> QED
    BY <1>0, <1>2, <2>1, Headed DEF Frame
<1>3. CASE CallbackReturns \/ ResetReturn \/ FinishResetOnly \/ FinishDeleteOnly
  BY <1>0, <1>3
  DEF CallbackReturns, ResetReturn, FinishResetOnly, FinishDeleteOnly, Return, GoOn, Calling
<1>4. CASE ResetChildrenFirst
  <2> DEFINE g == Frame("DeleteChildren", f.ctx)
  <2>1. stack' = <<g, [f EXCEPT !.op = "ResetSelf"]>> \o Tail(stack) /\ g.op = "DeleteChildren"
    BY <1>4 DEF ResetChildrenFirst, GoOn, Frame
  <2> QED
    BY <1>1, <2>1
<1>5. CASE ResetSelf
  <2> DEFINE g == Frame("ResetOnly", f.ctx)
             h == [f EXCEPT !.op = "ResetReturn"]
  <2>1. \/ stack' = <<h>> \o Tail(stack) /\ isReset[f.ctx]
        \/ stack' = <<g, h>> \o Tail(stack) /\ g.op = "ResetOnly"
    BY <1>5 DEF ResetSelf, Advance, GoOn, Frame
  <2>2. h.ctx = f.ctx /\ h.op = "ResetReturn" /\ isReset' = isReset
    BY <1>0, <1>5 DEF FrameType, ResetSelf, OnlyTheCalls, contentVars
  <2>3. CASE stack' = <<h>> \o Tail(stack) /\ isReset[f.ctx]
    BY <1>0, <2>2, <2>3, Headed DEF ResetDone
  <2>4. CASE stack' = <<g, h>> \o Tail(stack) /\ g.op = "ResetOnly"
    BY <1>1, <2>4
  <2> QED
    BY <2>1, <2>3, <2>4
<1>6. CASE ResetDescendant
  <2> DEFINE g == Frame("ResetOnly", f.curr)
             h == [f EXCEPT !.op = "TraverseNext"]
  <2>1. stack' = <<h>> \o Tail(stack) \/ stack' = <<g, h>> \o Tail(stack)
    BY <1>6 DEF ResetDescendant, Advance, GoOn
  <2>2. g.op = "ResetOnly" /\ h.op = "TraverseNext"
    BY <1>0 DEF FrameType, Frame
  <2> QED
    BY <1>1, <2>1, <2>2
<1>7. CASE ResetNextDescendant
  <2> DEFINE g == [f EXCEPT !.op = "ResetChildren", !.curr = TraverseNext(f.curr, f.ctx)]
  <2>1. stack' = Tail(stack) \/ stack' = <<g>> \o Tail(stack)
    BY <1>7 DEF ResetNextDescendant, Return, Advance, GoOn
  <2>2. g.op = "ResetChildren" /\ ~Calling("ResetOnly")
    BY <1>0, <1>7 DEF FrameType, ResetNextDescendant, Calling
  <2> QED
    BY <1>0, <1>1, <2>1, <2>2
<1>8. CASE DeleteFirstChild
  <2> DEFINE g == Frame("Delete", firstchild[f.ctx])
  <2>1. stack' = Tail(stack) \/ stack' = <<g>> \o stack
    BY <1>8 DEF DeleteFirstChild, Return, Call, GoOn
  <2>2. g.op = "Delete" /\ ~Calling("ResetOnly")
    BY <1>8 DEF Frame, DeleteFirstChild, Calling
  <2> QED
    BY <1>0, <1>1, <2>1, <2>2
<1>9. CASE DescendToLeaf
  <2> DEFINE g == [f EXCEPT !.curr = firstchild[f.curr]]
  <2>1. stack' = <<g>> \o Tail(stack) /\ g.op = "Delete"
    BY <1>0, <1>9 DEF FrameType, DescendToLeaf, Advance, GoOn, Calling
  <2> QED
    BY <1>1, <2>1
<1>10. CASE DeleteLeafContext
  <2> DEFINE g == Frame("DeleteOnly", f.curr)
             h == [f EXCEPT !.op = "DeleteNext", !.up = parent[f.curr]]
  <2>1. stack' = <<g, h>> \o Tail(stack) /\ g.op = "DeleteOnly"
    BY <1>10 DEF Frame, DeleteLeafContext, GoOn
  <2> QED
    BY <1>1, <2>1
<1>11. CASE DeleteContinues
  <2> DEFINE g == [f EXCEPT !.op = "Delete", !.curr = f.up, !.up = NULL]
  <2>1. stack' = Tail(stack) \/ stack' = <<g>> \o Tail(stack)
    BY <1>11 DEF DeleteContinues, Return, Advance, GoOn
  <2>2. g.op = "Delete" /\ ~Calling("ResetOnly")
    BY <1>0, <1>11 DEF FrameType, DeleteContinues, Calling
  <2> QED
    BY <1>0, <1>1, <2>1, <2>2
<1> QED
  BY <1>2, <1>3, <1>4, <1>5, <1>6, <1>7, <1>8, <1>9, <1>10, <1>11 DEF LibraryStep, QuietStep

(* Every step. *)
LEMMA StepKeepsResetFound ==
  ASSUME LifecycleInv, ResetFound, [Next]_vars
  PROVE  ResetFound'
<1> SUFFICES ASSUME Calling("ResetReturn")'
             PROVE  isReset'[Head(stack').ctx]
  BY DEF ResetFound
<1>0. StackInv /\ isReset \in [Context -> BOOLEAN]
      /\ stack' # <<>> /\ Head(stack').op = "ResetReturn"
  BY DEF LifecycleInv, ContentTypes, Calling, Idle
<1>1. CASE UNCHANGED vars
  BY <1>0, <1>1 DEF vars, contentVars, ResetFound, Calling, Idle
<1>2. CASE OtherCall
  BY <1>0, <1>2 DEF OtherCall
<1>3. CASE stack' = stack /\ (Idle \/ Calling("Callback"))
  BY <1>0, <1>3 DEF Idle, Calling
<1>4. CASE stack' = Tail(stack) /\ ~Idle /\ (Calling("ResetOnly") => FinishResetOnly)
  <2>1. Head(stack).op = "ResetOnly" /\ Head(stack').ctx = Head(stack).ctx
    BY <1>0, <1>4, ReturnsTo
  <2>2. FinishResetOnly /\ Head(stack).ctx \in Context
    BY <1>0, <1>4, <2>1, CallingFacts DEF Calling
  <2> QED
    BY <1>0, <2>1, <2>2 DEF FinishResetOnly
<1>5. CASE RunCallback /\ Head(stack').op = "Callback"
  BY <1>0, <1>5
<1>6. CASE ResetDone
  BY <1>6 DEF ResetDone
<1> QED
  BY <1>0, <1>1, <1>2, <1>3, <1>4, <1>5, <1>6, ClientCallsOther, LibraryCallsOther DEF Next

(* An empty context has nothing to give back.                              *)
LEMMA ResetFindsNothing ==
  ASSUME LifecycleInv, ResetFound
  PROVE  ResetReturnsEmpty
<1> SUFFICES ASSUME Calling("ResetReturn")
             PROVE  LET c == Head(stack).ctx IN isReset[c] /\ ~used[c] /\ reset_cbs[c] = <<>>
  BY DEF ResetReturnsEmpty
<1>1. Head(stack).ctx \in live /\ isReset[Head(stack).ctx]
  BY CallingFacts DEF LifecycleInv, ResetFound
<1> QED
  BY <1>1 DEF LifecycleInv, EmptyMeansEmpty, FreelistInv, FreelistsOK

--------------------------------------------------------------------------------
(***************************************************************************)
(* A callback struct is on one list, and once: its `next` is the link.     *)
(***************************************************************************)
Members(s) == {s[i] : i \in DOMAIN s}

NoRepetition(s) == \A i, j \in DOMAIN s : s[i] = s[j] => i = j

OneList ==
  /\ \A c \in Context : NoRepetition(reset_cbs[c])
  /\ \A c, d \in Context : c # d => Members(reset_cbs[c]) \cap Members(reset_cbs[d]) = {}

(* A list that loses callbacks. *)
LEMMA PartKeepsOneList ==
  ASSUME ContentTypes, OneList, NEW c \in Context, NEW t,
         reset_cbs' = [reset_cbs EXCEPT ![c] = t],
         NoRepetition(t), Members(t) \subseteq Members(reset_cbs[c])
  PROVE  OneList'
<1>1. \A x \in Context : reset_cbs'[x] = IF x = c THEN t ELSE reset_cbs[x]
  BY DEF ContentTypes, ListPerContext
<1>2. \A x \in Context : NoRepetition(reset_cbs'[x]) /\ Members(reset_cbs'[x]) \subseteq Members(reset_cbs[x])
  BY <1>1 DEF OneList
<1> QED
  BY <1>2 DEF OneList

(* A list that is emptied. *)
LEMMA EmptyKeepsOneList ==
  ASSUME ContentTypes, OneList, NEW c \in Context, reset_cbs' = [reset_cbs EXCEPT ![c] = <<>>]
  PROVE  OneList'
<1>1. NoRepetition(<<>>) /\ Members(<<>>) = {}
  BY DEF NoRepetition, Members
<1> QED
  BY <1>1, PartKeepsOneList

(* The callback that goes is on no list any more.                          *)
LEMMA TailKeepsOneList ==
  ASSUME ContentTypes, OneList, NEW c \in Context, reset_cbs[c] # <<>>,
         reset_cbs' = [reset_cbs EXCEPT ![c] = Tail(reset_cbs[c])]
  PROVE  /\ OneList'
         /\ \A d \in Context : Head(reset_cbs[c]) \notin Members(reset_cbs'[d])
<1> DEFINE s == reset_cbs[c]
<1>1. s \in Seq(Callback) /\ s # <<>>
  BY DEF ContentTypes
<1>2. /\ Len(s) \in Nat \ {0} /\ DOMAIN s = 1..Len(s) /\ DOMAIN Tail(s) = 1..(Len(s) - 1)
      /\ \A i \in 1..(Len(s) - 1) : Tail(s)[i] = s[i + 1]
      /\ Head(s) = s[1]
  BY <1>1, Popped
<1>3. NoRepetition(s)
  BY DEF OneList
<1> HIDE DEF s
<1>4. NoRepetition(Tail(s))
  BY <1>2, <1>3 DEF NoRepetition
<1>5. Members(Tail(s)) \subseteq Members(s)
  BY <1>2 DEF Members
<1>6. Head(s) \notin Members(Tail(s)) /\ Head(s) \in Members(s)
  BY <1>2, <1>3 DEF NoRepetition, Members
<1>7. OneList'
  BY <1>4, <1>5, PartKeepsOneList DEF s
<1>8. \A x \in Context : reset_cbs'[x] = IF x = c THEN Tail(s) ELSE reset_cbs[x]
  BY DEF ContentTypes, ListPerContext, s
<1>9. \A d \in Context : d # c => Head(s) \notin Members(reset_cbs[d])
  BY <1>6 DEF OneList, s
<1> QED
  BY <1>6, <1>7, <1>8, <1>9 DEF s

(* A callback is unregistered. *)
LEMMA UnregisterKeepsOneList ==
  ASSUME ContentTypes, OneList, NEW c \in Context, NEW i \in DOMAIN reset_cbs[c],
         reset_cbs' = [reset_cbs EXCEPT ![c] =
                         SubSeq(reset_cbs[c], 1, i - 1)
                           \o SubSeq(reset_cbs[c], i + 1, Len(reset_cbs[c]))]
  PROVE  OneList'
<1> DEFINE s == reset_cbs[c]
           t == SubSeq(s, 1, i - 1) \o SubSeq(s, i + 1, Len(s))
<1>1. s \in Seq(Callback) /\ i \in DOMAIN s
  BY DEF ContentTypes
<1>2. /\ Len(s) \in Nat \ {0} /\ DOMAIN t = 1..(Len(s) - 1)
      /\ \A j \in 1..(Len(s) - 1) : t[j] = IF j < i THEN s[j] ELSE s[j + 1]
  BY <1>1, WithoutOne
<1>3. DOMAIN s = 1..Len(s) /\ i \in 1..Len(s) /\ NoRepetition(s)
  BY <1>1 DEF OneList
<1>4. reset_cbs' = [reset_cbs EXCEPT ![c] = t]
  OBVIOUS
<1> HIDE DEF s, t
<1>5. NoRepetition(t)
  <2> SUFFICES ASSUME NEW j \in DOMAIN t, NEW k \in DOMAIN t, t[j] = t[k]
               PROVE  j = k
    BY DEF NoRepetition
  <2> DEFINE at(n) == IF n < i THEN n ELSE n + 1
  <2>1. /\ j \in 1..(Len(s) - 1) /\ k \in 1..(Len(s) - 1)
        /\ at(j) \in DOMAIN s /\ at(k) \in DOMAIN s
    BY <1>2, <1>3
  <2>2. s[at(j)] = s[at(k)]
    BY <1>2, <2>1
  <2>3. at(j) = at(k)
    BY <1>3, <2>1, <2>2 DEF NoRepetition
  <2> QED
    BY <1>3, <2>1, <2>3
<1>6. Members(t) \subseteq Members(s)
  <2> SUFFICES ASSUME NEW j \in DOMAIN t
               PROVE  t[j] \in Members(s)
    BY DEF Members
  <2>1. j \in DOMAIN s /\ j + 1 \in DOMAIN s
    BY <1>2, <1>3
  <2> QED
    BY <1>2, <2>1 DEF Members
<1> QED
  BY <1>4, <1>5, <1>6, PartKeepsOneList DEF s

(* A callback that is on no list is registered. *)
LEMMA RegisterKeepsOneList ==
  ASSUME ContentTypes, OneList, NEW c \in Context, NEW cb \in Callback, ~Registered(cb),
         reset_cbs' = [reset_cbs EXCEPT ![c] = <<cb>> \o reset_cbs[c]]
  PROVE  OneList'
<1> DEFINE s == reset_cbs[c]
           t == <<cb>> \o s
<1>1. s \in Seq(Callback) /\ Len(s) \in Nat /\ DOMAIN s = 1..Len(s)
  BY DEF ContentTypes
<1>2. /\ DOMAIN t = 1..(Len(s) + 1) /\ t[1] = cb
      /\ \A i \in 2..(Len(s) + 1) : t[i] = s[i - 1]
  BY <1>1, Pushed
<1>3. \A x \in Context : reset_cbs'[x] = IF x = c THEN t ELSE reset_cbs[x]
  BY DEF ContentTypes, ListPerContext
<1>4. \A x \in Context : cb \notin Members(reset_cbs[x])
  BY DEF Registered, Members
<1>5. NoRepetition(s) /\ cb \notin Members(s)
  BY <1>4 DEF OneList
<1>6. \A d \in Context : d # c => Members(s) \cap Members(reset_cbs[d]) = {}
  BY DEF OneList
<1> HIDE DEF s, t
<1>7. \A i \in DOMAIN t : i = 1 \/ (i - 1 \in DOMAIN s /\ t[i] = s[i - 1] /\ t[i] # cb)
  BY <1>1, <1>2, <1>5 DEF Members
<1>8. NoRepetition(t)
  BY <1>1, <1>2, <1>5, <1>7 DEF NoRepetition
<1>9. Members(t) \subseteq Members(s) \cup {cb}
  BY <1>2, <1>7 DEF Members
<1>10. ASSUME NEW x \in Context, NEW d \in Context, x # d
       PROVE  Members(reset_cbs'[x]) \cap Members(reset_cbs'[d]) = {}
  <2>1. ASSUME NEW y \in Context, y # c
        PROVE  Members(t) \cap Members(reset_cbs[y]) = {}
    BY <1>4, <1>6, <1>9, <2>1
  <2>2. CASE x = c
    BY <1>3, <1>10, <2>1, <2>2
  <2>3. CASE d = c
    BY <1>3, <1>10, <2>1, <2>3
  <2>4. CASE x # c /\ d # c
    BY <1>3, <1>10, <2>4 DEF OneList
  <2> QED
    BY <2>2, <2>3, <2>4
<1>11. ASSUME NEW x \in Context
       PROVE  NoRepetition(reset_cbs'[x])
  BY <1>3, <1>8 DEF OneList
<1> QED
  BY <1>10, <1>11 DEF OneList

(* Every step. *)
LEMMA StepKeepsOneList ==
  ASSUME LifecycleInv, OneList, [Next]_vars
  PROVE  OneList'
<1>0. ContentTypes /\ live \subseteq Context
  BY DEF LifecycleInv, TreeInv, TreeTypeOK
<1>1. ASSUME NEW p \in Parents, NEW class \in Class, Recycle(p, class) \/ CreateFresh(p, class)
      PROVE  OneList'
  <2>1. PICK c \in Context : reset_cbs' = [reset_cbs EXCEPT ![c] = <<>>]
    BY <1>1, CreationIsCreate
  <2> QED
    BY <1>0, <2>1, EmptyKeepsOneList
<1>2. ASSUME NEW c \in live, NEW cb \in Callback, RegisterResetCallback(c, cb)
      PROVE  OneList'
  <2>1. ~Registered(cb) /\ reset_cbs' = [reset_cbs EXCEPT ![c] = <<cb>> \o reset_cbs[c]]
    BY <1>2 DEF RegisterResetCallback
  <2> QED
    BY <1>0, <2>1, RegisterKeepsOneList
<1>3. ASSUME NEW c \in live, NEW cb \in Callback, UnregisterResetCallback(c, cb)
      PROVE  OneList'
  <2>1. PICK i \in DOMAIN reset_cbs[c] :
          reset_cbs' = [reset_cbs EXCEPT ![c] =
                          SubSeq(reset_cbs[c], 1, i - 1)
                            \o SubSeq(reset_cbs[c], i + 1, Len(reset_cbs[c]))]
    BY <1>0, <1>3, UnregisterShortens
  <2> QED
    BY <1>0, <2>1, UnregisterKeepsOneList
<1>4. CASE RunCallback
  <2>1. Head(stack).ctx \in Context
    BY <1>4, CallingFacts DEF RunCallback, LifecycleInv
  <2> QED
    BY <1>0, <1>4, <2>1, TailKeepsOneList DEF RunCallback
<1>5. CASE reset_cbs' = reset_cbs
  BY <1>5 DEF OneList
<1> QED
  BY <1>1, <1>2, <1>3, <1>4, <1>5
  DEF Next, ClientOp, QuietClientOp, LibraryStep, QuietStep, OnlyTheCalls, vars, contentVars,
      CallbackReturns, ResetChildrenFirst, ResetSelf, ResetReturn, ResetDescendant,
      ResetNextDescendant, DeleteFirstChild, DescendToLeaf, DeleteLeafContext,
      DeleteContinues, StartReset, StartResetOnly, StartResetChildren, StartDelete,
      StartDeleteChildren, MoveContext, SwitchTo, Alloc, FinishResetOnly, FinishDeleteOnly

(* The action that CalledOnce is about.                                    *)
CalledWhileListed(c) ==
  /\ Len(stack') > Len(stack)
  /\ Head(stack') = Frame("Callback", c)
  /\ \E d \in Context : \E i \in DOMAIN reset_cbs'[d] :
        reset_cbs'[d][i] = Head(reset_cbs[c])

(* A callback is off its list before it is called. *)
LEMMA NotCalledWhileListed ==
  ASSUME LifecycleInv, OneList, [Next]_vars, NEW c \in Context
  PROVE  ~CalledWhileListed(c)
<1> SUFFICES ASSUME CalledWhileListed(c)
             PROVE  FALSE
  OBVIOUS
<1>1. /\ Len(stack') > Len(stack) /\ Head(stack') = Frame("Callback", c)
      /\ Head(stack').op = "Callback"
      /\ StackInv /\ stack \in Seq(FrameType) /\ Len(stack) \in Nat
  BY EmptyStack DEF CalledWhileListed, Frame, LifecycleInv, StackInv, StackOK, BodyOK
<1>2. stack' # stack
  BY <1>1
<1>3. ~(stack' = Tail(stack) /\ ~Idle)
  BY <1>1, Popped DEF Idle
<1>4. CASE ResetDone
  BY <1>1, <1>4 DEF ResetDone
<1>5. CASE OtherCall
  BY <1>1, <1>5 DEF OtherCall
<1>6. CASE RunCallback
  <2>1. Head(stack).ctx = c
    <3>1. stack' = <<Frame("Callback", Head(stack).ctx)>> \o stack
      BY <1>6 DEF RunCallback, Call, GoOn
    <3>2. Head(stack') = Frame("Callback", Head(stack).ctx)
      BY <1>1, <3>1, Headed
    <3> QED
      BY <1>1, <3>2 DEF Frame
  <2>2. \A d \in Context : Head(reset_cbs[c]) \notin Members(reset_cbs'[d])
    BY <1>6, <2>1, TailKeepsOneList DEF RunCallback, LifecycleInv
  <2> QED
    BY <2>2 DEF CalledWhileListed, Members
<1> QED
  BY <1>1, <1>2, <1>3, <1>4, <1>5, <1>6, ClientCallsOther, LibraryCallsOther DEF Next, vars

--------------------------------------------------------------------------------
(***************************************************************************)
(* The theorems, for every client that keeps to the rule "dying".          *)
(***************************************************************************)
(* The lifecycle invariant holds in every reachable state: tree, calls in  *)
(* progress, freelists and contents, whatever callbacks do.                *)
THEOREM LifecycleInvariant ==
  ASSUME "dying" \in Discipline
  PROVE  Spec => []LifecycleInv
<1>1. Init => LifecycleInv
  BY LifecycleInvInitially
<1>2. LifecycleInv /\ [Next]_vars => LifecycleInv'
  BY LifecycleInvStep
<1> QED
  BY <1>1, <1>2, PTL DEF Spec

(* Fields and variables keep their types; a freelist never holds more than *)
(* MAX_FREE_CONTEXTS headers (AllocSetDelete empties a full one first).    *)
THEOREM LifecycleTypesCorrect ==
  ASSUME "dying" \in Discipline
  PROVE  Spec => []LifecycleTypeOK
<1>1. LifecycleInv => LifecycleTypeOK
  BY LifecycleTypes
<1> QED
  BY <1>1, LifecycleInvariant, PTL

(* The loops of MemoryContextDelete, MemoryContextDeleteChildren and       *)
(* MemoryContextResetChildren hold no pointer to a deleted context that    *)
(* they will use when a callback returns.                                  *)
THEOREM CallsInProgressAreSafe ==
  ASSUME "dying" \in Discipline
  PROVE  Spec => []CallsTouchOnlyLive
<1>1. LifecycleInv => CallsTouchOnlyLive
  BY CallsAreSafe
<1> QED
  BY <1>1, LifecycleInvariant, PTL

(* What MemoryContextDeleteOnly asserts when it is entered is still true   *)
(* when it deletes the context, after all of its callbacks.                *)
THEOREM DeleteAssertionsHold ==
  ASSUME "dying" \in Discipline
  PROVE  Spec => []DeleteAssertions
<1>1. LifecycleInv => DeleteAssertions
  BY DeletionsAreSafe
<1> QED
  BY <1>1, LifecycleInvariant, PTL

(* A context marked isReset has neither space nor a callback to lose, so   *)
(* MemoryContextReset and AllocSetDelete may skip their work.              *)
THEOREM ResetMeansEmpty ==
  ASSUME "dying" \in Discipline
  PROVE  Spec => []EmptyMeansEmpty
<1>1. LifecycleInv => EmptyMeansEmpty
  BY DEF LifecycleInv
<1> QED
  BY <1>1, LifecycleInvariant, PTL

(* Every header from malloc is a live context or on exactly one freelist   *)
(* of its class, and num_free is the length of the list.                   *)
THEOREM FreelistsCorrect ==
  ASSUME "dying" \in Discipline
  PROVE  Spec => []FreelistsOK
<1>1. LifecycleInv => FreelistsOK
  BY DEF LifecycleInv, FreelistInv
<1> QED
  BY <1>1, LifecycleInvariant, PTL

(* No live context has a parent that MemoryContextDelete has deleted.      *)
THEOREM DeletionLeavesNoOrphans ==
  ASSUME "dying" \in Discipline
  PROVE  Spec => []NoOrphans
<1>1. LifecycleInv => NoOrphans
  BY ParentsLive
<1> QED
  BY <1>1, LifecycleInvariant, PTL

(* With the rule "resetting" as well, a context that MemoryContextReset    *)
(* returns for has no children (ChildOfReset.cfg shows the other case).    *)
THEOREM ResetDeletesChildren ==
  ASSUME "dying" \in Discipline, "resetting" \in Discipline
  PROVE  Spec => []ResetReturnsChildless
<1>1. LifecycleInv => ResetReturnsChildless
  BY ResetsFindNoChild
<1> QED
  BY <1>1, LifecycleInvariant, PTL

(* When MemoryContextReset returns the context is empty, although its own  *)
(* callbacks ran last and may have allocated in it or registered others.   *)
THEOREM ResetEmpties ==
  ASSUME "dying" \in Discipline
  PROVE  Spec => []ResetReturnsEmpty
<1>1. Init => ResetFound
  BY DEF Init, ResetFound, Calling, Idle
<1>2. LifecycleInv /\ ResetFound /\ [Next]_vars => ResetFound'
  BY StepKeepsResetFound
<1>3. LifecycleInv /\ ResetFound => ResetReturnsEmpty
  BY ResetFindsNothing
<1> QED
  BY <1>1, <1>2, <1>3, LifecycleInvariant, PTL DEF Spec

(* MemoryContextCallResetCallbacks takes a callback off the list before it *)
(* calls it, and no list holds it when it runs.                            *)
THEOREM CallbacksCalledOnce ==
  ASSUME "dying" \in Discipline
  PROVE  Spec => CalledOnce
<1>1. Init => OneList
  BY DEF Init, OneList, NoRepetition, Members
<1>2. LifecycleInv /\ OneList /\ [Next]_vars => OneList'
  BY StepKeepsOneList
<1>3. LifecycleInv /\ OneList /\ [Next]_vars
        => [\A c \in Context :
              (Len(stack') > Len(stack) /\ Head(stack') = Frame("Callback", c)) =>
                ~\E d \in Context : \E i \in DOMAIN reset_cbs'[d] :
                    reset_cbs'[d][i] = Head(reset_cbs[c])]_vars
  BY NotCalledWhileListed DEF CalledWhileListed
<1> QED
  BY <1>1, <1>2, <1>3, LifecycleInvariant, PTL DEF Spec, CalledOnce

(* Seen from the tree, the lifecycle only creates nodes, moves them to a   *)
(* parent that is not below them, and removes childless ones: the caller's *)
(* conditions that ContextTree relies on.                                  *)
THEOREM LifecycleImplementsTree ==
  ASSUME "dying" \in Discipline
  PROVE  Spec => TreeSpec
<1>1. Init => TreeInit
  BY DEF Init
<1>2. LifecycleInv /\ [Next]_vars => [TreeNext]_treeVars
  BY LifecycleStepIsTreeStep
<1> QED
  BY <1>1, <1>2, LifecycleInvariant, PTL DEF Spec, TreeSpec

================================================================================
