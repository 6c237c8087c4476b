--------------------------- MODULE ContextLifecycle ----------------------------
(***************************************************************************)
(* Creation, reset and deletion of memory contexts (mcxt.c, with the       *)
(* header side of AllocSetContextCreateInternal, AllocSetReset and         *)
(* AllocSetDelete in aset.c).                                              *)
(*                                                                         *)
(* The library runs on one thread, but a reset or a deletion calls the     *)
(* callbacks its client registered, in the middle of a walk over the tree, *)
(* and a callback may call the library again.  The C call stack is         *)
(* therefore part of the state: each frame is a call in progress with the  *)
(* local variables it reads again, and a step is what happens between two  *)
(* points at which client code can run.                                    *)
(***************************************************************************)
EXTENDS ContextTree, Sequences, Integers, FiniteSets

CONSTANTS
  Callback,        \* MemoryContextCallback structs the client has
  FreeLists,       \* the context_freelists whose sizes clients ask for
  MaxFreeContexts, \* MAX_FREE_CONTEXTS
  Subject,         \* bound: the contexts that clients allocate in
  MaxCallbackOps,  \* bound: what callbacks do during one call of the client
  Discipline       \* the rules of MayAdopt that the client keeps

ASSUME LifecycleAssumption ==
  /\ FreeLists \subseteq {0, 1}
  /\ MaxFreeContexts \in Nat \ {0}
  /\ Subject \subseteq Context
  /\ MaxCallbackOps \in Nat
  /\ Discipline \subseteq {"dying", "resetting"}

VARIABLES
  isReset,        \* header->isReset
  reset_cbs,      \* header->reset_cbs, first to run first
  used,           \* ghost: space was handed out since the last methods->reset
  freeListIndex,  \* AllocSetContext.freeListIndex
  first_free,     \* context_freelists[i].first_free
  num_free,       \* context_freelists[i].num_free
  malloced,       \* headers obtained from malloc and not yet freed
  current,        \* CurrentMemoryContext
  stack,          \* library calls in progress, the innermost first
  ops             \* what callbacks have done since the client's call began

contentVars == <<isReset, reset_cbs, used>>
freelistVars == <<freeListIndex, first_free, num_free, malloced>>
vars == <<treeVars, contentVars, freelistVars, current, stack, ops>>

--------------------------------------------------------------------------------
(* A call in progress: the function, its context, and the variables of its *)
(* loop (curr, and in MemoryContextDelete the saved parent, up).           *)
Frame(op, c) == [op |-> op, ctx |-> c, curr |-> c, up |-> NULL]

Idle == stack = <<>>
Calling(op) == ~Idle /\ Head(stack).op = op

OnlyTheCalls == UNCHANGED <<treeVars, contentVars, freelistVars, current>>

Calls == {stack[i] : i \in 1..Len(stack)}

--------------------------------------------------------------------------------
(***************************************************************************)
(* What the client must not do.  The code relies on these rules and tests  *)
(* only the last, by the assertions of MemoryContextDeleteOnly: a callback *)
(* may not delete or move a context (or one above it) that a call in       *)
(* progress was made for, the callback's own among them, and Top, Error    *)
(* and CurrentMemoryContext stay.  What a loop has in its local variables  *)
(* is not for the client to know, and no rule mentions it.                 *)
(***************************************************************************)
Held == {f.ctx : f \in Calls}
Protected == Held \cup {Top, Error}

Clearing == {f \in Calls : f.op \in {"Delete", "DeleteNext", "DeleteChildren"}}

(* Where CurrentMemoryContext may not go while a call deletes: to a context *)
(* that is to be deleted, nor with a context that moves to where the call  *)
(* still deletes children.                                                 *)
MaySwitch(c) ==
  \A f \in Clearing : c \in Subtree(f.ctx) => f.op = "DeleteChildren" /\ c = f.ctx

MayCarryCurrent(p) == \A f \in Clearing : p \notin Subtree(f.ctx)

MayDelete(c) == Subtree(c) \cap (Protected \cup {current}) = {}
MayDeleteChildren(c) == Below(c) \cap (Protected \cup {current}) = {}

MayMove(c, p) ==
  /\ Subtree(c) \cap Protected = {}
  /\ p \notin Subtree(c)
  /\ current \in Subtree(c) => MayCarryCurrent(p)

(* No child for a context whose deletion has checked that it has none, nor *)
(* for one whose reset has already deleted the children.                   *)
MayAdopt(p) ==
  /\ "dying" \in Discipline =>
       ~\E f \in Calls : f.op = "DeleteOnly" /\ f.ctx = p
  /\ "resetting" \in Discipline =>
       ~\E f \in Calls : f.op = "ResetReturn" /\ f.ctx = p

--------------------------------------------------------------------------------
(* The state that MemoryContextInit leaves. *)
Init ==
  /\ TreeInit
  /\ isReset = [c \in Context |-> TRUE]
  /\ reset_cbs = [c \in Context |-> <<>>]
  /\ used = [c \in Context |-> FALSE]
  /\ freeListIndex = [c \in Context |-> IF c = Top THEN 0 ELSE -1]
  /\ first_free = [i \in {0, 1} |-> NULL]
  /\ num_free = [i \in {0, 1} |-> 0]
  /\ malloced = {Top, Error}
  /\ current = Top
  /\ stack = <<>>
  /\ ops = 0

--------------------------------------------------------------------------------
(***************************************************************************)
(* Client operations, made by the program or by a callback it registered.  *)
(***************************************************************************)
ClientRuns ==
  /\ Idle \/ (Calling("Callback") /\ ops < MaxCallbackOps)
  /\ ops' = IF Idle THEN 0 ELSE ops + 1

(* The freeListIndex that the sizes of a new context give it. *)
Class == FreeLists \cup {-1}

(* AllocSetContextCreateInternal with a header from the freelist. *)
TakeFirstFreeUncounted(class) ==   \* mutant: num_free keeps its value
  /\ first_free' = [first_free EXCEPT ![class] = nextchild[first_free[class]]]
  /\ UNCHANGED num_free

TakeFirstFree(class) ==
  /\ first_free' = [first_free EXCEPT ![class] = nextchild[first_free[class]]]
  /\ num_free' = [num_free EXCEPT ![class] = @ - 1]

Recycle(p, class) ==
  /\ ClientRuns /\ MayAdopt(p)
  /\ class >= 0
  /\ first_free[class] # NULL
  /\ TakeFirstFree(class)
  /\ LET c == first_free[class] IN
       /\ CreateNode(c, p)
       /\ isReset' = [isReset EXCEPT ![c] = TRUE]
       /\ reset_cbs' = [reset_cbs EXCEPT ![c] = <<>>]
  /\ UNCHANGED <<used, freeListIndex, malloced, current, stack>>

(* AllocSetContextCreateInternal with a header from malloc. *)
CreateFresh(p, class) ==
  /\ ClientRuns /\ MayAdopt(p)
  /\ class >= 0 => first_free[class] = NULL
  /\ \E c \in Context \ malloced :
       /\ CreateNode(c, p)
       /\ malloced' = malloced \cup {c}
       /\ freeListIndex' = [freeListIndex EXCEPT ![c] = class]
       /\ isReset' = [isReset EXCEPT ![c] = TRUE]
       /\ reset_cbs' = [reset_cbs EXCEPT ![c] = <<>>]
       /\ used' = [used EXCEPT ![c] = FALSE]
  /\ UNCHANGED <<first_free, num_free, current, stack>>

(* MemoryContextAlloc and its variants: isReset is cleared first, then the *)
(* method may fail (MCXT_ALLOC_NO_OOM) or hand out space.                  *)
Alloc(c) ==
  /\ ClientRuns
  /\ isReset' = [isReset EXCEPT ![c] = FALSE]
  /\ used' \in {used, [used EXCEPT ![c] = TRUE]}
  /\ UNCHANGED <<treeVars, reset_cbs, freelistVars, current, stack>>

(* A callback struct is on one list at a time: its `next` is the link. *)
Registered(cb) == \E c \in Context : \E i \in DOMAIN reset_cbs[c] : reset_cbs[c][i] = cb

RegisterWhileReset(c, cb) ==   \* mutant: isReset is left alone
  /\ ClientRuns /\ ~Registered(cb)
  /\ reset_cbs' = [reset_cbs EXCEPT ![c] = <<cb>> \o @]
  /\ UNCHANGED <<treeVars, isReset, used, freelistVars, current, stack>>

RegisterResetCallback(c, cb) ==
  /\ ClientRuns /\ ~Registered(cb)
  /\ reset_cbs' = [reset_cbs EXCEPT ![c] = <<cb>> \o @]
  /\ isReset' = [isReset EXCEPT ![c] = FALSE]
  /\ UNCHANGED <<treeVars, used, freelistVars, current, stack>>

UnregisterResetCallback(c, cb) ==
  /\ ClientRuns
  /\ \E i \in DOMAIN reset_cbs[c] :
       /\ reset_cbs[c][i] = cb
       /\ reset_cbs' = [reset_cbs EXCEPT ![c] = SubSeq(@, 1, i - 1) \o SubSeq(@, i + 1, Len(@))]
  /\ UNCHANGED <<treeVars, isReset, used, freelistVars, current, stack>>

MoveContext(c, p) ==
  /\ ClientRuns /\ MayMove(c, p) /\ MayAdopt(p)
  /\ SetParent(c, p)
  /\ UNCHANGED <<live, contentVars, freelistVars, current, stack>>

SwitchTo(c) ==
  /\ ClientRuns /\ MaySwitch(c)
  /\ current' = c
  /\ UNCHANGED <<treeVars, contentVars, freelistVars, stack>>

(* The entries of the five calls that can run callbacks.  A context that   *)
(* is reset already, or has no child to reset, is left at once.            *)
StartReset(c) ==
  /\ ClientRuns /\ MayDeleteChildren(c)
  /\ stack' = <<Frame("Reset", c)>> \o stack
  /\ OnlyTheCalls

StartResetOnly(c) ==
  /\ ClientRuns
  /\ ~isReset[c]
  /\ stack' = <<Frame("ResetOnly", c)>> \o stack
  /\ OnlyTheCalls

StartResetChildren(c) ==
  /\ ClientRuns
  /\ firstchild[c] # NULL
  /\ stack' = <<[Frame("ResetChildren", c) EXCEPT !.curr = firstchild[c]]>> \o stack
  /\ OnlyTheCalls

StartDelete(c) ==
  /\ ClientRuns /\ MayDelete(c)
  /\ stack' = <<Frame("Delete", c)>> \o stack
  /\ OnlyTheCalls

StartDeleteChildren(c) ==
  /\ ClientRuns /\ MayDeleteChildren(c)
  /\ stack' = <<Frame("DeleteChildren", c)>> \o stack
  /\ OnlyTheCalls

Parents == (live \cap (Subject \cup {Top})) \cup {NULL}

(* What the client does that neither obtains memory nor gives it back. *)
QuietClientOp ==
  \/ \E c \in live \cap Subject, cb \in Callback : RegisterResetCallback(c, cb)
  \/ \E c \in live, cb \in Callback : UnregisterResetCallback(c, cb)
  \/ \E c \in live, p \in Parents : MoveContext(c, p)
  \/ \E c \in live \cap (Subject \cup {Top}) : SwitchTo(c)
  \/ \E c \in live : StartReset(c)
  \/ \E c \in live : StartResetOnly(c)
  \/ \E c \in live : StartResetChildren(c)
  \/ \E c \in live : StartDelete(c)
  \/ \E c \in live : StartDeleteChildren(c)

ClientOp ==
  \/ \E p \in Parents, class \in Class : Recycle(p, class)
  \/ \E p \in Parents, class \in Class : CreateFresh(p, class)
  \/ \E c \in live \cap Subject : Alloc(c)
  \/ QuietClientOp

--------------------------------------------------------------------------------
(* A step of the library leaves the calls s in progress; when the client's *)
(* own call has returned, its callbacks' count starts again.               *)
GoOn(s) ==
  /\ stack' = s
  /\ ops' = IF s = <<>> THEN 0 ELSE ops

Call(frame) == GoOn(<<frame>> \o stack)
Return == GoOn(Tail(stack))
Advance(frame) == GoOn(<<frame>> \o Tail(stack))

(***************************************************************************)
(* MemoryContextCallResetCallbacks, called by MemoryContextResetOnly and   *)
(* MemoryContextDeleteOnly: the callback leaves the list before it runs.   *)
(***************************************************************************)
RunCallbackInPlace ==   \* mutant: the callback stays on the list
  /\ Calling("ResetOnly") \/ Calling("DeleteOnly")
  /\ reset_cbs[Head(stack).ctx] # <<>>
  /\ Call(Frame("Callback", Head(stack).ctx))
  /\ OnlyTheCalls

RunCallback ==
  /\ Calling("ResetOnly") \/ Calling("DeleteOnly")
  /\ reset_cbs[Head(stack).ctx] # <<>>
  /\ reset_cbs' = [reset_cbs EXCEPT ![Head(stack).ctx] = Tail(@)]
  /\ Call(Frame("Callback", Head(stack).ctx))
  /\ UNCHANGED <<treeVars, isReset, used, freelistVars, current>>

CallbackReturns ==
  /\ Calling("Callback")
  /\ Return
  /\ OnlyTheCalls

(* The rest of MemoryContextResetOnly, once no callback is left. *)
FinishResetOnlyEarly ==   \* mutant: does not look for callbacks added meanwhile
  /\ Calling("ResetOnly")
  /\ used' = [used EXCEPT ![Head(stack).ctx] = FALSE]
  /\ isReset' = [isReset EXCEPT ![Head(stack).ctx] = TRUE]
  /\ Return
  /\ UNCHANGED <<treeVars, reset_cbs, freelistVars, current>>

FinishResetOnly ==
  /\ Calling("ResetOnly")
  /\ reset_cbs[Head(stack).ctx] = <<>>
  /\ used' = [used EXCEPT ![Head(stack).ctx] = FALSE]
  /\ isReset' = [isReset EXCEPT ![Head(stack).ctx] = TRUE]
  /\ Return
  /\ UNCHANGED <<treeVars, reset_cbs, freelistVars, current>>

(* MemoryContextReset: the children first, then the context itself. *)
ResetChildrenFirst ==
  /\ Calling("Reset")
  /\ LET f == Head(stack) IN
       GoOn(<<Frame("DeleteChildren", f.ctx), [f EXCEPT !.op = "ResetSelf"]>> \o Tail(stack))
  /\ OnlyTheCalls

ResetSelf ==
  /\ Calling("ResetSelf")
  /\ LET f == Head(stack)
         after == [f EXCEPT !.op = "ResetReturn"]
     IN  IF isReset[f.ctx] THEN Advance(after)
         ELSE GoOn(<<Frame("ResetOnly", f.ctx), after>> \o Tail(stack))
  /\ OnlyTheCalls

ResetReturn ==
  /\ Calling("ResetReturn")
  /\ Return
  /\ OnlyTheCalls

(***************************************************************************)
(* MemoryContextResetChildren: reset curr, and only then look for the next *)
(* context, in the tree as it is after curr's callbacks.                   *)
(***************************************************************************)
ResetDescendantLookingAhead ==   \* mutant: the next context is read before
  /\ Calling("ResetChildren")
  /\ LET f == Head(stack)
         next == TraverseNext(f.curr, f.ctx)
         after == IF next = NULL THEN Tail(stack)
                  ELSE <<[f EXCEPT !.curr = next]>> \o Tail(stack)
     IN  IF isReset[f.curr] THEN GoOn(after)
         ELSE GoOn(<<Frame("ResetOnly", f.curr)>> \o after)
  /\ OnlyTheCalls

ResetDescendant ==
  /\ Calling("ResetChildren")
  /\ LET f == Head(stack)
         after == [f EXCEPT !.op = "TraverseNext"]
     IN  IF isReset[f.curr] THEN Advance(after)
         ELSE GoOn(<<Frame("ResetOnly", f.curr), after>> \o Tail(stack))
  /\ OnlyTheCalls

ResetNextDescendant ==
  /\ Calling("TraverseNext")
  /\ LET f == Head(stack)
         next == TraverseNext(f.curr, f.ctx)
     IN  IF next = NULL THEN Return
         ELSE Advance([f EXCEPT !.op = "ResetChildren", !.curr = next])
  /\ OnlyTheCalls

(* MemoryContextDeleteChildren: as long as there is a first child. *)
DeleteOneChild ==   \* mutant: `if` where the code says `while`
  /\ Calling("DeleteChildren")
  /\ LET c == firstchild[Head(stack).ctx] IN
       IF c = NULL THEN Return ELSE Advance(Frame("Delete", c))
  /\ OnlyTheCalls

DeleteFirstChild ==
  /\ Calling("DeleteChildren")
  /\ LET c == firstchild[Head(stack).ctx] IN
       IF c = NULL THEN Return ELSE Call(Frame("Delete", c))
  /\ OnlyTheCalls

(***************************************************************************)
(* MemoryContextDelete: descend by first children to a leaf, remember its  *)
(* parent, delete it, go on from that parent.                              *)
(***************************************************************************)
DescendToLeaf ==
  /\ Calling("Delete")
  /\ LET f == Head(stack) IN
       /\ firstchild[f.curr] # NULL
       /\ Advance([f EXCEPT !.curr = firstchild[f.curr]])
  /\ OnlyTheCalls

DeleteLeafAtOnce ==   \* mutant: a context is deleted before its children
  /\ Calling("Delete")
  /\ LET f == Head(stack) IN
       GoOn(<<Frame("DeleteOnly", f.curr),
                  [f EXCEPT !.op = "DeleteNext", !.up = parent[f.curr]]>> \o Tail(stack))
  /\ OnlyTheCalls

DeleteLeafContext ==
  /\ Calling("Delete")
  /\ LET f == Head(stack) IN
       /\ firstchild[f.curr] = NULL
       /\ GoOn(<<Frame("DeleteOnly", f.curr),
                     [f EXCEPT !.op = "DeleteNext", !.up = parent[f.curr]]>> \o Tail(stack))
  /\ OnlyTheCalls

DeleteContinues ==
  /\ Calling("DeleteNext")
  /\ LET f == Head(stack) IN
       IF f.curr = f.ctx THEN Return
       ELSE Advance([f EXCEPT !.op = "Delete", !.curr = f.up, !.up = NULL])
  /\ OnlyTheCalls

(***************************************************************************)
(* AllocSetDelete: a context of a freelist class is reset, if it needs it, *)
(* and its header joins the list, which is emptied first when it is full;  *)
(* any other header goes back to malloc.  What a header given back held is *)
(* forgotten: no one can read it again.                                    *)
(***************************************************************************)
Chained(i) ==
  {x \in Context :
     \A S \in SUBSET Context :
       {first_free[i]} \cup {nextchild[y] : y \in S} \subseteq S \cup {NULL} => x \in S}

AddToFreelistUnbounded(c, i) ==   \* mutant: no limit
  /\ RemoveNode(c, first_free[i])
  /\ first_free' = [first_free EXCEPT ![i] = c]
  /\ num_free' = [num_free EXCEPT ![i] = @ + 1]
  /\ UNCHANGED malloced

AddToFreelist(c, i) ==
  LET full == num_free[i] >= MaxFreeContexts IN
  /\ RemoveNode(c, IF full THEN NULL ELSE first_free[i])
  /\ first_free' = [first_free EXCEPT ![i] = c]
  /\ num_free' = [num_free EXCEPT ![i] = IF full THEN 1 ELSE @ + 1]
  /\ malloced' = malloced \ (IF full THEN Chained(i) ELSE {})

FreeContext(c) ==
  /\ RemoveNode(c, NULL)
  /\ malloced' = malloced \ {c}
  /\ UNCHANGED <<first_free, num_free>>

AllocSetDelete(c) ==
  /\ used' = [used EXCEPT ![c] = FALSE]
  /\ isReset' = [isReset EXCEPT ![c] = TRUE]
  /\ IF freeListIndex[c] >= 0 THEN AddToFreelist(c, freeListIndex[c])
                              ELSE FreeContext(c)
  /\ freeListIndex' = [x \in Context |-> IF x \in malloced' THEN freeListIndex[x] ELSE -1]

(* The end of MemoryContextDeleteOnly, once no callback is left. *)
FinishDeleteOnlyEarly ==   \* mutant: does not look for callbacks added meanwhile
  /\ Calling("DeleteOnly")
  /\ AllocSetDelete(Head(stack).ctx)
  /\ Return
  /\ UNCHANGED <<reset_cbs, current>>

FinishDeleteOnly ==
  /\ Calling("DeleteOnly")
  /\ reset_cbs[Head(stack).ctx] = <<>>
  /\ AllocSetDelete(Head(stack).ctx)
  /\ Return
  /\ UNCHANGED <<reset_cbs, current>>

(* The steps of the library that leave the memory of every context alone. *)
QuietStep ==
  \/ RunCallback
  \/ CallbackReturns
  \/ ResetChildrenFirst
  \/ ResetSelf
  \/ ResetReturn
  \/ ResetDescendant
  \/ ResetNextDescendant
  \/ DeleteFirstChild
  \/ DescendToLeaf
  \/ DeleteLeafContext
  \/ DeleteContinues

LibraryStep ==
  \/ QuietStep
  \/ FinishResetOnly
  \/ FinishDeleteOnly

Next == ClientOp \/ LibraryStep

Spec == Init /\ [][Next]_vars

(* A call that has begun goes on, and a callback returns in the end: there *)
(* is one thread, and nothing in the library waits.                        *)
FairSpec == Spec /\ WF_vars(LibraryStep)

--------------------------------------------------------------------------------
(* The types; a freelist never holds more than MAX_FREE_CONTEXTS.          *)
LifecycleTypeOK ==
  /\ TreeTypeOK
  /\ isReset \in [Context -> BOOLEAN]
  /\ used \in [Context -> BOOLEAN]
  /\ \A c \in Context : reset_cbs[c] \in Seq(Callback)
  /\ freeListIndex \in [Context -> {-1, 0, 1}]
  /\ first_free \in [{0, 1} -> Pointer]
  /\ num_free \in [{0, 1} -> 0..MaxFreeContexts]
  /\ malloced \subseteq Context
  /\ current \in Context
  /\ ops \in 0..MaxCallbackOps

(***************************************************************************)
(* No call in progress will touch a deleted context when its callback      *)
(* returns, whatever the callback did: the loops of MemoryContextDelete,   *)
(* MemoryContextDeleteChildren and MemoryContextResetChildren hold         *)
(* pointers into a tree that changes under them.  CurrentMemoryContext and *)
(* ErrorContext are never deleted.                                         *)
(***************************************************************************)
WillTouch(f) ==
  CASE f.op = "Callback" -> {}
    [] f.op = "DeleteNext" -> IF f.curr = f.ctx THEN {} ELSE {f.ctx, f.up}
    [] OTHER -> {f.ctx, f.curr}

CallsTouchOnlyLive ==
  /\ \A f \in Calls : WillTouch(f) \subseteq live
  /\ {current, Error} \subseteq live

(***************************************************************************)
(* The assertions of MemoryContextDeleteOnly, from its entry until the     *)
(* context is gone: it is neither Top nor current and has no child, also   *)
(* after the callbacks, which the code does not look at again.             *)
(***************************************************************************)
DeleteAssertions ==
  \A f \in Calls : f.op = "DeleteOnly" =>
    f.ctx \in live \ {Top, current} /\ firstchild[f.ctx] = NULL

(***************************************************************************)
(* isReset is what MemoryContextReset and AllocSetDelete skip their work   *)
(* for, so it may be set only when there is none: no space to give back    *)
(* and no callback to run, in a context in use and in one on a freelist.   *)
(***************************************************************************)
EmptyMeansEmpty ==
  \A c \in malloced : isReset[c] => ~used[c] /\ reset_cbs[c] = <<>>

(***************************************************************************)
(* Every header that malloc gave out is either a live context or on        *)
(* exactly one freelist, each list holds deleted contexts of its own class *)
(* in the reset state, and num_free is the length of the list.             *)
(***************************************************************************)
FreelistsOK ==
  /\ malloced = live \cup Chained(0) \cup Chained(1)
  /\ live \cap (Chained(0) \cup Chained(1)) = {}
  /\ \A i \in {0, 1} :
       /\ num_free[i] = Cardinality(Chained(i))
       /\ \A c \in Chained(i) : freeListIndex[c] = i /\ isReset[c]

(***************************************************************************)
(* When MemoryContextReset returns, the context is empty although its own  *)
(* callbacks ran last and may have allocated in it or registered more.     *)
(***************************************************************************)
ResetReturnsEmpty ==
  Calling("ResetReturn") =>
    LET c == Head(stack).ctx IN isReset[c] /\ ~used[c] /\ reset_cbs[c] = <<>>

(* When MemoryContextReset returns, the context has no children left.      *)
ResetReturnsChildless ==
  Calling("ResetReturn") => firstchild[Head(stack).ctx] = NULL

(***************************************************************************)
(* No context goes away with a callback that was never called.             *)
(***************************************************************************)
NoCallbackLost == \A c \in Context \ live : reset_cbs[c] = <<>>

(***************************************************************************)
(* A callback is called once: by the time it runs, no list holds it, so a  *)
(* reset or deletion of the same context from inside it does not call it   *)
(* a second time.                                                          *)
(***************************************************************************)
CalledOnce ==
  [][\A c \in Context :
       (Len(stack') > Len(stack) /\ Head(stack') = Frame("Callback", c)) =>
         ~\E d \in Context : \E i \in DOMAIN reset_cbs'[d] :
             reset_cbs'[d][i] = Head(reset_cbs[c])]_vars

(* No deletion leaves a live context whose parent is gone.                 *)
NoOrphans == \A c \in live : parent[c] \in live \cup {NULL}

(* Every call returns in the end, callbacks included. *)
CallsReturn == ~Idle ~> Idle

================================================================================
