-------------------------- MODULE InstanceSideEffects --------------------------
(***************************************************************************)
(* The instance side-effect graph of DriverTracker.cpp: instanceMap, which *)
(* maps a canonical InstanceBody to its InstanceState (the non-canonical   *)
(* instances sharing it and the drivers made through its interface         *)
(* ports), and the two operations that fill it concurrently:               *)
(* noteNonCanonicalInstance and noteInterfacePortDriver.                   *)
(*                                                                         *)
(* Each operation runs on a worker task.  Its update of the InstanceState  *)
(* happens inside the concurrent map's per-key visitor and is one atomic   *)
(* step; the copy it takes there is replayed after the visitor returns,    *)
(* one applyInstanceSideEffect (one atomic addDriver) per step, while      *)
(* other tasks keep updating the map.  noteInterfacePortDriver then        *)
(* follows the port's connection to the parent body when that is itself    *)
(* an interface port.  Which symbol an application reaches                 *)
(* (retargetIfacePort) and what addDriver does with it are left to other   *)
(* modules: an application is recorded as the (instance, driver) pair.     *)
(***************************************************************************)
EXTENDS Naturals, Sequences, FiniteSets

CONSTANTS
    Bodies,          \* canonical instance bodies
    Instances,       \* non-canonical instances
    CanonicalBody,   \* CanonicalBody[i]: instance.getCanonicalBody()
    ParentPortBody,  \* ParentPortBody[b]: body of the interface port that b's
                     \* port is connected to, or NoBody
    NoBody,
    DriverIds,       \* drivers whose LSP went through an interface port
    DriverBody,      \* DriverBody[d]: body owning the port ref.path[0]
    Tasks,           \* worker tasks
    TaskOp           \* TaskOp[t]: the call task t makes

\* A (HierarchicalReference, ValueDriver) pair, the reference abstracted to
\* the body whose interface port it starts at (joined references start at
\* the parent body).
IfacePortDriver == [drv: DriverIds, body: Bodies]

\* The calls a task can make.
InstanceOp(i) == [op |-> "noteNonCanonicalInstance", inst |-> i]
DriverOp(d) == [op |-> "noteInterfacePortDriver", drv |-> d]

VARIABLES
    nonCanonical,   \* instanceMap[b].nonCanonicalInstances
    ifaceDrivers,   \* instanceMap[b].ifacePortDrivers
    pc,             \* task program counter
    cur,            \* noteInterfacePortDriver: the pair being noted
    snap,           \* the copy taken inside the visitor, not yet replayed
    applied         \* applyInstanceSideEffect calls, in order

vars == <<nonCanonical, ifaceDrivers, pc, cur, snap, applied>>

Init ==
    /\ nonCanonical = [b \in Bodies |-> {}]
    /\ ifaceDrivers = [b \in Bodies |-> {}]
    /\ pc = [t \in Tasks |-> "visit"]
    /\ cur = [t \in Tasks |->
                IF TaskOp[t].op = "noteInterfacePortDriver"
                THEN [drv |-> TaskOp[t].drv, body |-> DriverBody[TaskOp[t].drv]]
                ELSE CHOOSE x \in IfacePortDriver : TRUE]
    /\ snap = [t \in Tasks |-> {}]
    /\ applied = <<>>

-----------------------------------------------------------------------------
\* Mutant of VisitInstance: the instance is appended but the drivers
\* already noted on the body are not copied out for replay.
VisitInstanceNoReplay(t) ==
    LET i == TaskOp[t].inst
        b == CanonicalBody[i]
    IN  /\ pc[t] = "visit"
        /\ TaskOp[t].op = "noteNonCanonicalInstance"
        /\ nonCanonical' = [nonCanonical EXCEPT ![b] = @ \cup {i}]
        /\ snap' = [snap EXCEPT ![t] = {}]
        /\ pc' = [pc EXCEPT ![t] = "replay"]
        /\ UNCHANGED <<ifaceDrivers, cur, applied>>

\* noteNonCanonicalInstance, the visitor: append the instance and copy out
\* the drivers already noted on its canonical body.
VisitInstance(t) ==
    LET i == TaskOp[t].inst
        b == CanonicalBody[i]
    IN  /\ pc[t] = "visit"
        /\ TaskOp[t].op = "noteNonCanonicalInstance"
        /\ nonCanonical' = [nonCanonical EXCEPT ![b] = @ \cup {i}]
        /\ snap' = [snap EXCEPT ![t] = {<<i, x>> : x \in ifaceDrivers[b]}]
        /\ pc' = [pc EXCEPT ![t] = "replay"]
        /\ UNCHANGED <<ifaceDrivers, cur, applied>>

\* Mutant of VisitDriver: the pair is replayed onto every instance of the
\* design that shares the body, not onto those registered so far.
VisitDriverAllInstances(t) ==
    LET x == cur[t]
    IN  /\ pc[t] = "visit"
        /\ TaskOp[t].op = "noteInterfacePortDriver"
        /\ ifaceDrivers' = [ifaceDrivers EXCEPT ![x.body] = @ \cup {x}]
        /\ snap' = [snap EXCEPT ![t] =
                        {<<i, x>> : i \in {j \in Instances : CanonicalBody[j] = x.body}}]
        /\ pc' = [pc EXCEPT ![t] = "replay"]
        /\ UNCHANGED <<nonCanonical, cur, applied>>

\* noteInterfacePortDriver, the visitor: append the pair and copy out the
\* non-canonical instances already noted on the body.
VisitDriver(t) ==
    LET x == cur[t]
    IN  /\ pc[t] = "visit"
        /\ TaskOp[t].op = "noteInterfacePortDriver"
        /\ ifaceDrivers' = [ifaceDrivers EXCEPT ![x.body] = @ \cup {x}]
        /\ snap' = [snap EXCEPT ![t] = {<<i, x>> : i \in nonCanonical[x.body]}]
        /\ pc' = [pc EXCEPT ![t] = "replay"]
        /\ UNCHANGED <<nonCanonical, cur, applied>>

\* One applyInstanceSideEffect of the copied-out list, after the visitor.
ApplySideEffect(t) ==
    /\ pc[t] = "replay"
    /\ \E p \in snap[t] :
          /\ applied' = Append(applied, p)
          /\ snap' = [snap EXCEPT ![t] = @ \ {p}]
    /\ UNCHANGED <<nonCanonical, ifaceDrivers, pc, cur>>

\* The replay loop is over and there is nothing more to follow.
Finish(t) ==
    /\ pc[t] = "replay"
    /\ snap[t] = {}
    /\ \/ TaskOp[t].op = "noteNonCanonicalInstance"
       \/ ParentPortBody[cur[t].body] = NoBody
    /\ pc' = [pc EXCEPT ![t] = "done"]
    /\ UNCHANGED <<nonCanonical, ifaceDrivers, cur, snap, applied>>

\* Mutant of FollowConnection: the connection is followed without checking
\* that it is an interface-port reference.
FollowConnectionUnchecked(t) ==
    /\ pc[t] = "replay"
    /\ snap[t] = {}
    /\ TaskOp[t].op = "noteInterfacePortDriver"
    /\ cur' = [cur EXCEPT ![t].body = ParentPortBody[@]]
    /\ pc' = [pc EXCEPT ![t] = "visit"]
    /\ UNCHANGED <<nonCanonical, ifaceDrivers, snap, applied>>

\* The port's connection is an ArbitrarySymbol via another interface port:
\* note the joined reference on the parent body.
FollowConnection(t) ==
    /\ pc[t] = "replay"
    /\ snap[t] = {}
    /\ TaskOp[t].op = "noteInterfacePortDriver"
    /\ ParentPortBody[cur[t].body] # NoBody
    /\ cur' = [cur EXCEPT ![t].body = ParentPortBody[@]]
    /\ pc' = [pc EXCEPT ![t] = "visit"]
    /\ UNCHANGED <<nonCanonical, ifaceDrivers, snap, applied>>

Next ==
    \E t \in Tasks :
        \/ VisitInstance(t)
        \/ VisitDriver(t)
        \/ ApplySideEffect(t)
        \/ Finish(t)
        \/ FollowConnection(t)

\* A task is never blocked for long: the visitors hold a per-entry lock
\* only for a list append and a copy, so each task is weakly fair.
Fairness == \A t \in Tasks : WF_vars(VisitInstance(t) \/ VisitDriver(t) \/ ApplySideEffect(t)
                                      \/ Finish(t) \/ FollowConnection(t))

Spec == Init /\ [][Next]_vars /\ Fairness

-----------------------------------------------------------------------------
TypeOK ==
    /\ nonCanonical \in [Bodies -> SUBSET Instances]
    /\ ifaceDrivers \in [Bodies -> SUBSET IfacePortDriver]
    /\ pc \in [Tasks -> {"visit", "replay", "done"}]
    /\ cur \in [Tasks -> IfacePortDriver]
    /\ snap \in [Tasks -> SUBSET (Instances \X IfacePortDriver)]
    /\ applied \in Seq(Instances \X IfacePortDriver)

\* The side effects every instance must receive: each driver noted on a
\* body, on each non-canonical instance of that body.
Owed == {<<i, x>> \in Instances \X IfacePortDriver :
            i \in nonCanonical[x.body] /\ x \in ifaceDrivers[x.body]}

\* Whatever the interleaving of instance registrations and interface-port
\* drivers on the same canonical body, no side effect is applied twice to
\* the same instance (each is replayed by exactly one of the two visitors).
NoDuplicateSideEffect ==
    \A k, l \in DOMAIN applied : k < l => applied[k] # applied[l]

\* Eventually every non-canonical instance has received every driver noted
\* on its canonical body, including those noted through a chain of
\* interface ports on the parent bodies.
EventuallyAllApplied ==
    <>[](\A p \in Owed : \E k \in DOMAIN applied : applied[k] = p)
=============================================================================
