---------------------------- MODULE DriverTracker ----------------------------
(***************************************************************************)
(* The driver index and the instance side-effect graph together: a driver  *)
(* made through an interface port is added to the symbol it reaches in the *)
(* canonical body (add(AnalyzedProcedure)), noted on the body's            *)
(* InstanceState (noteInterfacePortDriver), and each replay of a noted     *)
(* pair onto a non-canonical instance (applyInstanceSideEffect) is an      *)
(* addDriver of a clone of the driver on the symbol the reference reaches  *)
(* in that instance.  Drivers that do not go through an interface port are *)
(* added by tasks of their own.                                            *)
(*                                                                         *)
(* Each addDriver is one step of DriverMap, each instanceMap visitor and   *)
(* each replay one step of InstanceSideEffects; the worker tasks           *)
(* interleave freely.  retargetIfacePort is given as a table here (its     *)
(* path walk is the module RetargetIfacePort).                             *)
(***************************************************************************)
EXTENDS Naturals, Sequences, FiniteSets, Bags
LOCAL INSTANCE SequencesExt

CONSTANTS
    Symbols, SymInfo, Containers, AllowDupInitialDrivers, MaxAdds,
    Bodies, Instances, CanonicalBody, ParentPortBody, NoBody,
    DriverIds, DriverBody,
    NoteTasks,     \* tasks that note an instance or an interface-port driver
    TaskOp,        \* TaskOp[t], t \in NoteTasks: the call it makes
    Origin,        \* Origin[d]: the addDriver of d in the canonical body,
                   \* [sym, drv, lo, hi]
    DirectTasks,   \* tasks making one front-end call whose driver does not
                   \* go through an interface port
    Direct,        \* Direct[t]: that call, [sym, call, lo, hi]
    Retarget,      \* Retarget[<<d, i>>]: retargetIfacePort(d's ref, i)
    NoSym          \* retargetIfacePort returned nullptr

VARIABLES
    driverMap, modportPortDrivers, diags, submitted, adds,
    nonCanonical, ifaceDrivers, pc, cur, snap, applied,
    added          \* tasks whose add(...) visitor over symbolDrivers has run

dmVars == <<driverMap, modportPortDrivers, diags, submitted, adds>>
iseVars == <<nonCanonical, ifaceDrivers, pc, cur, snap, applied>>
vars == <<dmVars, iseVars, added>>

NoUniverse(s) == {}
DM == INSTANCE DriverMap WITH DriverUniverse <- NoUniverse
ISE == INSTANCE InstanceSideEffects WITH Tasks <- NoteTasks

-----------------------------------------------------------------------------
(***************************************************************************)
(* The add(...) front ends.  A call is a record: fe names the overload,    *)
(* dir the port or clock var direction, cont the containing symbol the     *)
(* overload passes on.  The LHS decomposition (visitLSPs, getBounds) is    *)
(* abstracted to the one (sym, lo, hi) of the task.                        *)
(***************************************************************************)
NoDriver == [kind |-> "None"]

ContinuousDriver(flags, c) ==
    [kind |-> "Continuous", flags |-> flags, source |-> "Other", cont |-> c,
     viaIface |-> FALSE, fromSE |-> FALSE]

\* Mutant of PortConnectionDriver: the input-direction early return dropped.
PortConnectionDriverInputs(c) ==
    IF c.bad \/ c.iface THEN NoDriver
    ELSE ContinuousDriver(IF c.dir = "Out" THEN {"OutputPort"} ELSE {}, c.cont)

\* add(PortConnection, containingSymbol): nothing for a bad expression, an
\* interface port or an input port; OutputPort for an output port.
PortConnectionDriver(c) ==
    IF c.bad \/ c.iface \/ c.dir = "In" THEN NoDriver
    ELSE ContinuousDriver(IF c.dir = "Out" THEN {"OutputPort"} ELSE {}, c.cont)

\* Mutant of PortSymbolDriver: an inout port flagged as an input port.
PortSymbolDriverInOut(c) ==
    IF c.dir \notin {"In", "InOut"} THEN NoDriver
    ELSE ContinuousDriver({"InputPort"}, c.cont)

\* add(PortSymbol): the port drives its internal expression, for input and
\* inout ports only; InputPort for an input port.
PortSymbolDriver(c) ==
    IF c.dir \notin {"In", "InOut"} THEN NoDriver
    ELSE ContinuousDriver(IF c.dir = "In" THEN {"InputPort"} ELSE {}, c.cont)

\* add(ClockVarSymbol): nothing for an input clock var or one without an
\* initializer; ClockVar otherwise.
ClockVarDriver(c) ==
    IF c.dir = "In" \/ ~c.hasInit THEN NoDriver ELSE ContinuousDriver({"ClockVar"}, c.cont)

\* The driver a front-end call hands to addDriver, or NoDriver.
FrontEndDriver(c) ==
    CASE c.fe = "PortConnection" -> PortConnectionDriver(c)
      [] c.fe = "PortSymbol"     -> PortSymbolDriver(c)
      [] c.fe = "ClockVar"       -> ClockVarDriver(c)
      [] c.fe = "Expression"     -> ContinuousDriver({}, c.cont)
      [] OTHER                   -> c.drv  \* add(AnalyzedProcedure), add(symbolDriverList)

\* The driver tasks among the note tasks, and the driver each one adds.
DriverTasks == {t \in NoteTasks : TaskOp[t].op = "noteInterfacePortDriver"}
AddTasks == DriverTasks \cup DirectTasks
Work(t) ==
    IF t \in DirectTasks
    THEN [sym |-> Direct[t].sym, drv |-> FrontEndDriver(Direct[t].call),
          lo |-> Direct[t].lo, hi |-> Direct[t].hi]
    ELSE Origin[TaskOp[t].drv]

-----------------------------------------------------------------------------
\* Mutant of SideEffectTarget: the clone is added to the symbol the driver
\* reached in the canonical body instead of the retargeted one.
SideEffectTargetCanonical(d, i) == Origin[d].sym

\* The symbol applyInstanceSideEffect drives in instance i.
SideEffectTarget(d, i) == Retarget[<<d, i>>]

\* Mutant of CloneDriver: the clone keeps the original containingSymbol.
CloneKeepsContainer(d, i) == [Origin[d].drv EXCEPT !.fromSE = TRUE]

\* Mutant of CloneDriver: the clone is attributed to the instance's body
\* rather than to the instance symbol.
CloneBodyContainer(d, i) == [Origin[d].drv EXCEPT !.cont = CanonicalBody[i], !.fromSE = TRUE]

\* The copy of d's ValueDriver applyInstanceSideEffect makes for instance i.
CloneDriver(d, i) == [Origin[d].drv EXCEPT !.cont = i, !.fromSE = TRUE]

\* add(AnalyzedProcedure) (or a front end that ends in addDrivers): the
\* symbolDrivers visitor runs addDriver for the task's driver.
AddProcedure(t) ==
    /\ t \in AddTasks \ added
    /\ IF Work(t).drv = NoDriver
       THEN UNCHANGED dmVars
       ELSE DM!AddDriver(Work(t).sym, Work(t).drv, Work(t).lo, Work(t).hi)
    /\ added' = added \cup {t}
    /\ UNCHANGED iseVars

\* noteNonCanonicalInstance, the instanceMap visitor.
NoteInstance(t) ==
    /\ ISE!VisitInstance(t)
    /\ UNCHANGED <<dmVars, added>>

\* noteInterfacePortDriver for a reference addDriver returned: only after
\* the symbolDrivers visitor has returned.
NoteDriver(t) ==
    /\ t \in added
    /\ DM!IfacePortRef(Work(t).sym, Work(t).drv)
    /\ ISE!VisitDriver(t)
    /\ UNCHANGED <<dmVars, added>>

\* applyInstanceSideEffect of one copied-out pair <<i, x>>: retarget, clone
\* with containingSymbol := i and isFromSideEffect, and addDriver the clone
\* (getBounds on the target's type gives the original bounds: every
\* retargeted symbol has the canonical one's type).
ApplyInstanceSideEffect(t) ==
    /\ ISE!ApplySideEffect(t)
    /\ LET p   == applied'[Len(applied')]
           d   == p[2].drv
           tgt == SideEffectTarget(d, p[1])
       IN  IF tgt = NoSym
           THEN UNCHANGED dmVars
           ELSE DM!AddDriver(tgt, CloneDriver(d, p[1]), Origin[d].lo, Origin[d].hi)
    /\ UNCHANGED added

\* The end of a note call, or the recursive note on the parent body.
FinishNote(t) ==
    /\ ISE!Finish(t)
    /\ UNCHANGED <<dmVars, added>>

FollowConnection(t) ==
    /\ ISE!FollowConnection(t)
    /\ UNCHANGED <<dmVars, added>>

Init ==
    /\ DM!Init
    /\ ISE!Init
    /\ added = {}

Next ==
    \/ \E t \in AddTasks : AddProcedure(t)
    \/ \E t \in NoteTasks :
          \/ NoteInstance(t)
          \/ NoteDriver(t)
          \/ ApplyInstanceSideEffect(t)
          \/ FinishNote(t)
          \/ FollowConnection(t)

\* Every step of task t: its add, then (a driver task) its note, replays
\* and the note on the parent body.
TaskStep(t) ==
    \/ AddProcedure(t)
    \/ /\ t \in NoteTasks
       /\ \/ NoteInstance(t) \/ NoteDriver(t) \/ ApplyInstanceSideEffect(t)
          \/ FinishNote(t) \/ FollowConnection(t)

Spec == Init /\ [][Next]_vars

\* A worker task waits only on the per-key visitors of symbolDrivers and
\* instanceMap, held for one addDriver or one list update: each task that
\* can take a step eventually does.
Fairness == \A t \in AddTasks \cup NoteTasks : WF_vars(TaskStep(t))

-----------------------------------------------------------------------------
TypeOK ==
    /\ DM!TypeOK
    /\ ISE!TypeOK
    /\ added \subseteq AddTasks

\* Every task has finished: all side effects have been replayed.
Quiescent ==
    /\ AddTasks \subseteq added
    /\ \A t \in NoteTasks : pc[t] = "done"

(***************************************************************************)
(* Reference: the drivers the design gives each symbol, from the workload  *)
(* alone.  A driver noted on a body is projected onto every registered     *)
(* non-canonical instance of that body and of the bodies its port chain    *)
(* reaches, as a copy whose containing symbol is the instance.            *)
(***************************************************************************)
RECURSIVE PortChain(_, _)
PortChain(b, n) ==
    IF b = NoBody \/ n = 0 THEN {} ELSE {b} \cup PortChain(ParentPortBody[b], n - 1)

Registered == {TaskOp[t].inst : t \in NoteTasks \ DriverTasks}
Noted == {TaskOp[t].drv : t \in DriverTasks}

\* The flags of the driver a front-end call makes (spec.md 4.2): one set of
\* flags, or none when the call makes no driver.
RefFrontEndFlags(c) ==
    CASE c.fe = "PortConnection" ->
            IF c.bad \/ c.iface \/ c.dir = "In" THEN {}
            ELSE {{f \in {"OutputPort"} : c.dir = "Out"}}
      [] c.fe = "PortSymbol" ->
            IF c.dir \in {"In", "InOut"} THEN {{f \in {"InputPort"} : c.dir = "In"}} ELSE {}
      [] c.fe = "ClockVar" ->
            IF c.dir # "In" /\ c.hasInit THEN {{"ClockVar"}} ELSE {}
      [] OTHER -> {{}}

\* The driver a direct task contributes, if any.
RefDirect(t) ==
    LET c == Direct[t].call
    IN  IF c.fe \in {"Procedure", "DriverList"} THEN {c.drv}
        ELSE {[kind |-> "Continuous", flags |-> fl, source |-> "Other", cont |-> c.cont,
               viaIface |-> FALSE, fromSE |-> FALSE] : fl \in RefFrontEndFlags(c)}

\* The symbol a task adds to, and the entries it adds there.
RefSym(t) == IF t \in DirectTasks THEN Direct[t].sym ELSE Origin[TaskOp[t].drv].sym
RefOwn(t) ==
    IF t \in DirectTasks
    THEN {[drv |-> d, lo |-> Direct[t].lo, hi |-> Direct[t].hi] : d \in RefDirect(t)}
    ELSE {[drv |-> Origin[TaskOp[t].drv].drv, lo |-> Origin[TaskOp[t].drv].lo,
           hi |-> Origin[TaskOp[t].drv].hi]}

RefClone(d, i) == [Origin[d].drv EXCEPT !.cont = i, !.fromSE = TRUE]

\* Every driver s receives, tagged by where it comes from.
Contribs(s) ==
    LET own    == UNION {{[tag |-> <<"add", t>>, e |-> x] : x \in RefOwn(t)} :
                             t \in {u \in AddTasks : RefSym(u) = s}}
        clones == {[tag |-> <<"clone", d, i>>,
                    e |-> [drv |-> RefClone(d, i), lo |-> Origin[d].lo, hi |-> Origin[d].hi]] :
                      <<d, i>> \in {<<d, i>> \in Noted \X Registered :
                                      /\ CanonicalBody[i] \in PortChain(DriverBody[d], Cardinality(Bodies))
                                      /\ Retarget[<<d, i>>] = s}}
        init   == IF own \cup clones # {} /\ SymInfo[s].hasInit
                  THEN {[tag |-> <<"init">>, e |-> DM!RefInitializer(s)]} ELSE {}
    IN  own \cup clones \cup init

\* The contributions of s as a multiset of map entries.
RefBag(s) ==
    LET C == Contribs(s)
    IN  [e \in {c.e : c \in C} |-> Cardinality({c \in C : c.e = e})]

\* Whatever the interleaving of the worker tasks (instances registered
\* before or after the drivers are noted, side effects replayed while
\* other drivers arrive), once every task is done getDrivers(s) holds, as a
\* multiset, exactly the drivers the design gives s: its own drivers, one
\* copy of each interface-port driver per non-canonical instance whose port
\* reaches s (through chained interface ports too), and its initializer.
FinalDriversMatchDesign ==
    Quiescent => \A s \in Symbols : ToBag(DM!GetDrivers(s)) = RefBag(s)

\* Once every task is done, an error has been reported on s exactly when
\* two of the drivers the design gives s overlap illegally, a side-effect
\* copy counting as a driver of its instance: copies of two procedures of
\* one canonical body into the same instance never conflict with each
\* other (their conflict is reported on the canonical target), while a copy
\* conflicts with the drivers of any other instance or procedure.
FinalVerdict ==
    Quiescent =>
        \A s \in Symbols :
            (\E x \in diags : x.sym = s /\ x.code \in DM!ErrorCodes)
            <=> \E a, b \in Contribs(s) :
                    /\ a.tag # b.tag
                    /\ DM!Overlaps(a.e, b.e.lo, b.e.hi)
                    /\ DM!RefIllegal(s, a.e.drv, b.e.drv)
=============================================================================
