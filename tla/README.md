# TLA+ models of slang's DriverTracker

This directory holds TLA+ models of `src/source/analysis/DriverTracker.cpp`. That is
slang's central record of which bits of which symbol are driven, and from where.
Every module is translated from that file. Where the code calls into headers that
are not in this repository (`ValueDriver`, the interval map, the concurrent map),
the model follows `spec.md`, and PROJECT.json marks those definitions
`spec_modelled`.

## 1. Inventory

### Components

| Component | Code | State it keeps | Operations that change state |
|---|---|---|---|
| **Driver index** (IntervalDriverMap + `addDriver`) | `addDriver` 377-524, `handleOverlap` 251-375, `getDrivers` 235-242 | `symbolDrivers`: symbol → interval map of `(ValueDriver*, bounds)`; diagnostics go to the `AnalysisContext` | `addDriver`: skips class types, sends modport ports to the side table, synthesizes the initializer driver on the first insert, scans the overlapping entries, then inserts |
| **Ingestion front ends** | `add(...)` overloads 21-126, `addDrivers` 201-233 | none of their own | filter the port direction and flags, then decompose the LHS (`visitLSPs`, `getBounds`) into `addDriver` calls. Drivers that went through an interface port are collected, and `noteInterfacePortDriver` is called for them after the visitor returns |
| **Instance side-effect graph** | `noteNonCanonicalInstance` 128-145, `noteInterfacePortDriver` 526-562, `applyInstanceSideEffect` 679-701 | `instanceMap`: canonical body → `{nonCanonicalInstances, ifacePortDrivers}` | register an instance or a driver inside the visitor, copy out the other list, and replay it after the visitor returns. Chained interface ports are followed to the parent body |
| **retargetIfacePort** | 564-677 | none (a pure function) | walks a hierarchical path from another instance's port: interface-port connections, instance arrays, range and index selects, generate arrays, modport lookup |
| **Modport propagator** | `propagateModportDrivers` 147-161, `propagateModportDriver` 163-199 | `modportPortDrivers`: modport port → drivers | swaps the table out, splices each driver's outer select onto the connection expression and re-adds it, and repeats until the table is empty |

### How the parts interact

Worker tasks call the `add(...)` front ends concurrently. Each front end ends in
`addDriver`, which runs inside `symbolDrivers.try_emplace_and_visit`. That is a
per-key exclusive visitor, so one `addDriver` is atomic with respect to its symbol.

`addDriver` returns the interface-port reference of a driver whose LSP (longest
static prefix) went through an interface port. The caller passes it to
`noteInterfacePortDriver` after the visitor has returned. That call updates
`instanceMap` under that map's own per-key visitor, and then calls back into
`addDriver`, through `applyInstanceSideEffect`, for each non-canonical instance it
copied out. The driver copies it adds are marked `isFromSideEffect`, which stops
any further fan-out.

`addDriver` on a modport port appends to `modportPortDrivers`.
`propagateModportDrivers`, called once all ingestion is done, drains that table
back into `addDrivers`.

### Hard behaviours

* **Arrival order.** Drivers of one symbol arrive in any order from many tasks.
  The overlap scan runs once for each new driver, against the drivers already
  stored. It stops at the first error. The initializer driver is synthesized only
  when the map is empty.
* **Copy-then-replay.** The two `instanceMap` operations copy a list out under the
  lock and replay it after unlocking. Meanwhile other tasks register instances and
  drivers on the same body.
* **Recursion.** Chained interface ports are followed recursively. The
  `isFromSideEffect` flag breaks the cycle.
* **Modport fixed point.** The propagation loop has no bound of its own.
* **Boundaries.** Path walking (`retargetIfacePort`) has index and range
  boundaries.

### What makes each part correct

* **Driver index.** These must hold whatever the arrival order:
  * no driver is lost;
  * the initializer is counted exactly once;
  * an error is reported exactly when the symbol's drivers contain an illegal
    overlapping pair;
  * the diagnostic code names the right port direction.
* **Side-effect graph.** Every (non-canonical instance, interface-port driver)
  pair is applied exactly once, whatever the interleaving. A side effect never
  fans out again.
* **retargetIfacePort.** It finds the same member in the other instance, or
  nothing. It never indexes out of range.
* **Modport propagator.** It terminates. Afterwards the table is empty, and every
  driver has reached the end of its connection chain.

## 2. Modules

| Module | Models | State and actions |
|---|---|---|
| `DriverMap` | `addDriver`, `handleOverlap`, `getDrivers` | `driverMap` (per-symbol entries in storage order), `modportPortDrivers`, `diags`. One action, `AddDriver`, has three outcomes: the class skip, the modport side table, and the insert (initializer seeding, then the overlap scan with its early break, then the append). |
| `InstanceSideEffects` | `instanceMap`, `noteNonCanonicalInstance`, `noteInterfacePortDriver` | Per-task program counters. The visitor step appends to the list and copies out the other list. Each replay is its own step. Chained ports are followed to the parent body. |
| `DriverTracker` | the composition, plus the `add(...)` front ends | Instantiates `DriverMap` and `InstanceSideEffects`. Task kinds: <br>• a direct task is one front-end call, and `FrontEndDriver` decides the driver's flags or that the call makes no driver; <br>• a driver task is `add(AnalyzedProcedure)` of a driver through an interface port, whose `noteInterfacePortDriver` runs only after its add; <br>• replaying a side effect is `addDriver` of a clone on the retargeted symbol, with `containingSymbol := instance` and `isFromSideEffect`. <br>`retargetIfacePort` is a table here. |
| `RetargetIfacePort` | `retargetIfacePort` | No state. The walk is a set of RECURSIVE operators over an elaborated design that is given by its accessors. Ranges use `size_t` arithmetic modulo 2^16, with `subspan`'s precondition. |
| `ModportPropagation` | `propagateModportDrivers`, `propagateModportDriver` | The loop's pc, the shared table, the swapped-out copy, and the drivers that reached real symbols. |
| `TrackerLifecycle` | a whole analysis: ingestion, then `propagateModportDrivers` | Instantiates `DriverTracker` and adds `phase` and `localCopy`. `Ingest` is any worker step; `Swap` (guarded by every task being done) swaps the table out and breaks on an empty copy; `PropagateDriver` drops a port's list when it has no connection expression, or re-adds its next driver with `DriverMap`'s `AddDriver` on the connection (so a re-add can land on another modport port); `EndPass` loops. `Recreated` is the fresh `ValueDriver` `addDrivers` builds: the original kind, flags and `containingSymbol`, a source derived from that symbol, no interface port, not a side effect, and the prefix `ModportPropagation`'s `Splice` gives; `PrefixBounds` is `getBounds` of that prefix on the connection (both modules use the shape `logic [Rows][Cols]`). |

Each `MC_*` module binds a module's constants to a small design for TLC.
## 3. Runs

| Run | Module / cfg | Checks | Shows |
|---|---|---|---|
| `driver_map` | `MC_DriverMap` / `MC_DriverMap.cfg` | `TypeOK`, `GetDriversComplete`, `ErrorIffIllegalPair` | For every order of up to 3 `addDriver` calls over 8 kinds of symbol, the stored drivers are the submitted ones plus one initializer. The incremental, early-breaking scan reports an error exactly when the legality matrix rejects some overlapping pair, whatever the storage order (about 159k states). |
| `coercion_order` (violation) | `MC_DriverMap` / `MC_DriverMap_coercion.cfg` | `CoercionNamesPortDirection` | `assign w = ...` added before an input port's driver on a plain wire yields `OutputPortCoercion`. The code picks the code from the earlier driver's flags, not from which driver is the input port. See the finding. |
| `modport_propagation` | `MC_ModportPropagation` / `.cfg` | `TypeOK`, `EventuallyPropagated` | Start from any table of drivers with whole, element or range selects on 4 modport ports: MP1 goes to MP2 and then to Y, MP3 goes to Z, and MP4 has no connection. The loop always terminates with the table empty. Each driver reaches the end of its chain and drives the bits it drove on the port. |
| `modport_nested_select` (violation) | `MC_ModportPropagation` / `MC_ModportPropagation_nested.cfg` | `SplicePreservesBits` | A driver `mp.y[1][0]` is re-added as `Z[0]`, which covers a whole row. The inner select is lost (lines 174-177). See the finding. |
| `side_effects` | `MC_InstanceSideEffects` / `.cfg` | `TypeOK`, `NoDuplicateSideEffect`, `EventuallyAllApplied` | For any interleaving of 3 instance registrations and 2 interface-port drivers (one chained to the parent body), no side effect is applied twice. Every owed side effect is eventually applied. |
| `driver_tracker` | `MC_DriverTracker` / `.cfg` | `TypeOK`, `FinalDriversMatchDesign`, `FinalVerdict` | Covers every interleaving of 7 tasks: two interface-port drivers from procedures of body M (one always_comb, one always_ff), M's chained port to parent P, two non-canonical instances (M2 of M, Q2 of P), and a direct always_comb in M2's parent. When every task is done, each symbol holds exactly the drivers the design gives it, with one clone per (driver, instance) and the initializer once. An error is reported exactly when two contributions overlap illegally. Clones of M's two procedures into M2 do not conflict with each other, because both take `containingSymbol := M2`, but they do conflict with the parent's always_comb (12,370 states). |
| `front_ends` | `MC_FrontEnds` / `.cfg` | `FinalDriversMatchDesign`, `FinalVerdict` | Ten front-end calls in any order, on a wire, a uwire and a static variable with an initializer. Four of the calls must make no driver: an input port connection, an output port symbol, an input clock var, and an interface-port connection. The drivers, their flags and the errors match spec.md's front-end rules and legality matrix (1,600 states). |
| `lifecycle` | `MC_TrackerLifecycle` / `.cfg` | `EventuallyAllLanded` | Module M drives `p.x` (a modport port) from an `always_comb` and an `always_ff`, and `p.z` (a modport port with no connection) from an `always`. M's non-canonical instance M2 gets side-effect clones onto the modport ports of i2, whose `x` reaches `y2` through a second modport port. Under fair tasks and a fair drain, every interleaving ends with the table empty. Every member then holds exactly the drivers `addDrivers` re-creates for it: none is stranded in the table or lost in a swap (2,976 states). |
| `lifecycle_clone_source` (violation) | `MC_TrackerLifecycle` / `MC_TrackerLifecycle_source.cfg` | `FinalVerdictAfterDrain` | The same design, judged by spec.md's reading that a driver keeps its source through a modport and through cloning. M2's clone of the `always_comb` write lands on `y2` with source `Other`. Its overlap with the parent's `always` on `y2` is not reported. See finding 4. |
| `lifecycle_nested_select` (violation) | `MC_TrackerLifecycle` / `MC_TrackerLifecycle_nested.cfg` | `FinalVerdictAfterDrain` | Here the parent drives nothing directly (`DirectTasks = {}`). M drives `p.x[0]` from an `always_comb` and `p.x[1][0]` from an `always_ff`: disjoint bits. After the drain the `always_ff`'s driver sits on `y1[0]` and `y1` is reported with `MultipleAlwaysAssigns` (finding 2, end to end). |
| `retarget_iface_port` | `MC_RetargetIfacePort` / `.cfg` | `RetargetMatchesReference`, `RetargetCorresponds` | Every path of up to 5 selectors with ascending ranges is walked twice. Side A is an instance whose port connects straight to interface instance arrays and modports. Side B is an instance whose port connects through another interface port. The walk from B finds the counterpart of what it finds from A, and 12 hand-resolved lookups are reproduced (3,025 paths). |
| `retarget_descending_range` (violation) | `MC_RetargetIfacePort` / `MC_RetargetIfacePort_descending.cfg` | `RetargetIsDefined` | The path `p.ja[3:0]` passes both bounds checks and calls `subspan(3, size_t(-3)+1)`, which breaks `subspan`'s precondition. See finding 3. |

### Bounds

**`MC_DriverMap`:**
* 8 symbols: a wire with an initializer, a 2-bit uwire, a single-driver
  user-defined net type, a 2-bit static variable with an initializer, an
  automatic variable, an assertion-local variable, a class handle, and a modport
  port.
* 6 containers: an `always_comb`, an `always_ff`, an `always`, an `initial`, a
  subroutine, and a body.
* Up to 3 `addDriver` calls in total.
* Nets receive continuous drivers with each flag: none, input port, output port,
  clock var. Variables also receive one procedural driver per procedure.

With 3 calls, one symbol can hold an initializer plus 3 drivers. That is enough
for a scan that meets a warning, then an error, and breaks.

**`MC_ModportPropagation`:**
* Symbols are `logic [0:1][0:1]`: the smallest shape where an inner select and
  an outer select pick different bits.
* Each port starts with 0 or 1 drivers, giving 625 initial tables.
* The chain MP1 → MP2 → Y needs two passes of the loop.

**`MC_DriverTracker`:**
* Three static 1-bit variables, one for each interface instance: `x` of i1, i2 and i3. i3.x has an initializer.
* Together the tasks cover every way a side effect can be produced:
  * replayed by the instance's registration, or by the driver's note;
  * on the body itself, or through the chained port;
  * onto a symbol with an initializer;
  * racing a direct driver of the same symbol.
* `MaxAdds` = 7 is the total number of `addDriver` calls the workload makes, so the bound never cuts a behaviour short.

**`MC_FrontEnds`:** one call for each early return of the overloads, and one for each flag the overloads select. Each call has a partner on the same symbol, so the flag decides the verdict: a clock var against a procedure and against an initializer, and an inout port against an assign on a uwire.

**`MC_TrackerLifecycle`:**
* Every symbol is `logic [0:1][0:1]` (4 bits), so whole, row and bit selects drive different intervals, and the splice of a nested select changes bits.
* 2 members (y1 with an initializer) and 5 modport ports: one connected to a member, a chain of two, and two without a connection expression.
* 5 tasks: three interface-port drivers, one instance registration and one direct driver, so clones reach modport ports both before and after the instance is registered.
* The chain needs two passes of the loop; `MaxAdds` = 13 is the exact number of `addDriver` calls (4 adds, 3 clones, 6 re-adds), so the bound never cuts a behaviour short.

**`MC_RetargetIfacePort`:**
* Paths start at the port `p` and grow one selector at a time, up to 5.
* A selector is one of:
  * a name of the design;
  * an index from -1 to 4 (one past each end of the arrays);
  * a range with both ends in -1..4.
* A path is not extended once the walk has failed from both instances (`nullptr` is final).
* The interface has:
  * an instance array of 4 elements;
  * a valid and an invalid generate block array;
  * a nested interface instance;
  * a modport listing one member.
* `size_t` is 16 bits wide. The arithmetic wraps exactly where it wraps at 64 bits: the counts involved are below 8.
* The pass run assumes ascending ranges: `Lookup` outside this repository builds the paths, and we do not know whether it can produce a descending one. The violation run allows descending ranges.

**`MC_InstanceSideEffects`:** every call runs on its own task, so every
interleaving of the visitors and the replays is explored.

### Fairness

`InstanceSideEffects` assumes weak fairness per task. A task waits only on a
per-entry lock, and that lock is held for a list append and a copy, so a task
that can take a step eventually takes it.

`DriverTracker` states no fairness. Its properties are invariants about
the state in which every task is done (`Quiescent`), so they hold in every
interleaving, including those where one task waits arbitrarily long.

`TrackerLifecycle` assumes weak fairness of each worker task's steps
(`DriverTracker!Fairness`: a task waits only on per-key visitors held for one
`addDriver` or one list update) and of the propagating thread. The drain
starts only once every task is done: spec.md section 5 has the caller join all
ingestion, side effects included, before `propagateModportDrivers`.

`ModportPropagation` assumes weak fairness of its single thread, which never
waits.

`CHECK_DEADLOCK FALSE` is set in every run because the analysis really stops.
`DriverMap` stops when its call budget is used up. `InstanceSideEffects` and
`DriverTracker` stop when every task is done; `TrackerLifecycle` when the drain is over. `MC_RetargetIfacePort` stops
at the path bound. `ModportPropagation` stops when a swap finds the table
empty.

## Findings

1. **Coercion code depends on arrival order** (`DriverTracker.cpp:268`).
   `handleOverlap` reports `InputPortCoercion` only when the *earlier* stored
   driver is the input port. Take a plain `wire` whose `assign` is added before
   the input port's driver: it gets `OutputPortCoercion`. spec.md (section 4.2,
   section 5) says the code follows the port's direction and does not depend on
   insertion order. Only the code and wording are affected. The severity
   (warning) and whether an error is reported do not depend on order: the
   `driver_map` run checks that.
2. **Nested selects lose their inner selectors on modport propagation**
   (`DriverTracker.cpp:174-190`). `propagateModportDriver` re-creates only the
   outermost select around the connection expression. A driver on `mp.y[1][0]`
   becomes `conn[0]`, which is a whole row. The same applies to member chains.
   This can cause false multiple-driver errors and missed overlaps on the
   connected symbol. `lifecycle_nested_select` shows one end to end: an
   `always_comb` on `p.x[0]` and an `always_ff` on `p.x[1][0]` give
   `MultipleAlwaysAssigns` on the connected member once the drain is over. spec.md section 4.4 says the *root* is replaced, and
   section 9 leaves nested chains as an open question.

3. **Descending range selects in `retargetIfacePort`** (`DriverTracker.cpp:654`).
   The walk checks only that `first >= 0` and that both ends are below the
   array size. It then takes `subspan(first, size_t(second - first) + 1)`:
   * `[1:0]` gives an empty span;
   * `[2:0]` gives `dynamic_extent`, the whole tail;
   * `[3:0]` breaks `subspan`'s precondition, which is undefined behaviour.

   spec.md 4.3 only says out-of-range selects find nothing. Whether a
   `HierarchicalReference` can carry a descending range is up to `Lookup`, which
   is not in this repository. Ascending ranges are retargeted correctly.

4. **A propagated side-effect clone loses its procedure kind**
   (`DriverTracker.cpp:197-198`). `propagateModportDriver` re-creates the
   driver from its kind, flags and `containingSymbol` only. The `ValueDriver`
   constructor (outside this repository; `ContainerSource` models it) derives
   the source from that symbol. For a side-effect clone, that symbol is the
   instance (line 685), so an `always_comb` write cloned into M2 lands on the
   member as a driver of source `Other`, and it no longer conflicts with the
   member's own `always` procedure. spec.md 4.3 says a clone keeps everything
   but `containingSymbol` and `isFromSideEffect`. The glossary says a driver on
   a modport output is a driver on the underlying member. By both,
   `MultipleAlwaysAssigns` is due. `FinalVerdictAfterDrain` judges every
   driver by the source it was recorded with (`DesignFresh`), and
   `lifecycle_clone_source` shows the missing error. `EventuallyAllLanded`
   instead uses the code's reconstruction (`RefFresh`), because it checks that
   no driver is lost, not how drivers are classified.

## 4. Not modelled

* **Out of scope for this repository.**
  * `visitLSPs` and `getBounds`: LHS decomposition, modelled as drivers chosen
    from a universe with bounds inside the symbol's width.
  * Diagnostic rendering: notes, ranges, names, hierarchical paths.
  * The arena.
* **Pure formatting.** `getLSPName`.
* **Assumed, not checked.**
  * Propagation starts only after all ingestion (spec.md section 5).
    `TrackerLifecycle`'s `Swap` waits for every task to be done, so a worker
    adding a modport driver during the drain is not explored.
    `EventuallyAllLanded` covers side effects that reach modport ports before
    the drain.
  * `add(symbolDriverList)` (line 120) asserts that no bulk-listed driver goes
    through an interface port. Its callers are outside this repository, and
    spec.md 4.1 says they never pass one.
* **Not covered by a property.**
  * A re-added driver goes through `addDrivers`, which notes interface-port
    drivers (line 231). When a modport's connection goes through an interface
    port of the interface, the drain fans drivers out again. The models fix
    their note tasks in advance, and `TrackerLifecycle`'s connections name
    members of the interface.
* **Abstracted.** A front-end call's left-hand side is one `(symbol, bounds)`.
  Interface-port drivers come from procedures only. A front end reaching an
  interface port takes the same path: `addDrivers` notes it after its
  visitor returns, exactly as `add(AnalyzedProcedure)` does.
