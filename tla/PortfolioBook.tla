---------------------------- MODULE PortfolioBook ----------------------------
(***************************************************************************)
(* The positions of the portfolios and the two ways they are written: a    *)
(* position recorded by hand (application/portfolio_book.py) and a CSV     *)
(* import that is previewed, confirmed and applied as one batch            *)
(* (application/portfolio_csv.py), over the tables of                      *)
(* infrastructure/catalog_portfolio.py.                                    *)
(*                                                                         *)
(* A transaction is READ COMMITTED: what it has written shows only to      *)
(* itself until it commits.  It holds the row of its portfolio, the rows   *)
(* of instruments it has locked or inserted (exclusive), those whose blank *)
(* fields it has filled, and those its new positions refer to (shared),    *)
(* until it ends.  The database ends one of the transactions that wait for *)
(* each other in a circle.                                                 *)
(*                                                                         *)
(* The two buckets of a position and their costs are one quantity here.    *)
(***************************************************************************)
EXTENDS Integers, Sequences, FiniteSets

CONSTANTS
    Callers,        \* requests being served, by any process
    Portfolios,
    Instruments,
    Amounts,        \* quantities that are typed in
    Sheets,         \* CSV texts: sequences of rows
    Policies,       \* conflict policies a confirmation may name
    Guards,         \* whether a confirmation carries expected_positions_hash
    Fills,          \* sets of instruments whose blank fields a request would fill
    MaxCalls        \* bound: the calls begun

None == -1          \* no position
Bad == -2           \* a row that does not parse or validate

ASSUME AmountsAssumption == Amounts \subseteq Nat /\ MaxCalls \in Nat
ASSUME GuardsAssumption == Guards \subseteq BOOLEAN
ASSUME FillsAssumption == Fills \subseteq SUBSET Instruments
ASSUME PoliciesAssumption == Policies \subseteq {"NONE", "SKIP", "REPLACE", "UPDATE"}
ASSUME InstrumentsAssumption == None \notin Instruments /\ Portfolios # {}
ASSUME SheetsAssumption ==
    Sheets \subseteq Seq([instrument : Instruments, quantity : Nat \cup {Bad}])

Contents == [Instruments -> Nat \cup {None}]
Keys == (Sheets \cup {<<>>}) \X {"NONE", "SKIP", "REPLACE", "UPDATE"}
Position == [quantity : Nat \cup {None}, version : Nat]

VARIABLES
    book,       \* committed positions, each with its quantity and version
    imports,    \* claims of each portfolio, in the order they were committed
    catalog,    \* instruments with a committed row
    pc,         \* where each call is
    call,       \* what it asks
    seen,       \* the positions its last read returned
    toLock,     \* instrument rows its snapshot check has yet to lock
    todo,       \* rows of the sheet its transaction has yet to write
    staged,     \* the positions its transaction has written
    held,       \* instrument rows it holds exclusively
    shared,     \* instrument rows its new positions refer to
    calls       \* the calls begun

txnVars == <<toLock, todo, staged, held, shared>>
vars == <<book, imports, catalog, pc, call, seen, txnVars, calls>>

-----------------------------------------------------------------------------
(* parse_portfolio_csv: every row is invalid, a duplicate, in conflict with *)
(* a position, or valid.                                                    *)

\* Mutated form of Invalid: a row that does not validate is kept.
InvalidNever(sheet) == {}

Invalid(sheet) == {n \in DOMAIN sheet : sheet[n].quantity = Bad}

\* seen_keys: an earlier row that passed validation has the same natural key.
Duplicates(sheet) ==
    {n \in DOMAIN sheet \ Invalid(sheet) :
        \E m \in DOMAIN sheet \ Invalid(sheet) :
            m < n /\ sheet[m].instrument = sheet[n].instrument}

Kept(sheet) == DOMAIN sheet \ (Invalid(sheet) \cup Duplicates(sheet))

Conflicts(sheet, existing) ==
    {n \in Kept(sheet) : existing[sheet[n].instrument] # None}

\* Rows that confirm() queues: all that are valid, and the conflicts unless
\* they are skipped.
Written(sheet, existing, policy) ==
    IF policy \in {"REPLACE", "UPDATE"} THEN Kept(sheet)
    ELSE Kept(sheet) \ Conflicts(sheet, existing)

\* Mutated form of Merged: UPDATE writes the row's quantity.
MergedReplaces(row, existing, policy) == row.quantity

\* UPDATE adds the row to what the confirmation read.
Merged(row, existing, policy) ==
    IF policy = "UPDATE" /\ existing[row.instrument] # None
    THEN existing[row.instrument] + row.quantity
    ELSE row.quantity

-----------------------------------------------------------------------------
Quantity(position) == position.quantity
NoPosition == [quantity |-> None, version |-> 0]
NothingStaged == [i \in Instruments |-> NoPosition]
NothingSeen == [i \in Instruments |-> None]
ContentOf(positions) == [i \in Instruments |-> positions[i].quantity]
Content(p) == ContentOf(book[p])

Places == {"idle", "previewed", "confirmed", "prepared", "locked",
           "manual", "cataloged", "writing"}

Calls == [portfolio : Portfolios, sheet : Sheets \cup {<<>>},
          policy : {"NONE", "SKIP", "REPLACE", "UPDATE"}, guarded : BOOLEAN,
          instrument : Instruments \cup {None}, amount : Nat,
          fills : SUBSET Instruments]

NoCall == [portfolio |-> CHOOSE p \in Portfolios : TRUE, sheet |-> <<>>,
           policy |-> "NONE", guarded |-> FALSE, instrument |-> None, amount |-> 0,
           fills |-> {}]

Init ==
    /\ book = [p \in Portfolios |-> [i \in Instruments |-> NoPosition]]
    /\ imports = [p \in Portfolios |-> <<>>]
    /\ catalog = {}
    /\ pc = [c \in Callers |-> "idle"]
    /\ call = [c \in Callers |-> NoCall]
    /\ seen = [c \in Callers |-> NothingSeen]
    /\ toLock = [c \in Callers |-> {}]
    /\ todo = [c \in Callers |-> {}]
    /\ staged = [c \in Callers |-> NothingStaged]
    /\ held = [c \in Callers |-> {}]
    /\ shared = [c \in Callers |-> {}]
    /\ calls = 0

Goto(c, place) == pc' = [pc EXCEPT ![c] = place]

\* The transaction of c ends, and with it the call: its locks are released.
Return(c) ==
    /\ Goto(c, "idle")
    /\ call' = [call EXCEPT ![c] = NoCall]
    /\ seen' = [seen EXCEPT ![c] = NothingSeen]
    /\ toLock' = [toLock EXCEPT ![c] = {}]
    /\ todo' = [todo EXCEPT ![c] = {}]
    /\ staged' = [staged EXCEPT ![c] = NothingStaged]
    /\ held' = [held EXCEPT ![c] = {}]
    /\ shared' = [shared EXCEPT ![c] = {}]
    /\ UNCHANGED calls

Refuse(c) == Return(c) /\ UNCHANGED <<book, imports, catalog>>

-----------------------------------------------------------------------------
(* Locks and who waits for whom.                                            *)

Portfolio(c) == call[c].portfolio

\* Mutated form of LockHolders: nobody takes the row of the portfolio.
LockHoldersNone(c, p) == {}

\* Others that hold the row of the portfolio FOR UPDATE.
LockHolders(c, p) ==
    {d \in Callers \ {c} : pc[d] \in {"locked", "writing"} /\ Portfolio(d) = p}

\* Others that have inserted the instrument and not committed.
Inserters(c, i) == {d \in Callers \ {c} : i \in held[d] \ catalog}

\* Rows of the catalog whose blank fields the batch of d has filled.
Filled(d) == {i \in catalog \cap call[d].fills : staged[d][i] # NoPosition}

\* Others whose lock keeps c from locking the row, from updating it, or from
\* referring to it.
RowBlockers(c, i) == {d \in Callers \ {c} : i \in held[d] \cup shared[d] \cup Filled(d)}
UpdateBlockers(c, i) == {d \in Callers \ {c} : i \in held[d] \cup Filled(d)}
ReferenceBlockers(c, i) == {d \in Callers \ {c} : i \in held[d]}

\* apply_import_batch writes the valid rows before the conflicts, each in the
\* order of the sheet.
IsNext(c, n) ==
    LET conflicts == Conflicts(call[c].sheet, seen[c]) IN
    /\ n \in todo[c]
    /\ \A m \in todo[c] \ {n} :
        IF n \in conflicts THEN m \in conflicts /\ n < m ELSE m \in conflicts \/ n < m

\* An insert waits for another insert of the same key, a fill for whoever has
\* locked or filled the row, a new position for whoever has locked it.
UpsertBlockers(c, i) ==
    Inserters(c, i) \cup
    (IF i \in catalog \cap call[c].fills THEN UpdateBlockers(c, i) ELSE {})

PositionBlockers(c, i) ==
    IF Quantity(book[Portfolio(c)][i]) = None THEN ReferenceBlockers(c, i) ELSE {}

WriteBlockers(c, i) == UpsertBlockers(c, i) \cup PositionBlockers(c, i)

WaitsFor(c) ==
    CASE pc[c] \in {"prepared", "cataloged"} -> LockHolders(c, Portfolio(c))
      [] pc[c] = "manual" -> UpsertBlockers(c, call[c].instrument)
      [] pc[c] = "writing" -> PositionBlockers(c, call[c].instrument)
      [] pc[c] = "locked" /\ toLock[c] # {} -> UNION {RowBlockers(c, i) : i \in toLock[c]}
      [] pc[c] = "locked" /\ toLock[c] = {} /\ todo[c] # {} ->
            UNION {WriteBlockers(c, call[c].sheet[n].instrument) : n \in {n \in todo[c] : IsNext(c, n)}}
      [] OTHER -> {}

\* Mutated form of InCircle: the database never ends a transaction.
InCircleNever(c) == FALSE

\* c waits for itself through the transactions it waits for.
InCircle(c) ==
    /\ WaitsFor(c) # {}
    /\ \A S \in SUBSET Callers :
        WaitsFor(c) \subseteq S /\ (\A d \in S : WaitsFor(d) \subseteq S) => c \in S

-----------------------------------------------------------------------------
(* PortfolioCsvImportService.                                               *)

Begin(c) == pc[c] = "idle" /\ calls < MaxCalls /\ calls' = calls + 1

Preview(c, p, sheet) ==
    /\ Begin(c)
    /\ Goto(c, "previewed")
    /\ call' = [call EXCEPT ![c] = [NoCall EXCEPT !.portfolio = p, !.sheet = sheet]]
    /\ seen' = [seen EXCEPT ![c] = Content(p)]
    /\ UNCHANGED <<book, imports, catalog, txnVars>>

\* confirm() reads the positions again and refuses a stale preview, an invalid
\* row and a conflict without a policy.
Refused(c, policy, guarded, existing) ==
    \/ guarded /\ existing # seen[c]
    \/ Invalid(call[c].sheet) # {}
    \/ Conflicts(call[c].sheet, existing) # {} /\ policy = "NONE"

Confirm(c, policy, guarded, fills) ==
    LET existing == Content(Portfolio(c)) IN
    /\ pc[c] = "previewed"
    /\ IF Refused(c, policy, guarded, existing) THEN Refuse(c)
       ELSE /\ Goto(c, "confirmed")
            /\ call' = [call EXCEPT ![c].policy = policy, ![c].guarded = guarded,
                                     ![c].fills = fills]
            /\ seen' = [seen EXCEPT ![c] = existing]
            /\ UNCHANGED <<book, imports, catalog, txnVars, calls>>

Key(c) == <<call[c].sheet, call[c].policy>>
Imported(p, key) == \E n \in DOMAIN imports[p] : imports[p][n] = key

\* find_import_audit before the batch, in a transaction of its own.
FindImportAudit(c) ==
    /\ pc[c] = "confirmed"
    /\ IF Imported(Portfolio(c), Key(c)) THEN Refuse(c)
       ELSE /\ Goto(c, "prepared")
            /\ UNCHANGED <<book, imports, catalog, call, seen, txnVars, calls>>

\* Mutated form of BatchRefused: the snapshot is not compared under the lock.
BatchRefusedUnchecked(c) == Imported(Portfolio(c), Key(c))

\* Under the portfolio's lock: the claim exists, or the snapshot has changed.
BatchRefused(c) ==
    \/ Imported(Portfolio(c), Key(c))
    \/ call[c].guarded /\ Content(Portfolio(c)) # seen[c]

\* apply_import_batch takes the portfolio's row, then checks.  The snapshot
\* check selects the rows of all its positions and their instruments FOR UPDATE.
LockBatch(c) ==
    /\ pc[c] = "prepared"
    /\ LockHolders(c, Portfolio(c)) = {}
    /\ IF BatchRefused(c) THEN Refuse(c)
       ELSE /\ Goto(c, "locked")
            /\ toLock' = [toLock EXCEPT ![c] =
                   IF call[c].guarded
                   THEN {i \in Instruments : Content(Portfolio(c))[i] # None} ELSE {}]
            /\ todo' = [todo EXCEPT ![c] = Written(call[c].sheet, seen[c], call[c].policy)]
            /\ UNCHANGED <<book, imports, catalog, call, seen, staged, held, shared, calls>>

LockRow(c, i) ==
    /\ pc[c] = "locked"
    /\ i \in toLock[c]
    /\ RowBlockers(c, i) = {}
    /\ toLock' = [toLock EXCEPT ![c] = @ \ {i}]
    /\ held' = [held EXCEPT ![c] = @ \cup {i}]
    /\ UNCHANGED <<book, imports, catalog, pc, call, seen, todo, staged, shared, calls>>

\* What the transaction of c sees: what it has written, over what is committed.
Present(c, i) ==
    IF staged[c][i] # NoPosition THEN staged[c][i] ELSE book[Portfolio(c)][i]

\* upsert_position: insert with version 1, or update the version that was read.
Upserted(position, quantity) ==
    [quantity |-> quantity, version |-> position.version + 1]

\* One queued row: the instrument is inserted when it is not in the catalog and
\* otherwise has its blank fields filled; the position is read, written and read
\* again.
WriteRow(c, n) ==
    LET i == call[c].sheet[n].instrument IN
    /\ pc[c] = "locked" /\ toLock[c] = {} /\ IsNext(c, n)
    /\ WriteBlockers(c, i) = {}
    /\ todo' = [todo EXCEPT ![c] = @ \ {n}]
    /\ staged' = [staged EXCEPT ![c][i] =
           Upserted(Present(c, i), Merged(call[c].sheet[n], seen[c], call[c].policy))]
    /\ held' = [held EXCEPT ![c] = IF i \in catalog THEN @ ELSE @ \cup {i}]
    /\ shared' = [shared EXCEPT ![c] = IF Present(c, i) = NoPosition THEN @ \cup {i} ELSE @]
    /\ UNCHANGED <<book, imports, catalog, pc, call, seen, toLock, calls>>

Published(c) ==
    [book EXCEPT ![Portfolio(c)] = [i \in Instruments |-> Present(c, i)]]

CommitBatch(c) ==
    /\ pc[c] = "locked" /\ toLock[c] = {} /\ todo[c] = {}
    /\ book' = Published(c)
    /\ catalog' = catalog \cup held[c]
    /\ imports' = [imports EXCEPT ![Portfolio(c)] = Append(@, Key(c))]
    /\ Return(c)

-----------------------------------------------------------------------------
(* PortfolioBookService.record_manual_position.                             *)

RecordManualPosition(c, p, i, amount, fills) ==
    /\ Begin(c)
    /\ Goto(c, "manual")
    /\ call' = [call EXCEPT ![c] =
           [NoCall EXCEPT !.portfolio = p, !.instrument = i, !.amount = amount,
                          !.fills = fills]]
    /\ UNCHANGED <<book, imports, catalog, seen, txnVars>>

\* catalog.upsert in a transaction of its own.
UpsertInstrument(c) ==
    /\ pc[c] = "manual"
    /\ UpsertBlockers(c, call[c].instrument) = {}
    /\ catalog' = catalog \cup {call[c].instrument}
    /\ Goto(c, "cataloged")
    /\ UNCHANGED <<book, imports, call, seen, txnVars, calls>>

LockPortfolio(c) ==
    /\ pc[c] = "cataloged"
    /\ LockHolders(c, Portfolio(c)) = {}
    /\ Goto(c, "writing")
    /\ UNCHANGED <<book, imports, catalog, call, seen, txnVars, calls>>

\* upsert_position without an expected version: the last writer wins.
CommitPosition(c) ==
    LET p == Portfolio(c)
        i == call[c].instrument
    IN  /\ pc[c] = "writing"
        /\ PositionBlockers(c, i) = {}
        /\ book' = [book EXCEPT ![p][i] = Upserted(@, call[c].amount)]
        /\ Return(c)
        /\ UNCHANGED <<imports, catalog>>

-----------------------------------------------------------------------------
\* The database ends a transaction that waits in a circle; the call raises.
EndCircle(c) == InCircle(c) /\ Refuse(c)

\* The process or its connection is lost before the commit, or the user does
\* not confirm: what was not committed is gone, and the call may be made again.
Abandon(c) == pc[c] # "idle" /\ Refuse(c)

Work(c) ==
    \/ FindImportAudit(c) \/ LockBatch(c) \/ CommitBatch(c)
    \/ \E i \in Instruments : LockRow(c, i)
    \/ \E n \in todo[c] : WriteRow(c, n)
    \/ UpsertInstrument(c) \/ LockPortfolio(c) \/ CommitPosition(c)
    \/ EndCircle(c)

Next ==
    \E c \in Callers :
        \/ \E p \in Portfolios, sheet \in Sheets : Preview(c, p, sheet)
        \/ \E policy \in Policies, guarded \in Guards, fills \in Fills :
               Confirm(c, policy, guarded, fills)
        \/ \E p \in Portfolios, i \in Instruments, amount \in Amounts, fills \in Fills :
               RecordManualPosition(c, p, i, amount, fills)
        \/ Work(c)
        \/ Abandon(c)

Spec == Init /\ [][Next]_vars

\* A request that has been sent is served; nobody has to confirm a preview.
LiveSpec == Spec /\ \A c \in Callers : WF_vars(Work(c))

-----------------------------------------------------------------------------
\* Type invariant: positions exist from their first version on.
TypeOK ==
    /\ book \in [Portfolios -> [Instruments -> Position]]
    /\ imports \in [Portfolios -> Seq(Keys)]
    /\ catalog \subseteq Instruments
    /\ pc \in [Callers -> Places]
    /\ call \in [Callers -> Calls]
    /\ \A c \in Callers : pc[c] \in {"manual", "cataloged", "writing"} =>
           call[c].instrument \in Instruments
    /\ seen \in [Callers -> Contents]
    /\ toLock \in [Callers -> SUBSET Instruments]
    /\ \A c \in Callers : todo[c] \subseteq Kept(call[c].sheet)
    /\ staged \in [Callers -> [Instruments -> Position]]
    /\ held \in [Callers -> SUBSET Instruments]
    /\ shared \in [Callers -> SUBSET Instruments]
    /\ todo \in [Callers -> SUBSET Nat]
    /\ calls \in 0 .. MaxCalls

\* The same text with the same policy is applied to a portfolio at most once,
\* however often it is confirmed and whatever is lost on the way
\* (PortfolioImportClaimRecord, IDEMPOTENCY_KEY_CONFLICT).
ImportedOnce ==
    \A p \in Portfolios : \A m, n \in DOMAIN imports[p] :
        imports[p][m] = imports[p][n] => m = n

\* No write of a position is lost: whatever changes a position makes its next
\* version, by hand or by import (upsert_position's compare-and-swap under the
\* portfolio's lock).
EveryWriteIsAVersion ==
    [][\A p \in Portfolios, i \in Instruments :
        book'[p][i] # book[p][i] => book'[p][i].version = book[p][i].version + 1]_vars

\* "Import never silently overwrites holdings" (application/portfolio_csv.py:3):
\* an import changes a position only from the quantity its user had been shown.
NeverSilentlyOverwrites ==
    [][\A c \in Callers : CommitBatch(c) =>
        \A i \in Instruments : staged[c][i] # NoPosition =>
            Content(Portfolio(c))[i] = seen[c][i]]_vars

\* The committed quantities and claims are the abstract state.
Atomic == INSTANCE AtomicImport WITH
    holdings <- [p \in Portfolios |-> Content(p)],
    applied <- [p \in Portfolios |-> {imports[p][n] : n \in DOMAIN imports[p]}]

\* With the snapshot a confirmation carries, the preview, the confirmation and
\* the transaction of an import are one step of the user's: nothing that others
\* write between them is lost, added twice or overwritten.
ImplementsAtomicImport == Atomic!Spec

\* A call that has reached the database ends: circles of waiting transactions
\* do occur, and each is broken.
EveryCallEnds == \A c \in Callers : pc[c] \notin {"idle", "previewed"} ~> pc[c] = "idle"

=============================================================================
