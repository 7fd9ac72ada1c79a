------------------------ MODULE PortfolioBook_proofs ------------------------
(***************************************************************************)
(* TypeOK, ImportedOnce, EveryWriteIsAVersion, NeverSilentlyOverwrites and *)
(* the implementation of AtomicImport for every set of callers,            *)
(* portfolios, instruments and sheets.                                     *)
(***************************************************************************)
EXTENDS PortfolioBook, WellFoundedInduction, TLAPS

USE AmountsAssumption, GuardsAssumption, PoliciesAssumption, InstrumentsAssumption,
    SheetsAssumption

-----------------------------------------------------------------------------
(* The sheet.                                                              *)

SheetRow == [instrument : Instruments, quantity : Nat \cup {Bad}]

LEMMA SheetTyped ==
    ASSUME NEW sheet \in Sheets \cup {<<>>}
    PROVE  /\ DOMAIN sheet \subseteq Nat
           /\ \A n \in DOMAIN sheet : sheet[n] \in SheetRow
<1>1. CASE sheet \in Sheets
  <2>1. sheet \in Seq(SheetRow)
    BY <1>1 DEF SheetRow
  <2> QED BY <2>1
<1>2. CASE sheet = <<>>
  BY <1>2
<1> QED BY <1>1, <1>2

\* Rows that are kept name an instrument once, with a quantity.
LEMMA KeptRows ==
    ASSUME NEW sheet \in Sheets \cup {<<>>}
    PROVE  /\ Kept(sheet) \subseteq DOMAIN sheet
           /\ \A n \in Kept(sheet) : sheet[n].quantity \in Nat /\ sheet[n].instrument \in Instruments
           /\ \A m, n \in Kept(sheet) : sheet[m].instrument = sheet[n].instrument => m = n
<1>1. DOMAIN sheet \subseteq Nat /\ \A n \in DOMAIN sheet : sheet[n] \in SheetRow
  BY SheetTyped
<1>2. Kept(sheet) \subseteq DOMAIN sheet /\ \A n \in Kept(sheet) : sheet[n].quantity # Bad
  BY DEF Kept, Invalid
<1>3. \A n \in Kept(sheet) : sheet[n].quantity \in Nat /\ sheet[n].instrument \in Instruments
  BY <1>1, <1>2 DEF SheetRow
<1>4. ASSUME NEW m \in Kept(sheet), NEW n \in Kept(sheet),
             sheet[m].instrument = sheet[n].instrument, m < n
      PROVE  FALSE
  <2>1. n \in Duplicates(sheet)
    BY <1>4 DEF Kept, Duplicates
  <2> QED BY <1>4, <2>1 DEF Kept
<1>5. \A m, n \in Kept(sheet) : m < n \/ n < m \/ m = n
  BY <1>1, <1>2
<1> QED BY <1>2, <1>3, <1>4, <1>5

-----------------------------------------------------------------------------
\* The row of a portfolio has one holder.
LockInv ==
    \A c, d \in Callers :
        /\ pc[c] \in {"locked", "writing"} /\ pc[d] \in {"locked", "writing"}
        /\ Portfolio(c) = Portfolio(d)
        => c = d

\* What a batch has written is the next version of what is committed, and no
\* queued row has been written.
StageInv ==
    \A c \in Callers :
        /\ pc[c] # "locked" => staged[c] = NothingStaged /\ todo[c] = {}
        /\ pc[c] = "locked" =>
            /\ \A i \in Instruments : staged[c][i] # NoPosition =>
                   staged[c][i].version = book[Portfolio(c)][i].version + 1
            /\ \A n \in todo[c] : staged[c][call[c].sheet[n].instrument] = NoPosition

\* Under the lock the claim stays free, and the snapshot what was confirmed.
BatchInv ==
    /\ ImportedOnce
    /\ \A c \in Callers : pc[c] = "locked" =>
        /\ ~Imported(Portfolio(c), Key(c))
        /\ call[c].guarded => Content(Portfolio(c)) = seen[c]
    /\ \A c \in Callers :
        pc[c] \in {"confirmed", "prepared", "locked"} => call[c].guarded \in Guards

IInv == TypeOK /\ LockInv /\ StageInv /\ BatchInv

LEMMA NoCallTyped ==
    NoCall \in Calls /\ NoCall.sheet = <<>>
BY DEF NoCall, Calls

LEMMA PositionsTyped ==
    /\ NoPosition \in Position
    /\ NothingStaged \in [Instruments -> Position]
    /\ NothingSeen \in Contents
BY DEF NoPosition, Position, NothingStaged, NothingSeen, Contents

\* The end of a call that changes no table.
LEMMA RefuseKeeps ==
    ASSUME IInv, NEW c \in Callers, Refuse(c)
    PROVE  IInv'
<1> USE DEF IInv
<1>1. /\ pc' = [pc EXCEPT ![c] = "idle"] /\ call' = [call EXCEPT ![c] = NoCall]
      /\ seen' = [seen EXCEPT ![c] = NothingSeen]
      /\ toLock' = [toLock EXCEPT ![c] = {}] /\ todo' = [todo EXCEPT ![c] = {}]
      /\ staged' = [staged EXCEPT ![c] = NothingStaged]
      /\ held' = [held EXCEPT ![c] = {}] /\ shared' = [shared EXCEPT ![c] = {}]
      /\ UNCHANGED <<calls, book, imports, catalog>>
  BY DEF Refuse, Return, Goto
<1>2. TypeOK'
  BY <1>1, NoCallTyped, PositionsTyped DEF TypeOK, Places
<1>3. LockInv'
  BY <1>1 DEF TypeOK, LockInv, Portfolio
<1>4. StageInv'
  BY <1>1 DEF TypeOK, StageInv, Portfolio
<1>5. BatchInv'
  BY <1>1 DEF TypeOK, BatchInv, ImportedOnce, Imported, Key, Portfolio, Content
<1> QED BY <1>2, <1>3, <1>4, <1>5

-----------------------------------------------------------------------------
(* Steps that write no position.                                           *)

\* A call that begins.
LEMMA BeginKeeps ==
    ASSUME IInv, NEW c \in Callers, Begin(c), NEW asked \in Calls,
           NEW place \in {"previewed", "manual"}, Goto(c, place),
           call' = [call EXCEPT ![c] = asked],
           place = "manual" => asked.instrument \in Instruments,
           seen' \in [Callers -> Contents], \A d \in Callers \ {c} : seen'[d] = seen[d],
           UNCHANGED <<book, imports, catalog, txnVars>>
    PROVE  IInv'
<1> USE DEF IInv
<1>1. /\ pc[c] = "idle" /\ pc' = [pc EXCEPT ![c] = place] /\ calls' \in 0 .. MaxCalls
      /\ UNCHANGED <<toLock, todo, staged, held, shared>>
  BY DEF Begin, Goto, TypeOK, txnVars
<1>2. todo[c] = {}
  BY <1>1 DEF StageInv
<1>3. TypeOK'
  BY <1>1, <1>2 DEF TypeOK, Places
<1>4. LockInv'
  BY <1>1 DEF TypeOK, LockInv, Portfolio
<1>5. StageInv'
  BY <1>1 DEF TypeOK, StageInv, Portfolio
<1>6. BatchInv'
  BY <1>1 DEF TypeOK, BatchInv, ImportedOnce, Imported, Key, Portfolio, Content
<1> QED BY <1>3, <1>4, <1>5, <1>6

LEMMA ContentTyped ==
    ASSUME TypeOK, NEW p \in Portfolios
    PROVE  Content(p) \in Contents
BY DEF TypeOK, Content, ContentOf, Contents, Position

LEMMA PreviewKeeps ==
    ASSUME IInv, NEW c \in Callers, NEW p \in Portfolios, NEW sheet \in Sheets,
           Preview(c, p, sheet)
    PROVE  IInv'
<1> DEFINE asked == [NoCall EXCEPT !.portfolio = p, !.sheet = sheet]
<1>1. asked \in Calls
  BY NoCallTyped DEF Calls, NoCall
<1>2. seen' \in [Callers -> Contents] /\ \A d \in Callers \ {c} : seen'[d] = seen[d]
  BY ContentTyped DEF Preview, IInv, TypeOK
<1> HIDE DEF asked
<1>3. call' = [call EXCEPT ![c] = asked]
  BY DEF Preview, asked
<1> QED BY <1>1, <1>2, <1>3, BeginKeeps DEF Preview

LEMMA ManualKeeps ==
    ASSUME IInv, NEW c \in Callers, NEW p \in Portfolios, NEW i \in Instruments,
           NEW amount \in Amounts, NEW fills \in Fills,
           RecordManualPosition(c, p, i, amount, fills)
    PROVE  IInv'
<1> DEFINE asked == [NoCall EXCEPT !.portfolio = p, !.instrument = i, !.amount = amount,
                             !.fills = fills]
<1>1. asked \in Calls /\ asked.instrument \in Instruments
  BY NoCallTyped, FillsAssumption DEF Calls, NoCall
<1>2. seen' \in [Callers -> Contents] /\ \A d \in Callers \ {c} : seen'[d] = seen[d]
  BY DEF RecordManualPosition, IInv, TypeOK
<1> HIDE DEF asked
<1>3. call' = [call EXCEPT ![c] = asked]
  BY DEF RecordManualPosition, asked
<1> QED BY <1>1, <1>2, <1>3, BeginKeeps DEF RecordManualPosition

LEMMA ConfirmKeeps ==
    ASSUME IInv, NEW c \in Callers, NEW policy \in Policies, NEW guarded \in Guards,
           NEW fills \in Fills, Confirm(c, policy, guarded, fills)
    PROVE  IInv'
<1> USE DEF IInv
<1>1. CASE Refuse(c)
  BY <1>1, RefuseKeeps
<1>2. CASE ~Refuse(c)
  <2>1. /\ pc[c] = "previewed" /\ pc' = [pc EXCEPT ![c] = "confirmed"]
        /\ call' = [call EXCEPT ![c].policy = policy, ![c].guarded = guarded,
                                 ![c].fills = fills]
        /\ seen' = [seen EXCEPT ![c] = Content(Portfolio(c))]
        /\ UNCHANGED <<book, imports, catalog, toLock, todo, staged, held, shared, calls>>
    BY <1>2 DEF Confirm, Goto, txnVars
  <2>2. call[c] \in Calls /\ Portfolio(c) \in Portfolios
    BY DEF TypeOK, Calls, Portfolio
  <2>3. /\ call'[c] \in Calls /\ call'[c].guarded \in Guards
        /\ call'[c].sheet = call[c].sheet
        /\ \A d \in Callers \ {c} : call'[d] = call[d]
    <3> DEFINE asked == [call[c] EXCEPT !.policy = policy, !.guarded = guarded,
                                     !.fills = fills]
    <3>1. call'[c] = asked /\ \A d \in Callers \ {c} : call'[d] = call[d]
      BY <2>1 DEF TypeOK
    <3>2. policy \in {"NONE", "SKIP", "REPLACE", "UPDATE"} /\ guarded \in BOOLEAN
          /\ fills \in SUBSET Instruments
      BY FillsAssumption
    <3>3. asked \in Calls
      BY <2>2, <3>2 DEF Calls
    <3>4. asked.guarded = guarded /\ asked.sheet = call[c].sheet
      BY <2>2 DEF Calls
    <3> QED BY <3>1, <3>3, <3>4
  <2>4. TypeOK'
    <3>1. call' \in [Callers -> Calls] /\ seen' \in [Callers -> Contents]
      BY <2>1, <2>2, <2>3, ContentTyped DEF TypeOK
    <3> QED BY <2>1, <2>3, <3>1 DEF TypeOK, Places
  <2>5. LockInv'
    BY <2>1, <2>3 DEF TypeOK, LockInv, Portfolio
  <2>6. StageInv'
    BY <2>1, <2>3 DEF TypeOK, StageInv, Portfolio
  <2>7. BatchInv'
    <3>1. pc'[c] = "confirmed" /\ \A d \in Callers \ {c} : pc'[d] = pc[d] /\ seen'[d] = seen[d]
      BY <2>1 DEF TypeOK
    <3>2. \A d \in Callers : pc'[d] = "locked" => d # c
      BY <3>1
    <3>3. \A d \in Callers : pc'[d] = "locked" =>
            /\ ~Imported(Portfolio(d), Key(d))'
            /\ call'[d].guarded => Content(Portfolio(d))' = seen'[d]
      <4> SUFFICES ASSUME NEW d \in Callers, pc'[d] = "locked"
                   PROVE  /\ ~Imported(Portfolio(d), Key(d))'
                          /\ call'[d].guarded => Content(Portfolio(d))' = seen'[d]
        OBVIOUS
      <4>1. pc[d] = "locked" /\ call'[d] = call[d] /\ seen'[d] = seen[d]
        BY <2>3, <3>1, <3>2
      <4>2. book' = book /\ imports' = imports
        BY <2>1
      <4> QED BY <4>1, <4>2 DEF BatchInv, Imported, Key, Portfolio, Content
    <3>4. \A d \in Callers :
            pc'[d] \in {"confirmed", "prepared", "locked"} => call'[d].guarded \in Guards
      BY <2>3, <3>1 DEF BatchInv
    <3>5. ImportedOnce'
      BY <2>1 DEF BatchInv, ImportedOnce
    <3> QED BY <3>3, <3>4, <3>5 DEF BatchInv
  <2> QED BY <2>4, <2>5, <2>6, <2>7
<1> QED BY <1>1, <1>2

\* A step to a place that holds no portfolio.
LEMMA GotoKeeps ==
    ASSUME IInv, NEW c \in Callers,
           \/ pc[c] = "confirmed" /\ Goto(c, "prepared")
           \/ pc[c] = "manual" /\ Goto(c, "cataloged"),
           catalog' \in SUBSET Instruments,
           UNCHANGED <<book, imports, call, seen, txnVars, calls>>
    PROVE  IInv'
<1> USE DEF IInv
<1>1. /\ \/ pc[c] = "confirmed" /\ pc' = [pc EXCEPT ![c] = "prepared"]
         \/ pc[c] = "manual" /\ pc' = [pc EXCEPT ![c] = "cataloged"]
      /\ UNCHANGED <<toLock, todo, staged, held, shared>>
  BY DEF Goto, txnVars
<1>2. TypeOK'
  BY <1>1 DEF TypeOK, Places
<1>3. LockInv'
  BY <1>1 DEF TypeOK, LockInv, Portfolio
<1>4. StageInv'
  BY <1>1 DEF TypeOK, StageInv, Portfolio
<1>5. BatchInv'
  BY <1>1 DEF TypeOK, BatchInv, ImportedOnce, Imported, Key, Portfolio, Content
<1> QED BY <1>2, <1>3, <1>4, <1>5

\* A manual write takes the portfolio when nobody holds it.
LEMMA LockPortfolioKeeps ==
    ASSUME IInv, NEW c \in Callers, LockPortfolio(c)
    PROVE  IInv'
<1> USE DEF IInv
<1>1. /\ pc[c] = "cataloged" /\ pc' = [pc EXCEPT ![c] = "writing"]
      /\ \A d \in Callers \ {c} : pc[d] \in {"locked", "writing"} => Portfolio(d) # Portfolio(c)
      /\ UNCHANGED <<book, imports, catalog, call, seen, toLock, todo, staged, held, shared, calls>>
  BY DEF LockPortfolio, LockHolders, Goto, txnVars
<1>2. TypeOK'
  BY <1>1 DEF TypeOK, Places
<1>3. LockInv'
  BY <1>1 DEF TypeOK, LockInv, Portfolio
<1>4. StageInv'
  BY <1>1 DEF TypeOK, StageInv, Portfolio
<1>5. BatchInv'
  BY <1>1 DEF TypeOK, BatchInv, ImportedOnce, Imported, Key, Portfolio, Content
<1> QED BY <1>2, <1>3, <1>4, <1>5

\* A batch takes it and finds the claim free and the snapshot as confirmed.
LEMMA LockBatchKeeps ==
    ASSUME IInv, NEW c \in Callers, LockBatch(c)
    PROVE  IInv'
<1> USE DEF IInv
<1>1. CASE Refuse(c)
  BY <1>1, RefuseKeeps
<1>2. CASE ~Refuse(c)
  <2>1. /\ pc[c] = "prepared" /\ pc' = [pc EXCEPT ![c] = "locked"]
        /\ \A d \in Callers \ {c} :
               pc[d] \in {"locked", "writing"} => Portfolio(d) # Portfolio(c)
        /\ ~Imported(Portfolio(c), Key(c))
        /\ call[c].guarded => Content(Portfolio(c)) = seen[c]
        /\ \E rows \in SUBSET Instruments : toLock' = [toLock EXCEPT ![c] = rows]
        /\ todo' = [todo EXCEPT ![c] = Written(call[c].sheet, seen[c], call[c].policy)]
        /\ UNCHANGED <<book, imports, catalog, call, seen, staged, held, shared, calls>>
    BY <1>2 DEF LockBatch, LockHolders, BatchRefused, Goto
  <2>2. Written(call[c].sheet, seen[c], call[c].policy) \subseteq Kept(call[c].sheet)
    BY DEF Written
  <2>3. call[c].sheet \in Sheets \cup {<<>>}
    BY DEF TypeOK, Calls
  <2>4. Kept(call[c].sheet) \subseteq Nat
    BY <2>3, KeptRows, SheetTyped
  <2>5. staged[c] = NothingStaged
    BY <2>1 DEF StageInv
  <2>6. TypeOK'
    BY <2>1, <2>2, <2>4 DEF TypeOK, Places
  <2>7. LockInv'
    BY <2>1 DEF TypeOK, LockInv, Portfolio
  <2>8. StageInv'
    <3>1. \A i \in Instruments : staged[c][i] = NoPosition
      BY <2>5 DEF NothingStaged
    <3>2. \A n \in todo'[c] : call[c].sheet[n].instrument \in Instruments
      BY <2>1, <2>2, <2>3, KeptRows DEF TypeOK
    <3> QED BY <2>1, <3>1, <3>2 DEF TypeOK, StageInv, Portfolio
  <2>9. BatchInv'
    BY <2>1 DEF TypeOK, BatchInv, ImportedOnce, Imported, Key, Portfolio, Content
  <2> QED BY <2>6, <2>7, <2>8, <2>9
<1> QED BY <1>1, <1>2

LEMMA LockRowKeeps ==
    ASSUME IInv, NEW c \in Callers, NEW i \in Instruments, LockRow(c, i)
    PROVE  IInv'
<1> USE DEF IInv
<1>1. /\ toLock' = [toLock EXCEPT ![c] = @ \ {i}] /\ held' = [held EXCEPT ![c] = @ \cup {i}]
      /\ UNCHANGED <<book, imports, catalog, pc, call, seen, todo, staged, shared, calls>>
  BY DEF LockRow
<1>2. TypeOK'
  BY <1>1 DEF TypeOK
<1>3. LockInv'
  BY <1>1 DEF LockInv, Portfolio
<1>4. StageInv'
  BY <1>1 DEF StageInv, Portfolio
<1>5. BatchInv'
  BY <1>1 DEF BatchInv, ImportedOnce, Imported, Key, Portfolio, Content
<1> QED BY <1>2, <1>3, <1>4, <1>5

-----------------------------------------------------------------------------
(* Steps that write positions.                                             *)

LEMMA WriteRowKeeps ==
    ASSUME IInv, NEW c \in Callers, NEW n \in todo[c], WriteRow(c, n)
    PROVE  IInv'
<1> USE DEF IInv
<1> DEFINE i == call[c].sheet[n].instrument
           p == Portfolio(c)
           quantity == Merged(call[c].sheet[n], seen[c], call[c].policy)
           new == Upserted(Present(c, i), quantity)
<1>1. /\ pc[c] = "locked"
      /\ todo' = [todo EXCEPT ![c] = @ \ {n}]
      /\ staged' = [staged EXCEPT ![c][i] = new]
      /\ held' = [held EXCEPT ![c] = IF i \in catalog THEN @ ELSE @ \cup {i}]
      /\ shared' = [shared EXCEPT ![c] = IF Present(c, i) = NoPosition THEN @ \cup {i} ELSE @]
      /\ UNCHANGED <<book, imports, catalog, pc, call, seen, toLock, calls>>
  BY DEF WriteRow
<1>2. call[c].sheet \in Sheets \cup {<<>>} /\ n \in Kept(call[c].sheet) /\ p \in Portfolios
  BY DEF TypeOK, Calls, Portfolio
<1>3. /\ i \in Instruments /\ call[c].sheet[n].quantity \in Nat
      /\ \A m \in todo[c] : call[c].sheet[m].instrument \in Instruments
      /\ \A m \in todo[c] \ {n} : call[c].sheet[m].instrument # i
  <2>1. \A m \in todo[c] : m \in Kept(call[c].sheet)
    BY DEF TypeOK
  <2> QED BY <1>2, <2>1, KeptRows
<1>4. quantity \in Nat
  <2>1. seen[c][i] \in Nat \cup {None}
    BY <1>3 DEF TypeOK, Contents
  <2> QED BY <1>3, <2>1 DEF Merged
<1>5. Present(c, i) = book[p][i]
  BY <1>1 DEF StageInv, Present
<1>6. book[p][i] \in Position
  BY <1>2, <1>3 DEF TypeOK
<1>7. new \in Position /\ new.version = book[p][i].version + 1
  BY <1>4, <1>5, <1>6 DEF Upserted, Position
<1> HIDE DEF new, quantity
<1>8. /\ staged'[c] = [staged[c] EXCEPT ![i] = new]
      /\ \A d \in Callers \ {c} : staged'[d] = staged[d] /\ todo'[d] = todo[d]
      /\ todo'[c] = todo[c] \ {n}
  BY <1>1 DEF TypeOK
<1>9. /\ staged'[c][i] = new
      /\ \A j \in Instruments \ {i} : staged'[c][j] = staged[c][j]
  BY <1>3, <1>8 DEF TypeOK
<1>10. TypeOK'
  <2>1. staged' \in [Callers -> [Instruments -> Position]]
    BY <1>1, <1>3, <1>7 DEF TypeOK
  <2>2. todo' \in [Callers -> SUBSET Nat] /\ \A d \in Callers : todo'[d] \subseteq Kept(call'[d].sheet)
    BY <1>1, <1>8 DEF TypeOK
  <2>3. held' \in [Callers -> SUBSET Instruments] /\ shared' \in [Callers -> SUBSET Instruments]
    BY <1>1, <1>3 DEF TypeOK
  <2> QED BY <1>1, <2>1, <2>2, <2>3 DEF TypeOK
<1>11. LockInv'
  BY <1>1 DEF LockInv, Portfolio
<1>12. StageInv'
  <2>1. \A j \in Instruments : staged'[c][j] # NoPosition =>
            staged'[c][j].version = book[p][j].version + 1
    BY <1>1, <1>7, <1>9 DEF StageInv
  <2>2. \A m \in todo'[c] : staged'[c][call[c].sheet[m].instrument] = NoPosition
    BY <1>1, <1>3, <1>8, <1>9 DEF StageInv
  <2>3. \A d \in Callers \ {c} :
            staged'[d] = staged[d] /\ todo'[d] = todo[d] /\ pc'[d] = pc[d] /\ call'[d] = call[d]
    BY <1>1, <1>8
  <2>4. pc'[c] = "locked" /\ call' = call /\ book' = book
    BY <1>1
  <2> QED BY <2>1, <2>2, <2>3, <2>4 DEF StageInv, Portfolio
<1>13. BatchInv'
  BY <1>1 DEF BatchInv, ImportedOnce, Imported, Key, Portfolio, Content
<1> QED BY <1>10, <1>11, <1>12, <1>13

\* The commit of the one who holds the portfolio: nobody else is at a place that
\* reads what it changes.
LEMMA CommitKeeps ==
    ASSUME IInv, NEW c \in Callers, pc[c] \in {"locked", "writing"}, Return(c),
           book' \in [Portfolios -> [Instruments -> Position]],
           \A p \in Portfolios \ {Portfolio(c)} : book'[p] = book[p] /\ imports'[p] = imports[p],
           catalog' \in SUBSET Instruments,
           imports' \in [Portfolios -> Seq(Keys)], ImportedOnce'
    PROVE  IInv'
<1> USE DEF IInv
<1>1. /\ pc' = [pc EXCEPT ![c] = "idle"] /\ call' = [call EXCEPT ![c] = NoCall]
      /\ seen' = [seen EXCEPT ![c] = NothingSeen]
      /\ toLock' = [toLock EXCEPT ![c] = {}] /\ todo' = [todo EXCEPT ![c] = {}]
      /\ staged' = [staged EXCEPT ![c] = NothingStaged]
      /\ held' = [held EXCEPT ![c] = {}] /\ shared' = [shared EXCEPT ![c] = {}]
      /\ calls' = calls
  BY DEF Return, Goto
<1>2. \A d \in Callers \ {c} :
          /\ pc'[d] = pc[d] /\ call'[d] = call[d] /\ seen'[d] = seen[d]
          /\ staged'[d] = staged[d] /\ todo'[d] = todo[d]
  BY <1>1 DEF TypeOK
<1>3. pc'[c] = "idle" /\ staged'[c] = NothingStaged /\ todo'[c] = {}
  BY <1>1 DEF TypeOK
<1>4. ASSUME NEW d \in Callers, pc'[d] = "locked"
      PROVE  /\ d # c /\ Portfolio(d) \in Portfolios \ {Portfolio(c)}
             /\ Portfolio(d)' = Portfolio(d) /\ Key(d)' = Key(d)
  <2>1. d # c /\ pc[d] = "locked" /\ call'[d] = call[d]
    BY <1>2, <1>3, <1>4
  <2>2. Portfolio(d) # Portfolio(c)
    BY <2>1 DEF LockInv
  <2>3. Portfolio(d) \in Portfolios
    BY DEF TypeOK, Calls, Portfolio
  <2> QED BY <2>1, <2>2, <2>3 DEF Portfolio, Key
<1>5. TypeOK'
  BY <1>1, NoCallTyped, PositionsTyped DEF TypeOK, Places
<1>6. LockInv'
  BY <1>2, <1>3 DEF LockInv, Portfolio
<1>7. StageInv'
  <2>1. ASSUME NEW d \in Callers, pc'[d] # "locked" PROVE staged'[d] = NothingStaged /\ todo'[d] = {}
    BY <1>2, <1>3, <2>1 DEF StageInv
  <2>2. ASSUME NEW d \in Callers, pc'[d] = "locked"
        PROVE  /\ \A i \in Instruments : staged'[d][i] # NoPosition =>
                     staged'[d][i].version = book'[Portfolio(d)'][i].version + 1
               /\ \A n \in todo'[d] : staged'[d][call'[d].sheet[n].instrument] = NoPosition
    <3>1. /\ pc[d] = "locked" /\ Portfolio(d)' = Portfolio(d) /\ call'[d] = call[d]
          /\ staged'[d] = staged[d] /\ todo'[d] = todo[d]
          /\ book'[Portfolio(d)] = book[Portfolio(d)]
      BY <1>2, <1>4, <2>2
    <3> QED BY <3>1 DEF StageInv
  <2> QED BY <2>1, <2>2 DEF StageInv
<1>8. BatchInv'
  <2>1. ASSUME NEW d \in Callers, pc'[d] = "locked"
        PROVE  /\ ~Imported(Portfolio(d), Key(d))'
               /\ call'[d].guarded => Content(Portfolio(d))' = seen'[d]
    <3>1. /\ ~Imported(Portfolio(d), Key(d))
          /\ call[d].guarded => Content(Portfolio(d)) = seen[d]
      BY <1>2, <1>4, <2>1 DEF BatchInv
    <3>2. Portfolio(d)' = Portfolio(d) /\ Key(d)' = Key(d) /\ call'[d] = call[d] /\ seen'[d] = seen[d]
      BY <1>2, <1>4, <2>1
    <3>3. book'[Portfolio(d)] = book[Portfolio(d)] /\ imports'[Portfolio(d)] = imports[Portfolio(d)]
      BY <1>4, <2>1
    <3> QED BY <3>1, <3>2, <3>3 DEF Imported, Content
  <2>2. \A d \in Callers :
            pc'[d] \in {"confirmed", "prepared", "locked"} => call'[d].guarded \in Guards
    BY <1>2, <1>3 DEF BatchInv
  <2> QED BY <2>1, <2>2 DEF BatchInv
<1> QED BY <1>5, <1>6, <1>7, <1>8

\* What a batch publishes: the next version of what it has written.
LEMMA PublishedVersions ==
    ASSUME IInv, NEW c \in Callers, pc[c] = "locked"
    PROVE  /\ Published(c) \in [Portfolios -> [Instruments -> Position]]
           /\ \A p \in Portfolios \ {Portfolio(c)} : Published(c)[p] = book[p]
           /\ \A p \in Portfolios, i \in Instruments :
                  \/ Published(c)[p][i] = book[p][i]
                  \/ Published(c)[p][i].version = book[p][i].version + 1
<1> USE DEF IInv
<1>1. Portfolio(c) \in Portfolios /\ book \in [Portfolios -> [Instruments -> Position]]
  BY DEF TypeOK, Calls, Portfolio
<1>2. \A i \in Instruments :
          /\ Present(c, i) \in Position
          /\ \/ Present(c, i) = book[Portfolio(c)][i]
             \/ Present(c, i).version = book[Portfolio(c)][i].version + 1
  BY <1>1 DEF TypeOK, StageInv, Present
<1>3. [i \in Instruments |-> Present(c, i)] \in [Instruments -> Position]
  BY <1>2
<1> DEFINE new == [i \in Instruments |-> Present(c, i)]
<1>4. /\ Published(c) = [book EXCEPT ![Portfolio(c)] = new]
      /\ \A i \in Instruments : new[i] = Present(c, i)
  BY DEF Published
<1> HIDE DEF new
<1>5. /\ Published(c)[Portfolio(c)] = new
      /\ \A p \in Portfolios \ {Portfolio(c)} : Published(c)[p] = book[p]
  BY <1>1, <1>4
<1> QED BY <1>1, <1>2, <1>3, <1>4, <1>5 DEF new

LEMMA CommitBatchKeeps ==
    ASSUME IInv, NEW c \in Callers, CommitBatch(c)
    PROVE  IInv'
<1> USE DEF IInv
<1> DEFINE p == Portfolio(c)
<1>1. /\ pc[c] = "locked" /\ Return(c) /\ book' = Published(c)
      /\ catalog' = catalog \cup held[c]
      /\ imports' = [imports EXCEPT ![p] = Append(@, Key(c))]
  BY DEF CommitBatch
<1>2. p \in Portfolios /\ Key(c) \in Keys /\ imports[p] \in Seq(Keys)
  BY DEF TypeOK, Calls, Portfolio, Key, Keys
<1>3. /\ imports' \in [Portfolios -> Seq(Keys)]
      /\ imports'[p] = Append(imports[p], Key(c))
      /\ \A q \in Portfolios \ {p} : imports'[q] = imports[q]
  BY <1>1, <1>2 DEF TypeOK
<1>4. ImportedOnce'
  <2>1. \A m \in DOMAIN imports[p] : imports[p][m] # Key(c)
    BY <1>1 DEF BatchInv, Imported
  <2>2. \A m, n \in DOMAIN imports'[p] : imports'[p][m] = imports'[p][n] => m = n
    <3>1. \A m, n \in DOMAIN imports[p] : imports[p][m] = imports[p][n] => m = n
      BY <1>2 DEF BatchInv, ImportedOnce
    <3> HIDE DEF p
    <3> QED BY <1>2, <1>3, <2>1, <3>1
  <2>3. \A q \in Portfolios \ {p} : \A m, n \in DOMAIN imports'[q] :
            imports'[q][m] = imports'[q][n] => m = n
    BY <1>3 DEF BatchInv, ImportedOnce
  <2> QED BY <2>2, <2>3 DEF ImportedOnce
<1>5. catalog' \in SUBSET Instruments
  BY <1>1 DEF TypeOK
<1> QED BY <1>1, <1>3, <1>4, <1>5, PublishedVersions, CommitKeeps

LEMMA CommitPositionKeeps ==
    ASSUME IInv, NEW c \in Callers, CommitPosition(c)
    PROVE  /\ IInv'
           /\ \A p \in Portfolios, i \in Instruments :
                  book'[p][i] = book[p][i] \/ book'[p][i].version = book[p][i].version + 1
<1> USE DEF IInv
<1> DEFINE p == Portfolio(c)
           i == call[c].instrument
           new == Upserted(book[p][i], call[c].amount)
<1>1. /\ pc[c] = "writing" /\ Return(c) /\ book' = [book EXCEPT ![p][i] = new]
      /\ UNCHANGED <<imports, catalog>>
  BY DEF CommitPosition
<1>2. p \in Portfolios /\ i \in Instruments /\ call[c].amount \in Nat /\ book[p][i] \in Position
  BY <1>1 DEF TypeOK, Calls, Portfolio
<1>3. new \in Position /\ new.version = book[p][i].version + 1
  BY <1>2 DEF Upserted, Position
<1> HIDE DEF new, p, i
<1>4. book' \in [Portfolios -> [Instruments -> Position]]
  BY <1>1, <1>2, <1>3 DEF TypeOK
<1>5. /\ book'[p][i] = new
      /\ \A j \in Instruments \ {i} : book'[p][j] = book[p][j]
      /\ \A q \in Portfolios \ {p} : book'[q] = book[q]
  BY <1>1, <1>2 DEF TypeOK
<1>6. IInv'
  <2>1. ImportedOnce' /\ imports' \in [Portfolios -> Seq(Keys)] /\ catalog' \in SUBSET Instruments
    BY <1>1 DEF BatchInv, ImportedOnce, TypeOK
  <2>2. \A q \in Portfolios \ {Portfolio(c)} : book'[q] = book[q] /\ imports'[q] = imports[q]
    BY <1>1, <1>5 DEF p
  <2> QED BY <1>1, <1>4, <2>1, <2>2, CommitKeeps
<1> QED BY <1>3, <1>5, <1>6

-----------------------------------------------------------------------------
LEMMA WorkKeeps ==
    ASSUME IInv, NEW c \in Callers, Work(c)
    PROVE  IInv'
<1>1. CASE FindImportAudit(c)
  <2>1. CASE Refuse(c)
    BY <2>1, RefuseKeeps
  <2>2. CASE ~Refuse(c)
    <3>1. /\ pc[c] = "confirmed" /\ Goto(c, "prepared")
          /\ UNCHANGED <<book, imports, call, seen, txnVars, calls>> /\ catalog' = catalog
      BY <1>1, <2>2 DEF FindImportAudit
    <3>2. catalog' \in SUBSET Instruments
      BY <3>1 DEF IInv, TypeOK
    <3> QED BY <3>1, <3>2, GotoKeeps
  <2> QED BY <2>1, <2>2
<1>2. CASE UpsertInstrument(c)
  <2>1. catalog' \in SUBSET Instruments
    BY <1>2 DEF UpsertInstrument, IInv, TypeOK
  <2> QED BY <1>2, <2>1, GotoKeeps DEF UpsertInstrument
<1> QED BY <1>1, <1>2, LockBatchKeeps, CommitBatchKeeps, LockRowKeeps, WriteRowKeeps,
           LockPortfolioKeeps, CommitPositionKeeps, RefuseKeeps DEF Work, EndCircle

LEMMA Invariant == Spec => []IInv
<1>1. Init => IInv
  <2> SUFFICES ASSUME Init PROVE IInv
    OBVIOUS
  <2>1. TypeOK
    <3>1. /\ book \in [Portfolios -> [Instruments -> Position]]
          /\ imports \in [Portfolios -> Seq(Keys)]
      BY PositionsTyped DEF Init
    <3>2. call \in [Callers -> Calls] /\ seen \in [Callers -> Contents]
      BY NoCallTyped, PositionsTyped DEF Init
    <3>3. staged \in [Callers -> [Instruments -> Position]]
      BY PositionsTyped DEF Init
    <3>4. pc \in [Callers -> Places] /\ \A c \in Callers : pc[c] = "idle" /\ todo[c] = {}
      BY DEF Init, Places
    <3>5. /\ catalog \subseteq Instruments /\ calls \in 0 .. MaxCalls
          /\ toLock \in [Callers -> SUBSET Instruments]
          /\ held \in [Callers -> SUBSET Instruments] /\ shared \in [Callers -> SUBSET Instruments]
          /\ todo \in [Callers -> SUBSET Nat]
      BY DEF Init
    <3> QED BY <3>1, <3>2, <3>3, <3>4, <3>5 DEF TypeOK
  <2>2. LockInv /\ StageInv
    BY DEF Init, LockInv, StageInv
  <2>3. BatchInv
    BY DEF Init, BatchInv, ImportedOnce
  <2> QED BY <2>1, <2>2, <2>3 DEF IInv
<1>2. IInv /\ [Next]_vars => IInv'
  <2> SUFFICES ASSUME IInv, [Next]_vars PROVE IInv'
    OBVIOUS
  <2>1. CASE UNCHANGED vars
    <3>1. TypeOK'
      BY <2>1 DEF vars, txnVars, IInv, TypeOK
    <3>2. LockInv' /\ StageInv'
      BY <2>1 DEF vars, txnVars, IInv, LockInv, StageInv, Portfolio
    <3>3. BatchInv'
      BY <2>1 DEF vars, txnVars, IInv, BatchInv, ImportedOnce, Imported, Key, Portfolio, Content
    <3> QED BY <3>1, <3>2, <3>3 DEF IInv
  <2>2. CASE Next
    BY <2>2, PreviewKeeps, ConfirmKeeps, ManualKeeps, WorkKeeps, RefuseKeeps DEF Next, Abandon
  <2> QED BY <2>1, <2>2
<1> QED BY <1>1, <1>2, PTL DEF Spec

\* Positions, claims and the calls' own state keep their types.
THEOREM BookTypeCorrect == Spec => []TypeOK
BY Invariant, PTL DEF IInv

\* A sheet is applied once per portfolio and policy, whatever is confirmed again.
THEOREM ClaimsAreUnique == Spec => []ImportedOnce
<1>1. IInv => ImportedOnce
  BY DEF IInv, BatchInv
<1> QED BY <1>1, Invariant, PTL

Asks(c) ==
    \/ \E p \in Portfolios, sheet \in Sheets : Preview(c, p, sheet)
    \/ \E policy \in Policies, guarded \in Guards, fills \in Fills :
           Confirm(c, policy, guarded, fills)
    \/ \E p \in Portfolios, i \in Instruments, amount \in Amounts, fills \in Fills :
           RecordManualPosition(c, p, i, amount, fills)

\* Positions and claims change in two actions only.
LEMMA OnlyCommitsWrite ==
    ASSUME NEW c \in Callers, Asks(c) \/ Work(c) \/ Abandon(c)
    PROVE  UNCHANGED <<book, imports>> \/ CommitBatch(c) \/ CommitPosition(c)
<1>1. CASE Asks(c)
  BY <1>1 DEF Asks, Preview, Confirm, RecordManualPosition, Refuse
<1>2. CASE Work(c)
  BY <1>2 DEF Work, FindImportAudit, LockBatch, LockRow, WriteRow, UpsertInstrument,
              LockPortfolio, EndCircle, Refuse
<1>3. CASE Abandon(c)
  BY <1>3 DEF Abandon, Refuse
<1> QED BY <1>1, <1>2, <1>3

\* No write of a position is lost, for any number of writers by hand and by
\* import.
THEOREM WritesAreVersions == Spec => EveryWriteIsAVersion
<1>1. IInv /\ [Next]_vars =>
        [\A p \in Portfolios, i \in Instruments :
            book'[p][i] # book[p][i] => book'[p][i].version = book[p][i].version + 1]_vars
  <2> SUFFICES ASSUME IInv, Next, NEW p \in Portfolios, NEW i \in Instruments,
                      book'[p][i] # book[p][i]
               PROVE  book'[p][i].version = book[p][i].version + 1
    OBVIOUS
  <2>1. PICK c \in Callers : CommitBatch(c) \/ CommitPosition(c)
    <3>1. PICK c \in Callers : Asks(c) \/ Work(c) \/ Abandon(c)
      BY DEF Next, Asks
    <3> QED BY <3>1, OnlyCommitsWrite
  <2>2. CASE CommitBatch(c)
    BY <2>2, PublishedVersions DEF CommitBatch
  <2>3. CASE CommitPosition(c)
    BY <2>3, CommitPositionKeeps
  <2> QED BY <2>1, <2>2, <2>3
<1> QED BY <1>1, Invariant, PTL DEF Spec, EveryWriteIsAVersion

\* When every confirmation carries the snapshot of its preview, an import
\* changes positions only from what its user was shown.
THEOREM GuardedImportsAreSeen ==
    ASSUME Guards = {TRUE}
    PROVE  Spec => NeverSilentlyOverwrites
<1>1. IInv /\ [Next]_vars =>
        [\A c \in Callers : CommitBatch(c) =>
            \A i \in Instruments : staged[c][i] # NoPosition =>
                Content(Portfolio(c))[i] = seen[c][i]]_vars
  BY DEF IInv, BatchInv, CommitBatch
<1> QED BY <1>1, Invariant, PTL DEF Spec, NeverSilentlyOverwrites

-----------------------------------------------------------------------------
(* PortfolioBook implements AtomicImport.  The commit of a batch maps to    *)
(* Import; that it makes of the holdings what Import does follows from what *)
(* the earlier steps of the call have checked and staged.                   *)

\* The rows of its sheet that the transaction of c writes.
Rows(c) == Written(call[c].sheet, seen[c], call[c].policy)
InstrumentOf(c, n) == call[c].sheet[n].instrument

\* What a call asks has been checked by the time its transaction begins, and
\* what a batch has staged is what its rows make of the positions it was shown.
ImportOf(c) ==
    /\ pc[c] \in {"previewed", "confirmed", "prepared", "locked"} =>
           call[c].sheet \in Sheets
    /\ pc[c] \in {"confirmed", "prepared", "locked"} =>
        /\ Invalid(call[c].sheet) = {}
        /\ call[c].policy = "NONE" => Conflicts(call[c].sheet, seen[c]) = {}
    /\ pc[c] = "locked" =>
        /\ todo[c] \subseteq Rows(c)
        /\ \A n \in Rows(c) \ todo[c] :
            /\ staged[c][InstrumentOf(c, n)] # NoPosition
            /\ staged[c][InstrumentOf(c, n)].quantity =
                   Merged(call[c].sheet[n], seen[c], call[c].policy)
        /\ \A i \in Instruments : staged[c][i] # NoPosition =>
               \E n \in Rows(c) \ todo[c] : InstrumentOf(c, n) = i
    /\ pc[c] \in {"manual", "cataloged", "writing"} => call[c].amount \in Amounts

ImportInv == \A c \in Callers : ImportOf(c)

\* What a call has checked does not depend on other calls.
LEMMA ImportUnchanged ==
    ASSUME NEW d \in Callers, ImportOf(d),
           pc'[d] = pc[d], call'[d] = call[d], seen'[d] = seen[d],
           todo'[d] = todo[d], staged'[d] = staged[d]
    PROVE  ImportOf(d)'
  BY DEF ImportOf, Rows, InstrumentOf

\* A step of one call leaves the state of the others alone.
LEMMA OneCallMoves ==
    ASSUME TypeOK, NEW c \in Callers, Asks(c) \/ Work(c) \/ Abandon(c)
    PROVE  \A d \in Callers \ {c} :
               /\ pc'[d] = pc[d] /\ call'[d] = call[d] /\ seen'[d] = seen[d]
               /\ todo'[d] = todo[d] /\ staged'[d] = staged[d]
<1> DEFINE Goal == \A d \in Callers \ {c} :
                       /\ pc'[d] = pc[d] /\ call'[d] = call[d] /\ seen'[d] = seen[d]
                       /\ todo'[d] = todo[d] /\ staged'[d] = staged[d]
<1> USE DEF TypeOK, Goto, txnVars
<1>1. ASSUME Return(c) PROVE Goal
  BY <1>1 DEF Return
<1>2. ASSUME Refuse(c) PROVE Goal
  BY <1>1, <1>2 DEF Refuse
<1>3. ASSUME NEW p \in Portfolios, NEW sheet \in Sheets, Preview(c, p, sheet) PROVE Goal
  BY <1>3 DEF Preview
<1>4. ASSUME NEW policy \in Policies, NEW guarded \in Guards, NEW fills \in Fills,
             Confirm(c, policy, guarded, fills)
      PROVE  Goal
  BY <1>2, <1>4 DEF Confirm
<1>5. ASSUME NEW p \in Portfolios, NEW i \in Instruments, NEW amount \in Amounts,
             NEW fills \in Fills, RecordManualPosition(c, p, i, amount, fills)
      PROVE  Goal
  BY <1>5 DEF RecordManualPosition
<1>6. CASE FindImportAudit(c) \/ LockBatch(c)
  BY <1>2, <1>6 DEF FindImportAudit, LockBatch
<1>7. CASE CommitBatch(c) \/ CommitPosition(c) \/ EndCircle(c) \/ Abandon(c)
  BY <1>1, <1>2, <1>7 DEF CommitBatch, CommitPosition, EndCircle, Abandon
<1>8. CASE UpsertInstrument(c) \/ LockPortfolio(c) \/ \E i \in Instruments : LockRow(c, i)
  BY <1>8 DEF UpsertInstrument, LockPortfolio, LockRow
<1>9. ASSUME NEW n \in todo[c], WriteRow(c, n) PROVE Goal
  BY <1>9 DEF WriteRow
<1> QED BY <1>3, <1>4, <1>5, <1>6, <1>7, <1>8, <1>9 DEF Asks, Work

\* The steps of a call keep what it has checked and staged.
LEMMA ImportStep ==
    ASSUME IInv, NEW c \in Callers, ImportOf(c), Asks(c) \/ Work(c) \/ Abandon(c)
    PROVE  ImportOf(c)'
<1> USE DEF IInv
<1>1. ASSUME pc'[c] = "idle" PROVE ImportOf(c)'
  BY <1>1 DEF ImportOf
<1>2. ASSUME Return(c) \/ Refuse(c) PROVE ImportOf(c)'
  BY <1>1, <1>2 DEF Return, Refuse, Goto, TypeOK
<1>3. ASSUME NEW p \in Portfolios, NEW sheet \in Sheets, Preview(c, p, sheet)
      PROVE  ImportOf(c)'
  <2>1. pc'[c] = "previewed" /\ call'[c].sheet = sheet
    BY <1>3, NoCallTyped DEF Preview, Goto, TypeOK, NoCall
  <2> QED BY <2>1 DEF ImportOf
<1>4. ASSUME NEW policy \in Policies, NEW guarded \in Guards, NEW fills \in Fills,
             Confirm(c, policy, guarded, fills), ~Refuse(c)
      PROVE  ImportOf(c)'
  <2>1. /\ pc[c] = "previewed" /\ pc'[c] = "confirmed"
        /\ ~Refused(c, policy, guarded, Content(Portfolio(c)))
        /\ call' = [call EXCEPT ![c].policy = policy, ![c].guarded = guarded,
                                 ![c].fills = fills]
        /\ seen'[c] = Content(Portfolio(c))
    BY <1>4 DEF Confirm, Goto, TypeOK
  <2>2. call'[c].sheet = call[c].sheet /\ call'[c].policy = policy
    <3> DEFINE asked == [call[c] EXCEPT !.policy = policy, !.guarded = guarded,
                                     !.fills = fills]
    <3>1. call'[c] = asked
      BY <2>1 DEF TypeOK
    <3>2. asked.sheet = call[c].sheet /\ asked.policy = policy
      BY DEF TypeOK, Calls
    <3> QED BY <3>1, <3>2
  <2> QED BY <2>1, <2>2 DEF Refused, ImportOf
<1>5. ASSUME NEW p \in Portfolios, NEW i \in Instruments, NEW amount \in Amounts,
             NEW fills \in Fills, RecordManualPosition(c, p, i, amount, fills)
      PROVE  ImportOf(c)'
  <2>1. pc'[c] = "manual" /\ call'[c].amount = amount
    BY <1>5, NoCallTyped DEF RecordManualPosition, Goto, TypeOK, NoCall
  <2> QED BY <2>1 DEF ImportOf
<1>6. CASE FindImportAudit(c)
  BY <1>2, <1>6 DEF FindImportAudit, ImportOf, Goto, TypeOK
<1>7. CASE LockBatch(c) /\ ~Refuse(c)
  <2>1. /\ pc[c] = "prepared" /\ pc'[c] = "locked" /\ todo'[c] = Rows(c)
        /\ call' = call /\ seen' = seen /\ staged' = staged
    BY <1>7 DEF LockBatch, Goto, TypeOK, Rows
  <2>2. Rows(c)' = Rows(c)
    BY <2>1 DEF Rows
  <2>3. \A i \in Instruments : staged[c][i] = NoPosition
    BY <2>1 DEF StageInv, NothingStaged
  <2> QED BY <2>1, <2>2, <2>3 DEF ImportOf
<1>8. CASE UpsertInstrument(c) \/ LockPortfolio(c)
  BY <1>8 DEF UpsertInstrument, LockPortfolio, ImportOf, Goto, TypeOK
<1>9. ASSUME NEW i \in Instruments, LockRow(c, i) PROVE ImportOf(c)'
  BY <1>9, ImportUnchanged DEF LockRow
<1>10. ASSUME NEW n \in todo[c], WriteRow(c, n) PROVE ImportOf(c)'
  <2> DEFINE i == InstrumentOf(c, n)
             quantity == Merged(call[c].sheet[n], seen[c], call[c].policy)
             new == Upserted(Present(c, i), quantity)
  <2>1. /\ pc[c] = "locked" /\ todo'[c] = todo[c] \ {n}
        /\ staged' = [staged EXCEPT ![c][i] = new]
        /\ pc' = pc /\ call' = call /\ seen' = seen
    BY <1>10 DEF WriteRow, TypeOK, InstrumentOf
  <2>2. /\ Rows(c) \subseteq Kept(call[c].sheet)
        /\ call[c].sheet \in Sheets \cup {<<>>} /\ n \in Rows(c)
    BY <2>1 DEF Rows, Written, TypeOK, Calls, ImportOf
  <2>3. /\ \A m \in Rows(c) : InstrumentOf(c, m) \in Instruments
        /\ \A m \in Rows(c) \ {n} : InstrumentOf(c, m) # i
    BY <2>2, KeptRows DEF InstrumentOf
  <2>4. Present(c, i) \in Position
    BY <2>2, <2>3 DEF TypeOK, Present, Portfolio, Calls
  <2>5. new.quantity = quantity /\ new # NoPosition
    BY <2>4 DEF Upserted, Position, NoPosition
  <2> HIDE DEF i, quantity, new
  <2>6. /\ staged'[c][i] = new
        /\ \A j \in Instruments \ {i} : staged'[c][j] = staged[c][j]
    BY <2>1, <2>2, <2>3 DEF TypeOK, i
  <2>7. Rows(c)' = Rows(c) /\ \A m : InstrumentOf(c, m)' = InstrumentOf(c, m)
    BY <2>1 DEF Rows, InstrumentOf
  <2>8. \A m \in Rows(c) \ todo'[c] :
            /\ staged'[c][InstrumentOf(c, m)] # NoPosition
            /\ staged'[c][InstrumentOf(c, m)].quantity =
                   Merged(call[c].sheet[m], seen[c], call[c].policy)
    <3> SUFFICES ASSUME NEW m \in Rows(c) \ todo'[c]
                 PROVE  /\ staged'[c][InstrumentOf(c, m)] # NoPosition
                        /\ staged'[c][InstrumentOf(c, m)].quantity =
                               Merged(call[c].sheet[m], seen[c], call[c].policy)
      OBVIOUS
    <3>1. CASE m = n
      BY <2>5, <2>6, <3>1 DEF i, quantity
    <3>2. CASE m # n
      BY <2>1, <2>3, <2>6, <3>2 DEF ImportOf
    <3> QED BY <3>1, <3>2
  <2>9. \A j \in Instruments : staged'[c][j] # NoPosition =>
            \E m \in Rows(c) \ todo'[c] : InstrumentOf(c, m) = j
    <3> SUFFICES ASSUME NEW j \in Instruments, staged'[c][j] # NoPosition
                 PROVE  \E m \in Rows(c) \ todo'[c] : InstrumentOf(c, m) = j
      OBVIOUS
    <3>1. CASE j = i
      BY <2>1, <2>2, <3>1 DEF i
    <3>2. CASE j # i
      BY <2>1, <2>6, <3>2 DEF ImportOf
    <3> QED BY <3>1, <3>2
  <2> QED BY <2>1, <2>7, <2>8, <2>9 DEF ImportOf
<1>11. CASE CommitBatch(c) \/ CommitPosition(c) \/ EndCircle(c) \/ Abandon(c)
  BY <1>2, <1>11 DEF CommitBatch, CommitPosition, EndCircle, Abandon
<1> QED BY <1>2, <1>3, <1>4, <1>5, <1>6, <1>7, <1>8, <1>9, <1>10, <1>11 DEF Asks, Work

LEMMA ImportInductive ==
    ASSUME IInv, ImportInv, [Next]_vars
    PROVE  ImportInv'
<1>1. CASE UNCHANGED vars
  BY <1>1, ImportUnchanged DEF vars, txnVars, ImportInv
<1>2. ASSUME NEW c \in Callers, Asks(c) \/ Work(c) \/ Abandon(c) PROVE ImportInv'
  <2>1. ImportOf(c)'
    BY <1>2, ImportStep DEF ImportInv
  <2>2. \A d \in Callers \ {c} : ImportOf(d)'
    BY <1>2, OneCallMoves, ImportUnchanged DEF ImportInv, IInv
  <2> QED BY <2>1, <2>2 DEF ImportInv
<1> QED BY <1>1, <1>2 DEF Next, Asks

-----------------------------------------------------------------------------
(* The commit of a batch is one step of AtomicImport.                      *)

\* A set of natural numbers that is not empty has a least element.
LEMMA LeastNumber ==
    ASSUME NEW S \in SUBSET Nat, S # {}
    PROVE  \E n \in S : \A m \in S : n <= m
<1> DEFINE R == {ss \in Nat \X Nat : ss[1] < ss[2]}
<1>1. IsWellFoundedOn(R, Nat)
  BY NatLessThanWellFounded DEF OpToRel
<1> HIDE DEF R
<1>2. PICK n \in S : \A m \in S : <<m, n>> \notin R
  BY <1>1, WFMin
<1>3. ASSUME NEW m \in S, m < n PROVE FALSE
  <2>1. <<m, n>> \in R
    BY <1>3 DEF R
  <2> QED BY <1>2, <2>1
<1> QED BY <1>3

\* In a sheet without invalid rows the first row that names an instrument is the
\* one that is kept.
LEMMA FirstRowIsKept ==
    ASSUME NEW sheet \in Sheets, Invalid(sheet) = {}, NEW i \in Atomic!Named(sheet)
    PROVE  \E n \in Kept(sheet) :
               sheet[n].instrument = i /\ Atomic!Listed(sheet, i) = sheet[n].quantity
<1> DEFINE S == {n \in DOMAIN sheet : sheet[n].instrument = i}
           First(n) == /\ sheet[n].instrument = i
                       /\ \A m \in 1 .. n - 1 : sheet[m].instrument # i
<1>1. DOMAIN sheet \subseteq Nat /\ DOMAIN sheet = 1 .. Len(sheet) /\ Len(sheet) \in Nat
  BY SheetTyped
<1>2. PICK n \in S : \A m \in S : n <= m
  <2>1. S \in SUBSET Nat /\ S # {}
    BY <1>1 DEF Atomic!Named
  <2> HIDE DEF S
  <2> QED BY <2>1, LeastNumber
<1>3. n \in Kept(sheet)
  BY <1>1, <1>2 DEF Kept, Duplicates
<1>4. n \in DOMAIN sheet /\ First(n)
  BY <1>1, <1>2
<1>5. \A m \in DOMAIN sheet : First(m) => m = n
  BY <1>1, <1>4
<1>6. Atomic!Listed(sheet, i) = sheet[CHOOSE m \in DOMAIN sheet : First(m)].quantity
  BY DEF Atomic!Listed
<1> HIDE DEF First
<1>7. (CHOOSE m \in DOMAIN sheet : First(m)) = n
  BY <1>4, <1>5
<1> QED BY <1>2, <1>3, <1>6, <1>7

\* What a committed batch leaves in the portfolio is what its user was promised.
LEMMA BatchIsImport ==
    ASSUME IInv, ImportInv, NEW c \in Callers, pc[c] = "locked", todo[c] = {},
           Content(Portfolio(c)) = seen[c], NEW i \in Instruments
    PROVE  Present(c, i).quantity =
               IF i \in Atomic!Named(call[c].sheet)
               THEN Atomic!After(seen[c][i], Atomic!Listed(call[c].sheet, i), call[c].policy)
               ELSE seen[c][i]
<1> DEFINE sheet == call[c].sheet
           policy == call[c].policy
<1>1. /\ sheet \in Sheets /\ Invalid(sheet) = {}
      /\ policy = "NONE" => Conflicts(sheet, seen[c]) = {}
      /\ \A n \in Rows(c) :
          /\ staged[c][sheet[n].instrument] # NoPosition
          /\ staged[c][sheet[n].instrument].quantity = Merged(sheet[n], seen[c], policy)
      /\ \A j \in Instruments : staged[c][j] # NoPosition =>
             \E n \in Rows(c) : sheet[n].instrument = j
  <2>1. ImportOf(c) /\ Rows(c) \ todo[c] = Rows(c)
    BY DEF ImportInv
  <2> QED BY <2>1 DEF ImportOf, InstrumentOf
<1>2. policy \in {"NONE", "SKIP", "REPLACE", "UPDATE"} /\ seen[c][i] \in Nat \cup {None}
  BY DEF IInv, TypeOK, Calls, Contents
<1>3. Rows(c) \subseteq Kept(sheet) /\ Kept(sheet) \subseteq DOMAIN sheet
  BY <1>1, KeptRows DEF Rows, Written
<1>4. ASSUME staged[c][i] = NoPosition
      PROVE  Present(c, i).quantity = seen[c][i]
  BY <1>4 DEF Present, Content, ContentOf
<1>5. CASE i \in Atomic!Named(sheet)
  <2>1. PICK n \in Kept(sheet) :
            sheet[n].instrument = i /\ Atomic!Listed(sheet, i) = sheet[n].quantity
    BY <1>1, <1>5, FirstRowIsKept
  <2>2. CASE n \in Rows(c)
    <3>1. Present(c, i).quantity = Merged(sheet[n], seen[c], policy)
      BY <1>1, <2>1, <2>2 DEF Present
    <3>2. policy \in {"REPLACE", "UPDATE"} \/ seen[c][i] = None
      BY <2>1, <2>2 DEF Rows, Written, Conflicts
    <3> QED BY <1>2, <1>5, <2>1, <3>1, <3>2 DEF Merged, Atomic!After
  <2>3. CASE n \notin Rows(c)
    <3>1. policy \notin {"REPLACE", "UPDATE"} /\ n \in Conflicts(sheet, seen[c])
      BY <2>1, <2>3 DEF Rows, Written
    <3>2. policy = "SKIP" /\ seen[c][i] # None
      BY <1>1, <1>2, <2>1, <3>1 DEF Conflicts
    <3>3. \A m \in Rows(c) : sheet[m].instrument # i
      BY <1>1, <1>3, <2>1, <2>3, KeptRows
    <3>4. Present(c, i).quantity = seen[c][i]
      BY <1>1, <1>4, <3>3
    <3> QED BY <1>5, <3>2, <3>4 DEF Atomic!After
  <2> QED BY <2>2, <2>3
<1>6. CASE i \notin Atomic!Named(sheet)
  <2>1. \A n \in Rows(c) : sheet[n].instrument # i
    BY <1>3, <1>6 DEF Atomic!Named
  <2> QED BY <1>1, <1>4, <1>6, <2>1
<1> QED BY <1>5, <1>6

\* The claims of a portfolio as a set grow by the claim that is appended.
LEMMA ClaimAppended ==
    ASSUME NEW s \in Seq(Keys), NEW key \in Keys, NEW t, t = Append(s, key)
    PROVE  {t[n] : n \in DOMAIN t} = {s[n] : n \in DOMAIN s} \cup {key}
<1>1. /\ DOMAIN s = 1 .. Len(s) /\ Len(s) \in Nat
      /\ DOMAIN t = 1 .. Len(s) + 1
      /\ \A n \in 1 .. Len(s) : t[n] = s[n]
      /\ t[Len(s) + 1] = key
  OBVIOUS
<1> QED BY <1>1

HoldingsOf == [p \in Portfolios |-> Content(p)]
ClaimsOf(p) == {imports[p][n] : n \in DOMAIN imports[p]}
AppliedOf == [p \in Portfolios |-> ClaimsOf(p)]

\* With the snapshot checked under the lock a commit is one Import.
LEMMA CommitBatchImports ==
    ASSUME IInv, ImportInv, Guards = {TRUE}, NEW c \in Callers, CommitBatch(c)
    PROVE  Atomic!Next
<1> USE DEF IInv
<1>1. /\ pc[c] = "locked" /\ todo[c] = {}
      /\ book' = Published(c)
      /\ imports' = [imports EXCEPT ![Portfolio(c)] = Append(@, Key(c))]
  BY DEF CommitBatch
<1>2. PICK p \in Portfolios : p = Portfolio(c)
  BY DEF TypeOK, Calls, Portfolio
<1>3. PICK sheet \in Sheets : sheet = call[c].sheet /\ Invalid(sheet) = {}
  BY <1>1 DEF ImportInv, ImportOf
<1>4. PICK policy \in {"NONE", "SKIP", "REPLACE", "UPDATE"} : policy = call[c].policy
  BY DEF TypeOK, Calls
<1>5. /\ Content(p) = seen[c] /\ ~Imported(p, <<sheet, policy>>)
      /\ policy = "NONE" => Conflicts(sheet, seen[c]) = {}
  BY <1>1, <1>2, <1>3, <1>4 DEF BatchInv, Key, ImportInv, ImportOf
<1>6. \A n \in DOMAIN sheet : sheet[n].quantity # Bad
  BY <1>3 DEF Invalid
<1>7. <<sheet, policy>> \notin AppliedOf[p]
  BY <1>5 DEF AppliedOf, ClaimsOf, Imported
<1>8. policy = "NONE" => \A i \in Atomic!Named(sheet) : HoldingsOf[p][i] = None
  <2> SUFFICES ASSUME policy = "NONE", NEW i \in Atomic!Named(sheet)
               PROVE  seen[c][i] = None
    BY <1>5 DEF HoldingsOf
  <2>1. PICK n \in Kept(sheet) : sheet[n].instrument = i
    BY <1>3, FirstRowIsKept
  <2> QED BY <1>5, <2>1 DEF Conflicts
<1>9. HoldingsOf' = [HoldingsOf EXCEPT ![p] = [i \in Instruments |->
          IF i \in Atomic!Named(sheet)
          THEN Atomic!After(@[i], Atomic!Listed(sheet, i), policy) ELSE @[i]]]
  <2>1. book'[p] = [i \in Instruments |-> Present(c, i)]
        /\ \A q \in Portfolios \ {p} : book'[q] = book[q]
    BY <1>1, <1>2 DEF Published, TypeOK
  <2>2. Content(p)' = [i \in Instruments |-> Present(c, i).quantity]
    <3>1. Content(p)' = [i \in Instruments |-> book'[p][i].quantity]
      BY DEF Content, ContentOf
    <3> QED BY <2>1, <3>1
  <2>3. \A i \in Instruments :
            Present(c, i).quantity =
                IF i \in Atomic!Named(sheet)
                THEN Atomic!After(seen[c][i], Atomic!Listed(sheet, i), policy)
                ELSE seen[c][i]
    BY <1>1, <1>2, <1>3, <1>4, <1>5, BatchIsImport
  <2>4. \A q \in Portfolios \ {p} : Content(q)' = Content(q)
    BY <2>1 DEF Content, ContentOf
  <2>5. HoldingsOf[p] = seen[c]
    BY <1>5 DEF HoldingsOf
  <2>6. HoldingsOf' = [HoldingsOf EXCEPT ![p] = Content(p)']
    BY <2>4 DEF HoldingsOf
  <2>7. Content(p)' = [i \in Instruments |->
            IF i \in Atomic!Named(sheet)
            THEN Atomic!After(HoldingsOf[p][i], Atomic!Listed(sheet, i), policy)
            ELSE HoldingsOf[p][i]]
    BY <2>2, <2>3, <2>5
  <2> QED BY <2>6, <2>7
<1>10. AppliedOf' = [AppliedOf EXCEPT ![p] = @ \cup {<<sheet, policy>>}]
  <2>1. Key(c) \in Keys /\ Key(c) = <<sheet, policy>>
    BY <1>3, <1>4 DEF TypeOK, Calls, Key, Keys
  <2>2. imports'[p] = Append(imports[p], <<sheet, policy>>) /\ imports[p] \in Seq(Keys)
        /\ \A q \in Portfolios \ {p} : imports'[q] = imports[q]
    BY <1>1, <1>2, <2>1 DEF TypeOK
  <2>3. ClaimsOf(p)' = {imports'[p][n] : n \in DOMAIN imports'[p]}
    BY DEF ClaimsOf
  <2>4. ClaimsOf(p)' = ClaimsOf(p) \cup {<<sheet, policy>>}
    <3>1. <<sheet, policy>> \in Keys
      BY <2>1
    <3>2. {imports'[p][n] : n \in DOMAIN imports'[p]}
              = {imports[p][n] : n \in DOMAIN imports[p]} \cup {<<sheet, policy>>}
      BY <2>2, <3>1, ClaimAppended
    <3> QED BY <2>3, <3>2 DEF ClaimsOf
  <2>5. \A q \in Portfolios \ {p} : ClaimsOf(q)' = ClaimsOf(q)
    BY <2>2 DEF ClaimsOf
  <2> QED BY <2>4, <2>5 DEF AppliedOf
<1>11. Atomic!Import(p, sheet, policy)
  BY <1>6, <1>7, <1>8, <1>9, <1>10 DEF Atomic!Import, HoldingsOf, AppliedOf, ClaimsOf
<1> QED BY <1>11 DEF Atomic!Next

\* A position recorded by hand is one Record.
LEMMA CommitPositionRecords ==
    ASSUME IInv, ImportInv, NEW c \in Callers, CommitPosition(c)
    PROVE  Atomic!Next
<1> USE DEF IInv
<1>1. /\ pc[c] = "writing" /\ imports' = imports
      /\ book' = [book EXCEPT ![Portfolio(c)][call[c].instrument] =
                     Upserted(@, call[c].amount)]
  BY DEF CommitPosition
<1>2. PICK p \in Portfolios : p = Portfolio(c)
  BY DEF TypeOK, Calls, Portfolio
<1>3. PICK i \in Instruments : i = call[c].instrument
  BY <1>1 DEF TypeOK
<1>4. PICK amount \in Amounts : amount = call[c].amount
  BY <1>1 DEF ImportInv, ImportOf
<1>5. HoldingsOf' = [HoldingsOf EXCEPT ![p][i] = amount]
  <2>1. /\ book'[p] = [book[p] EXCEPT ![i] = Upserted(book[p][i], amount)]
        /\ \A q \in Portfolios \ {p} : book'[q] = book[q]
    BY <1>1, <1>2, <1>3, <1>4 DEF TypeOK
  <2>2. Upserted(book[p][i], amount).quantity = amount
    BY DEF Upserted
  <2>3. Content(p)' = [j \in Instruments |-> book'[p][j].quantity]
    BY DEF Content, ContentOf
  <2>4. book[p] \in [Instruments -> Position]
    BY DEF TypeOK
  <2>5. Content(p)' = [Content(p) EXCEPT ![i] = amount]
    BY <2>1, <2>2, <2>3, <2>4 DEF Content, ContentOf
  <2>6. \A q \in Portfolios \ {p} : Content(q)' = Content(q)
    BY <2>1 DEF Content, ContentOf
  <2> QED BY <2>5, <2>6 DEF HoldingsOf
<1>6. AppliedOf' = AppliedOf
  BY <1>1 DEF AppliedOf, ClaimsOf
<1>7. Atomic!Record(p, i, amount)
  BY <1>5, <1>6 DEF Atomic!Record, HoldingsOf, AppliedOf, ClaimsOf
<1> QED BY <1>7 DEF Atomic!Next

\* If every confirmation carries the snapshot of its preview, an import is one
\* step of its user's: previewed, confirmed and applied to the holdings that
\* were shown, whatever is written by hand or imported meanwhile, and once for
\* each policy.
THEOREM ImportsAreAtomic ==
    ASSUME Guards = {TRUE}
    PROVE  Spec => ImplementsAtomicImport
<1>1. Init => ImportInv
  BY DEF Init, ImportInv, ImportOf
<1>2. Init => Atomic!Init
  BY DEF Init, Atomic!Init, Content, ContentOf, NoPosition
<1>3. IInv /\ ImportInv /\ [Next]_vars => ImportInv'
  BY ImportInductive
<1>4. IInv /\ ImportInv /\ [Next]_vars => [Atomic!Next]_(Atomic!atomicVars)
  <2> SUFFICES ASSUME IInv, ImportInv, [Next]_vars
               PROVE  Atomic!Next \/ UNCHANGED Atomic!atomicVars
    OBVIOUS
  <2>1. CASE UNCHANGED <<book, imports>>
    BY <2>1 DEF Atomic!atomicVars, Content
  <2>2. CASE \E c \in Callers : CommitBatch(c) \/ CommitPosition(c)
    BY <2>2, CommitBatchImports, CommitPositionRecords
  <2>3. CASE Next
    <3>1. PICK c \in Callers : Asks(c) \/ Work(c) \/ Abandon(c)
      BY <2>3 DEF Next, Asks
    <3> QED BY <2>1, <2>2, <3>1, OnlyCommitsWrite
  <2>4. CASE UNCHANGED vars
    BY <2>1, <2>4 DEF vars
  <2> QED BY <2>3, <2>4
<1> QED BY <1>1, <1>2, <1>3, <1>4, Invariant, PTL
        DEF Spec, Atomic!Spec, ImplementsAtomicImport

=============================================================================
