-------------------------- MODULE AgreementsProofs --------------------------
(***************************************************************************)
(* Theorems about agreements, for any number of agreements, lines and      *)
(* invoices: what a line says was used of it is what invoices in force     *)
(* used.  Each operation that touches the table of lines has a lemma of    *)
(* its own, so that the workflows of Receivables, which call them with     *)
(* whole invoices, can cite it.                                            *)
(***************************************************************************)
EXTENDS Agreements

RowsOK ==
  /\ agreed \in [AgreementLines -> {None} \cup AgreedRow]
  /\ usage \in [InvoiceLines -> {None} \cup UsageRow]

Accounts == RowsOK /\ ConsumptionAccounted /\ CapKeptOrExplained

UseRow == [of : Agreements, line : AgreementLines, qty : Quantities]

-----------------------------------------------------------------------------
(* What invoices use of a line.                                            *)

UsersOf(l, lines) == {x \in InUse(lines) : usage[x].line = l}

QtyUsed == [x \in InvoiceLines |-> IF usage[x] = None THEN 0 ELSE usage[x].qty]

UsesAddUp ==
  \A lines \in SUBSET InvoiceLines, l \in AgreementLines :
    /\ IsFiniteSet(UsersOf(l, lines))
    /\ UsersOf(l, lines) \in SUBSET InvoiceLines
    /\ \A x \in InvoiceLines : QtyUsed[x] \in Nat
    /\ UsedOf(l, lines) = SumOver(QtyUsed, UsersOf(l, lines))
    /\ UsedOf(l, lines) \in Nat

(* The sum over what is in use is that of one function for all lines, of   *)
(* naturals, so that the lemmas of Sums apply.                             *)
LEMMA UsedIsSum == RowsOK => UsesAddUp
<1> SUFFICES ASSUME RowsOK, NEW lines \in SUBSET InvoiceLines, NEW l \in AgreementLines
             PROVE  UsesAddUp!(lines, l)
  BY DEF UsesAddUp
<1> DEFINE f == [x \in InUse(lines) |-> usage[x].qty]
<1>1. UsersOf(l, lines) \in SUBSET InvoiceLines /\ IsFiniteSet(UsersOf(l, lines))
  BY AgreementAssumption, FS_Subset DEF UsersOf, InUse
<1>2. \A x \in InvoiceLines : QtyUsed[x] \in Nat
  BY AgreementAssumption DEF QtyUsed, RowsOK, UsageRow
<1>3. \A x \in UsersOf(l, lines) : QtyUsed[x] \in Int /\ QtyUsed[x] = f[x]
  BY <1>2 DEF UsersOf, InUse, QtyUsed
<1>4. UsedOf(l, lines) = SumOver(f, UsersOf(l, lines))
  BY DEF UsedOf, UsersOf
<1> HIDE DEF f
<1>5. SumOver(QtyUsed, UsersOf(l, lines)) = SumOver(f, UsersOf(l, lines))
  BY <1>1, <1>3, SumSame
<1>6. SumOver(QtyUsed, UsersOf(l, lines)) \in Nat
  BY <1>1, <1>2, SumNat
<1> QED
  BY <1>1, <1>2, <1>4, <1>5, <1>6

LEMMA UsedIsSumAfter == RowsOK' => UsesAddUp'
BY UsedIsSum, PTL

(* A line in use says so.                                                  *)
LEMMA InUseIsConsumed ==
  ASSUME Accounts, NEW x \in InUse(InvoiceLines)
  PROVE  /\ usage[x] \in UsageRow /\ agreed[usage[x].line] \in AgreedRow
         /\ usage[x].line \in LinesOf(usage[x].of)
         /\ agreed[usage[x].line].consumed > 0
<1> DEFINE l == usage[x].line
<1>1. usage[x] \in UsageRow /\ l \in LinesOf(usage[x].of) /\ l \in AgreementLines
  BY DEF LinesOf, Accounts, RowsOK, ConsumptionAccounted, InUse
<1>2. agreed[l] \in AgreedRow /\ agreed[l].consumed = UsedOf(l, InvoiceLines)
  BY <1>1 DEF Accounts, RowsOK, ConsumptionAccounted, LinesOf
<1>3. x \in UsersOf(l, InvoiceLines) /\ QtyUsed[x] = usage[x].qty
  BY DEF UsersOf, QtyUsed, InUse
<1>4. QtyUsed[x] \in Nat \ {0}
  BY <1>1, <1>3, AgreementAssumption DEF UsageRow
<1> HIDE DEF l
<1>5. QtyUsed[x] <= UsedOf(l, InvoiceLines)
  <2>1. RowsOK
    BY DEF Accounts
  <2>2. QtyUsed[x] <= SumOver(QtyUsed, UsersOf(l, InvoiceLines))
    BY <2>1, <1>1, <1>3, UsedIsSum, SumPart DEF UsesAddUp
  <2> QED
    BY <2>1, <2>2, <1>1, UsedIsSum DEF UsesAddUp
<1> QED
  BY <1>1, <1>2, <1>4, <1>5, UsedIsSum DEF UsesAddUp, l, Accounts, AgreedRow

-----------------------------------------------------------------------------
(* The operations on the table of lines.                                   *)

(* agreements alone changed.                                               *)
LEMMA LinesUntouched ==
  ASSUME Accounts, UNCHANGED <<agreed, usage>>
  PROVE  Accounts'
<1>1. /\ \A a : LinesOf(a)' = LinesOf(a)
      /\ \A lines : InUse(lines)' = InUse(lines)
      /\ \A l, lines : UsedOf(l, lines)' = UsedOf(l, lines)
  BY DEF LinesOf, InUse, UsedOf
<1> QED
  BY <1>1
     DEF Accounts, RowsOK, ConsumptionAccounted, CapKeptOrExplained, ValidLine

(* Restating an agreement drops no line an invoice in force looks for, and *)
(* starts the others at nothing.                                           *)
LEMMA RestateKeeps ==
  ASSUME Accounts, FreshLines, NEW a \in Agreements, NEW p \in Proposals,
         Restate(a, p), UNCHANGED usage
  PROVE  Accounts'
<1> DEFINE restated(l) == [of |-> a, terms |-> p[l], consumed |-> Carried(a, l)]
<1>1. DOMAIN p \subseteq AgreementLines /\ \A l \in DOMAIN p : p[l] \in Terms
  BY DEF Proposals
<1>2. \A l \in AgreementLines :
        /\ l \in LinesOf(a) => agreed[l] \in AgreedRow /\ agreed[l].of = a
        /\ Carried(a, l) \in Nat
  BY DEF Accounts, RowsOK, LinesOf, Carried, AgreedRow
<1>3. \A l \in DOMAIN p :
        /\ restated(l) \in AgreedRow /\ restated(l) # None
        /\ ValidLine(restated(l))
        /\ agreed[l] # None => l \in LinesOf(a)
  <2> TAKE l \in DOMAIN p
  <2>1. restated(l) \in AgreedRow
    BY <1>1, <1>2 DEF AgreedRow
  <2>2. ValidLine(restated(l)) /\ (agreed[l] # None => l \in LinesOf(a))
    BY DEF Restate, ValidLine
  <2> QED
    BY <2>1, <2>2, AgreementAssumption
<1>4. \A l \in AgreementLines :
        agreed'[l] = IF l \in DOMAIN p THEN restated(l)
                     ELSE IF l \in LinesOf(a) THEN None ELSE agreed[l]
  BY DEF Restate
<1>5. RowsOK'
  <2>1. \A l \in AgreementLines : agreed'[l] \in {None} \cup AgreedRow
    BY <1>3, <1>4 DEF Accounts, RowsOK
  <2>2. agreed' = [l \in AgreementLines |-> agreed'[l]]
    BY DEF Restate
  <2> QED
    BY <2>1, <2>2 DEF Accounts, RowsOK
<1>6. /\ \A lines : InUse(lines)' = InUse(lines)
      /\ \A l, lines : UsedOf(l, lines)' = UsedOf(l, lines)
  BY DEF InUse, UsedOf
<1>7. \A x \in InUse(InvoiceLines) : (usage[x].line \in LinesOf(usage[x].of))'
  <2> TAKE x \in InUse(InvoiceLines)
  <2> DEFINE l == usage[x].line
  <2>1. l \in LinesOf(usage[x].of) /\ agreed[l].consumed # 0 /\ l \in AgreementLines
    BY InUseIsConsumed DEF LinesOf
  <2>2. CASE l \in DOMAIN p
    <3>1. usage[x].of = a
      BY <1>3, <2>1, <2>2 DEF LinesOf
    <3>2. agreed'[l] # None /\ agreed'[l] = restated(l)
      BY <1>3, <1>4, <2>1, <2>2
    <3>3. agreed'[l].of = a
      BY <3>2
    <3> QED
      BY <2>1, <3>1, <3>2, <3>3 DEF LinesOf
  <2>3. CASE l \notin DOMAIN p
    <3>1. l \notin LinesOf(a)
      BY <2>1, <2>3 DEF Restate
    <3> QED
      BY <1>4, <2>1, <2>3, <3>1 DEF LinesOf
  <2> QED
    BY <2>2, <2>3
<1>8. \A l \in AgreementLines :
        agreed'[l] # None => agreed'[l].consumed = UsedOf(l, InvoiceLines)
  <2> SUFFICES ASSUME NEW l \in AgreementLines, agreed'[l] # None
               PROVE  agreed'[l].consumed = UsedOf(l, InvoiceLines)
    OBVIOUS
  <2>1. CASE l \in DOMAIN p /\ l \in LinesOf(a)
    <3>1. agreed'[l] = restated(l) /\ Carried(a, l) = agreed[l].consumed
      BY <1>4, <2>1 DEF Carried
    <3>2. agreed'[l].consumed = agreed[l].consumed
      BY <3>1
    <3> QED
      BY <3>2, <2>1 DEF Accounts, ConsumptionAccounted, LinesOf
  <2>2. CASE l \in DOMAIN p /\ l \notin LinesOf(a)
    <3>0. agreed'[l] = restated(l) /\ Carried(a, l) = 0 /\ agreed[l] = None
      BY <1>3, <1>4, <2>2 DEF Carried
    <3>1. agreed'[l].consumed = 0 /\ agreed[l] = None
      BY <3>0
    <3>2. UsersOf(l, InvoiceLines) = {}
      BY <3>1 DEF UsersOf, Accounts, ConsumptionAccounted, LinesOf
    <3>3. UsedOf(l, InvoiceLines) = SumOver(QtyUsed, {})
      BY <3>2, UsedIsSum DEF UsesAddUp, Accounts
    <3>4. SumOver(QtyUsed, {}) = 0
      BY SumStep, FS_EmptySet
    <3> QED
      BY <3>1, <3>3, <3>4
  <2>3. CASE l \notin DOMAIN p
    BY <1>4, <2>3 DEF Accounts, ConsumptionAccounted
  <2> QED
    BY <2>1, <2>2, <2>3
<1>9. CapKeptOrExplained'
  <2> SUFFICES ASSUME NEW l \in AgreementLines, agreed'[l] # None PROVE ValidLine(agreed'[l])
    BY DEF CapKeptOrExplained, ValidLine
  <2> QED
    BY <1>3, <1>4 DEF Accounts, CapKeptOrExplained
<1> QED
  BY <1>5, <1>6, <1>7, <1>8, <1>9 DEF Accounts, ConsumptionAccounted

(* What is in use before and after, and what is asked, add up.             *)
LEMMA UsedAddsUp ==
  ASSUME NEW f, NEW S, NEW V, NEW W, IsFiniteSet(S), IsFiniteSet(V), S \cap V = {},
         W = S \cup V, \A x \in W : f[x] \in Nat
  PROVE  /\ SumOver(f, W) = SumOver(f, S) + SumOver(f, V)
         /\ SumOver(f, S) \in Nat /\ SumOver(f, V) \in Nat
<1>1. SumOver(f, S \cup V) = SumOver(f, S) + SumOver(f, V)
  BY SumUnion
<1> QED
  BY <1>1, SumNat

(* Using and giving back leave the terms of a line alone.                  *)
TermsStay ==
  \A l \in AgreementLines :
    agreed[l] # None => agreed'[l] # None /\ agreed'[l].terms = agreed[l].terms

(* An invoice takes what its lines ask, and no more than the cap leaves.   *)
LEMMA ConsumeKeeps ==
  ASSUME Accounts, NEW D \in SUBSET InvoiceLines, NEW uses \in [D -> UseRow], Consume(uses)
  PROVE  Accounts' /\ TermsStay
<1> DEFINE used(x) == [of |-> uses[x].of, line |-> uses[x].line, qty |-> uses[x].qty,
                       active |-> TRUE]
           asking(l) == {x \in D : uses[x].line = l}
           asked == [x \in D |-> uses[x].qty]
<1>1. \A x \in D : /\ uses[x] \in UseRow /\ used(x) \in UsageRow /\ used(x) # None
                   /\ usage[x] = None /\ uses[x].line \in LinesOf(uses[x].of)
  <2> TAKE x \in D
  <2>1. uses[x] \in UseRow /\ usage[x] = None /\ uses[x].line \in LinesOf(uses[x].of)
    BY DEF Consume
  <2>2. used(x) \in UsageRow
    BY <2>1 DEF UseRow, UsageRow
  <2> QED
    BY <2>1, <2>2, AgreementAssumption
<1>2. /\ \A x \in InvoiceLines : usage'[x] = IF x \in D THEN used(x) ELSE usage[x]
      /\ usage' \in [InvoiceLines -> {None} \cup UsageRow]
  BY <1>1 DEF Consume, Accounts, RowsOK
<1>3. \A l : /\ asking(l) \in SUBSET InvoiceLines /\ IsFiniteSet(asking(l))
             /\ Asked(uses, l) = SumOver(asked, asking(l))
             /\ Asked(uses, l) \in Nat
  <2> TAKE l
  <2>1. asking(l) \in SUBSET InvoiceLines /\ IsFiniteSet(asking(l))
    BY AgreementAssumption, FS_Subset
  <2>2. Asked(uses, l) = SumOver(asked, asking(l))
    BY DEF Asked
  <2>3. \A x \in asking(l) : asked[x] \in Nat
    BY <1>1, AgreementAssumption DEF UseRow
  <2> HIDE DEF asked, asking
  <2>4. SumOver(asked, asking(l)) \in Nat
    BY <2>1, <2>3, SumNat
  <2> QED
    BY <2>1, <2>2, <2>4
<1>4. \A l \in AgreementLines :
        /\ agreed[l] = None => agreed'[l] = None
        /\ agreed[l] # None =>
             /\ agreed'[l] \in AgreedRow /\ agreed'[l] # None
             /\ agreed'[l].of = agreed[l].of /\ agreed'[l].terms = agreed[l].terms
             /\ agreed'[l].consumed = agreed[l].consumed + Asked(uses, l)
  <2> TAKE l \in AgreementLines
  <2>1. agreed[l] # None => agreed[l] \in AgreedRow
    BY DEF Accounts, RowsOK
  <2>2. Asked(uses, l) \in Nat
    BY <1>3
  <2>3. agreed'[l] = IF agreed[l] = None THEN None
                     ELSE [agreed[l] EXCEPT !.consumed = @ + Asked(uses, l)]
    BY DEF Consume
  <2> QED
    BY <2>1, <2>2, <2>3, AgreementAssumption DEF AgreedRow
<1>5. agreed' \in [AgreementLines -> {None} \cup AgreedRow]
  <2>1. agreed' = [l \in AgreementLines |-> agreed'[l]]
    BY DEF Consume
  <2> QED
    BY <1>4, <2>1
<1>6. RowsOK'
  BY <1>2, <1>5 DEF RowsOK
<1>7. \A x \in InUse(InvoiceLines)' : (usage[x].line \in LinesOf(usage[x].of))'
  <2> TAKE x \in InUse(InvoiceLines)'
  <2>1. CASE x \in D
    BY <1>1, <1>2, <1>4, <2>1 DEF LinesOf
  <2>2. CASE x \notin D
    BY <1>2, <1>4, <2>2 DEF InUse, Accounts, ConsumptionAccounted, LinesOf
  <2> QED
    BY <2>1, <2>2
<1>8. \A l \in AgreementLines :
        UsedOf(l, InvoiceLines)' = UsedOf(l, InvoiceLines) + Asked(uses, l)
  <2> TAKE l \in AgreementLines
  <2> DEFINE S == UsersOf(l, InvoiceLines) V == asking(l) W == UsersOf(l, InvoiceLines)'
  <2>1. S \cap V = {} /\ W = S \cup V
    BY <1>1, <1>2 DEF UsersOf, InUse
  <2>2. /\ IsFiniteSet(S) /\ S \in SUBSET InvoiceLines
        /\ UsedOf(l, InvoiceLines) = SumOver(QtyUsed, S)
        /\ \A x \in InvoiceLines : QtyUsed[x] \in Nat
    BY UsedIsSum DEF UsesAddUp, Accounts
  <2>3. /\ UsedOf(l, InvoiceLines)' = SumOver(QtyUsed', W) /\ W \in SUBSET InvoiceLines
        /\ \A x \in InvoiceLines : QtyUsed'[x] \in Nat
    BY <1>6, UsedIsSumAfter DEF UsesAddUp
  <2>4. IsFiniteSet(V) /\ V \in SUBSET InvoiceLines
    BY <1>3
  <2>5. \A x \in S : QtyUsed[x] \in Int /\ QtyUsed[x] = QtyUsed'[x]
    BY <1>1, <1>2, <2>2 DEF QtyUsed, UsersOf, InUse
  <2>6. \A x \in V : asked[x] \in Int /\ asked[x] = QtyUsed'[x]
    BY <1>1, <1>2, <2>3 DEF QtyUsed
  <2>7. Asked(uses, l) = SumOver(asked, V)
    BY <1>3
  <2> HIDE DEF S, V, W, asked, asking
  <2>8. SumOver(QtyUsed', W) = SumOver(QtyUsed', S) + SumOver(QtyUsed', V)
    BY <2>1, <2>2, <2>3, <2>4, UsedAddsUp
  <2>9. SumOver(QtyUsed, S) = SumOver(QtyUsed', S)
    BY <2>2, <2>5, SumSame
  <2>10. SumOver(asked, V) = SumOver(QtyUsed', V)
    BY <2>4, <2>6, SumSame
  <2> QED
    BY <2>2, <2>3, <2>7, <2>8, <2>9, <2>10
<1>9. \A l \in AgreementLines :
        agreed'[l] # None => agreed'[l].consumed = UsedOf(l, InvoiceLines)'
  BY <1>4, <1>8 DEF Accounts, ConsumptionAccounted
<1>10. CapKeptOrExplained'
  <2> SUFFICES ASSUME NEW l \in AgreementLines, agreed'[l] # None PROVE ValidLine(agreed'[l])
    BY DEF CapKeptOrExplained, ValidLine
  <2>1. /\ agreed[l] # None /\ ValidLine(agreed[l]) /\ agreed[l] \in AgreedRow
        /\ agreed[l].consumed \in Nat /\ agreed[l].terms.cap \in Nat
    BY <1>4, AgreementAssumption
       DEF Accounts, RowsOK, CapKeptOrExplained, AgreedRow
  <2>2. CASE asking(l) = {}
    <3>1. Asked(uses, l) = 0
      <4>1. Asked(uses, l) = SumOver(asked, {})
        BY <1>3, <2>2
      <4>2. SumOver(asked, {}) = 0
        BY SumStep, FS_EmptySet
      <4> QED
        BY <4>1, <4>2
    <3> QED
      BY <1>4, <2>1, <3>1 DEF ValidLine
  <2>3. CASE asking(l) # {}
    <3>1. agreed[l].terms.cap > 0 => agreed[l].consumed + Asked(uses, l) <= agreed[l].terms.cap
      BY <2>3 DEF Consume
    <3>2. Asked(uses, l) \in Nat
      BY <1>3
    <3>3. /\ agreed'[l].terms = agreed[l].terms
          /\ agreed'[l].consumed = agreed[l].consumed + Asked(uses, l)
      BY <1>4, <2>1
    <3> QED
      BY <2>1, <3>1, <3>2, <3>3 DEF ValidLine
  <2> QED
    BY <2>2, <2>3
<1>11. TermsStay
  BY <1>4 DEF TermsStay
<1> QED
  BY <1>6, <1>7, <1>9, <1>10, <1>11 DEF Accounts, ConsumptionAccounted

(* Cancelled invoices give back what they used.                            *)
LEMMA ReleaseKeeps ==
  ASSUME Accounts, NEW lines \in SUBSET InvoiceLines, Release(lines)
  PROVE  Accounts' /\ TermsStay
<1> DEFINE done(x) == [usage[x] EXCEPT !.active = FALSE]
<1>1. \A x \in InvoiceLines : usage'[x] = IF x \in InUse(lines) THEN done(x) ELSE usage[x]
  BY DEF Release
<1>2. \A x \in InUse(lines) :
        /\ usage[x] \in UsageRow /\ usage[x].line \in AgreementLines
        /\ done(x) \in UsageRow /\ done(x) # None /\ ~done(x).active
        /\ done(x).qty = usage[x].qty
        /\ UsedOf(usage[x].line, lines) <= agreed[usage[x].line].consumed
  <2> TAKE x \in InUse(lines)
  <2>1. usage[x] \in UsageRow
    BY DEF InUse, Accounts, RowsOK
  <2>2. done(x) \in UsageRow /\ ~done(x).active /\ done(x).qty = usage[x].qty
    BY <2>1 DEF UsageRow
  <2>3. UsedOf(usage[x].line, lines) <= agreed[usage[x].line].consumed
    BY DEF Release
  <2>4. usage[x].line \in AgreementLines
    BY <2>1 DEF UsageRow
  <2> QED
    BY <2>1, <2>2, <2>3, <2>4, AgreementAssumption
<1>3. /\ InUse(lines) \subseteq InUse(InvoiceLines)
      /\ InUse(InvoiceLines)' = InUse(InvoiceLines) \ InUse(lines)
  BY <1>1, <1>2 DEF InUse
<1>4. \A l \in AgreementLines :
        /\ UsedOf(l, lines) \in Nat /\ UsedOf(l, lines) <= UsedOf(l, InvoiceLines)
        /\ agreed[l] # None => agreed[l].consumed = UsedOf(l, InvoiceLines)
  <2> TAKE l \in AgreementLines
  <2>1. UsesAddUp
    BY UsedIsSum DEF Accounts
  <2>2. UsersOf(l, lines) \in SUBSET UsersOf(l, InvoiceLines)
    BY <1>3 DEF UsersOf
  <2>3. /\ UsedOf(l, lines) \in Nat
        /\ UsedOf(l, lines) = SumOver(QtyUsed, UsersOf(l, lines))
        /\ UsedOf(l, InvoiceLines) = SumOver(QtyUsed, UsersOf(l, InvoiceLines))
        /\ IsFiniteSet(UsersOf(l, InvoiceLines))
        /\ \A x \in UsersOf(l, InvoiceLines) : QtyUsed[x] \in Nat
    BY <2>1 DEF UsesAddUp
  <2>4. SumOver(QtyUsed, UsersOf(l, lines)) <= SumOver(QtyUsed, UsersOf(l, InvoiceLines))
    BY <2>2, <2>3, SumPart
  <2> QED
    BY <2>3, <2>4 DEF Accounts, ConsumptionAccounted
<1>5. \A l \in AgreementLines :
        /\ agreed[l] = None => agreed'[l] = None
        /\ agreed[l] # None =>
             /\ agreed'[l] \in AgreedRow /\ agreed'[l] # None
             /\ agreed'[l].of = agreed[l].of /\ agreed'[l].terms = agreed[l].terms
             /\ agreed'[l].consumed = agreed[l].consumed - UsedOf(l, lines)
  <2> TAKE l \in AgreementLines
  <2>1. agreed[l] # None => /\ agreed[l] \in AgreedRow
                            /\ agreed[l].consumed - UsedOf(l, lines) \in Nat
    BY <1>4 DEF Accounts, RowsOK, AgreedRow
  <2>2. agreed'[l] = IF agreed[l] = None THEN None
                     ELSE [agreed[l] EXCEPT !.consumed = @ - UsedOf(l, lines)]
    BY DEF Release
  <2> QED
    BY <2>1, <2>2, AgreementAssumption DEF AgreedRow
<1>6. RowsOK'
  <2>1. \A x \in InvoiceLines : usage'[x] \in {None} \cup UsageRow
    BY <1>1, <1>2 DEF Accounts, RowsOK
  <2>2. \A l \in AgreementLines : agreed'[l] \in {None} \cup AgreedRow
    BY <1>5
  <2>3. /\ usage' = [x \in InvoiceLines |-> usage'[x]]
        /\ agreed' = [l \in AgreementLines |-> agreed'[l]]
    BY DEF Release
  <2> QED
    BY <2>1, <2>2, <2>3 DEF RowsOK
<1>7. \A x \in InUse(InvoiceLines)' : (usage[x].line \in LinesOf(usage[x].of))'
  <2> TAKE x \in InUse(InvoiceLines)'
  <2>1. x \in InUse(InvoiceLines) /\ usage'[x] = usage[x]
    BY <1>1, <1>3 DEF InUse
  <2>2. usage[x].line \in LinesOf(usage[x].of)
    BY <2>1 DEF Accounts, ConsumptionAccounted
  <2> QED
    BY <1>5, <2>1, <2>2 DEF LinesOf
<1>8. \A l \in AgreementLines :
        UsedOf(l, InvoiceLines) = UsedOf(l, InvoiceLines)' + UsedOf(l, lines)
  <2> TAKE l \in AgreementLines
  <2> DEFINE S == UsersOf(l, InvoiceLines)' V == UsersOf(l, lines) W == UsersOf(l, InvoiceLines)
  <2>1. S \cap V = {} /\ W = S \cup V
    BY <1>1, <1>3 DEF UsersOf, InUse
  <2>2. UsesAddUp /\ UsesAddUp'
    BY <1>6, UsedIsSum, UsedIsSumAfter DEF Accounts
  <2>3. /\ UsedOf(l, InvoiceLines) = SumOver(QtyUsed, W) /\ W \in SUBSET InvoiceLines
        /\ UsedOf(l, lines) = SumOver(QtyUsed, V) /\ IsFiniteSet(V)
        /\ UsedOf(l, InvoiceLines)' = SumOver(QtyUsed', S) /\ IsFiniteSet(S)
        /\ S \in SUBSET InvoiceLines
        /\ \A x \in InvoiceLines : QtyUsed[x] \in Nat
    BY <2>2 DEF UsesAddUp
  <2>4. \A x \in S : QtyUsed[x] \in Int /\ QtyUsed[x] = QtyUsed'[x]
    <3> TAKE x \in S
    <3>1. x \in InvoiceLines /\ x \notin InUse(lines)
      BY <1>3, <2>3 DEF UsersOf
    <3>2. usage'[x] = usage[x]
      BY <1>1, <3>1
    <3> QED
      BY <2>3, <3>1, <3>2 DEF QtyUsed
  <2> HIDE DEF S, V, W
  <2>5. SumOver(QtyUsed, W) = SumOver(QtyUsed, S) + SumOver(QtyUsed, V)
    BY <2>1, <2>3, UsedAddsUp
  <2>6. SumOver(QtyUsed, S) = SumOver(QtyUsed', S)
    BY <2>3, <2>4, SumSame
  <2> QED
    BY <2>3, <2>5, <2>6
<1>9. \A l \in AgreementLines :
        agreed'[l] # None => agreed'[l].consumed = UsedOf(l, InvoiceLines)'
  <2> TAKE l \in AgreementLines
  <2>1. UsedOf(l, InvoiceLines)' \in Nat
    BY <1>6, UsedIsSumAfter DEF UsesAddUp
  <2> QED
    BY <1>4, <1>5, <1>8, <2>1
<1>10. CapKeptOrExplained'
  <2> SUFFICES ASSUME NEW l \in AgreementLines, agreed'[l] # None PROVE ValidLine(agreed'[l])
    BY DEF CapKeptOrExplained, ValidLine
  <2>1. /\ agreed[l] # None /\ ValidLine(agreed[l]) /\ agreed[l] \in AgreedRow
        /\ agreed[l].consumed \in Nat /\ agreed[l].terms.cap \in Nat
    BY <1>5, AgreementAssumption
       DEF Accounts, RowsOK, CapKeptOrExplained, AgreedRow
  <2>2. /\ agreed'[l].terms = agreed[l].terms
        /\ agreed'[l].consumed = agreed[l].consumed - UsedOf(l, lines)
        /\ UsedOf(l, lines) \in Nat
    BY <1>4, <1>5, <2>1
  <2> QED
    BY <2>1, <2>2 DEF ValidLine
<1>11. TermsStay
  BY <1>5 DEF TermsStay
<1> QED
  BY <1>6, <1>7, <1>9, <1>10, <1>11 DEF Accounts, ConsumptionAccounted

-----------------------------------------------------------------------------
(* The handlers of agreements touch the lines only by restating them.      *)
LEMMA HandlersRestate ==
  ASSUME AgreementHandlers
  PROVE  /\ UNCHANGED usage
         /\ \/ UNCHANGED agreed
            \/ \E a \in Agreements, p \in Proposals \cup {None} : Restated(a, p)
            \/ \E a \in Agreements, p \in Proposals : Restate(a, p)
<1>1. PICK a \in Agreements, period \in Periods :
        \/ \E earlier \in Agreements \cup {None}, p \in Proposals : Create(a, period, earlier, p)
        \/ \E p \in Proposals \cup {None} :
             \/ Amend(a, period, p)
             \/ Open(a, period, p)
             \/ \E b \in Agreements : Supersede(a, b, period, p)
        \/ Close(a)
        \/ Reopen(a, period)
  BY DEF AgreementHandlers
<1>2. ASSUME NEW earlier \in Agreements \cup {None}, NEW p \in Proposals, Create(a, period, earlier, p)
      PROVE  UNCHANGED usage /\ Restate(a, p)
  BY <1>2 DEF Create
<1>3. ASSUME NEW p \in Proposals \cup {None}, Amend(a, period, p)
      PROVE  UNCHANGED usage /\ Restated(a, p)
  BY <1>3 DEF Amend
<1>4. ASSUME NEW p \in Proposals \cup {None}, Open(a, period, p)
      PROVE  UNCHANGED usage /\ Restated(a, p)
  BY <1>4 DEF Open
<1>5. ASSUME NEW p \in Proposals \cup {None}, NEW b \in Agreements, Supersede(a, b, period, p)
      PROVE  UNCHANGED usage /\ Restated(a, p)
  BY <1>5 DEF Supersede
<1>6. ASSUME Close(a) \/ Reopen(a, period)
      PROVE  UNCHANGED <<agreed, usage>>
  BY <1>6 DEF Close, Reopen
<1> QED
  BY <1>1, <1>2, <1>3, <1>4, <1>5, <1>6

LEMMA HandlersKeep ==
  ASSUME Accounts, FreshLines, AgreementHandlers
  PROVE  Accounts'
<1>1. ASSUME UNCHANGED <<agreed, usage>> PROVE Accounts'
  BY <1>1, LinesUntouched
<1>2. ASSUME NEW a \in Agreements, NEW p \in Proposals \cup {None},
             Restated(a, p), UNCHANGED usage
      PROVE  Accounts'
  BY <1>1, <1>2, RestateKeeps DEF Restated
<1>3. ASSUME NEW a \in Agreements, NEW p \in Proposals, Restate(a, p), UNCHANGED usage
      PROVE  Accounts'
  BY <1>3, RestateKeeps
<1> QED
  BY <1>1, <1>2, <1>3, HandlersRestate

LEMMA InitAccounts == AgreementInit => Accounts
<1> SUFFICES ASSUME AgreementInit PROVE Accounts
  OBVIOUS
<1>1. /\ agreed = [l \in AgreementLines |-> None] /\ usage = [x \in InvoiceLines |-> None]
  BY DEF AgreementInit
<1>2. InUse(InvoiceLines) = {}
  BY <1>1 DEF InUse
<1> QED
  BY <1>1, <1>2 DEF Accounts, RowsOK, ConsumptionAccounted, CapKeptOrExplained

LEMMA ChargeKeeps ==
  ASSUME Accounts, NEW x \in InvoiceLines, NEW a \in Agreements, NEW l \in AgreementLines,
         NEW q \in Quantities, Charge(x, a, l, q)
  PROVE  Accounts' /\ TermsStay
<1> DEFINE uses == [y \in {x} |-> [of |-> a, line |-> l, qty |-> q]]
<1>1. uses \in [{x} -> UseRow] /\ {x} \in SUBSET InvoiceLines
  BY DEF UseRow
<1>2. Consume(uses)
  BY DEF Charge
<1> HIDE DEF uses
<1> QED
  BY <1>1, <1>2, ConsumeKeeps

LEMMA GiveBackKeeps ==
  ASSUME Accounts, NEW x \in InvoiceLines, GiveBack(x)
  PROVE  Accounts' /\ TermsStay
BY ReleaseKeeps DEF GiveBack

LEMMA NextAccounts ==
  ASSUME FreshLines, Accounts, [Next]_vars
  PROVE  Accounts'
BY ChargeKeeps, GiveBackKeeps, HandlersKeep, LinesUntouched
   DEF Next, Tick, agreementVars, vars

(* What invoices use of an agreed line is what the line says was used, and *)
(* no cap is passed without a reason, whatever is restated, issued and     *)
(* cancelled in between - as long as no request names a line of another    *)
(* agreement, which the code does not refuse.                              *)
THEOREM Caps == ASSUME FreshLines PROVE Spec => []CapsStand
<1>1. Accounts /\ [Next]_vars => Accounts'
  BY NextAccounts
<1>2. Accounts => CapsStand
  BY DEF Accounts, CapsStand
<1> QED
  BY InitAccounts, <1>1, <1>2, PTL DEF Spec, Init

-----------------------------------------------------------------------------
(* What no step rewrites.                                                  *)

AgreementRow ==
  [state : {"absent", "draft", "open", "closed", "superseded"},
   supersedes : Agreements \cup {None}, superseded_by : Agreements \cup {None},
   period : [from : Nat, until : Nat]]

AgreementsOK ==
  /\ agreement \in [Agreements -> AgreementRow]
  /\ \A a \in Agreements :
       agreement[a].state = "superseded" <=> agreement[a].superseded_by # None

SupersededStay ==
  \A a \in Agreements : agreement[a].state = "superseded" => agreement'[a] = agreement[a]

LEMMA HandlersKeepAgreements ==
  ASSUME AgreementsOK, AgreementHandlers
  PROVE  AgreementsOK' /\ SupersededStay
<1> USE DEF AgreementRow
<1>0. \A a \in Agreements : agreement[a] \in AgreementRow
  BY DEF AgreementsOK
<1>1. Periods \subseteq [from : Nat, until : Nat] /\ None \notin Agreements
  BY AgreementAssumption
<1>2. ASSUME NEW a \in Agreements, agreement[a].state # "superseded",
             NEW r \in AgreementRow, r.state = "superseded" <=> r.superseded_by # None,
             agreement' = [agreement EXCEPT ![a] = r]
      PROVE  AgreementsOK' /\ SupersededStay
  <2>1. agreement' \in [Agreements -> AgreementRow]
    BY <1>2 DEF AgreementsOK
  <2>2. agreement'[a] = r /\ \A b \in Agreements \ {a} : agreement'[b] = agreement[b]
    BY <1>2 DEF AgreementsOK
  <2> HIDE DEF AgreementRow
  <2> QED
    BY <1>2, <2>1, <2>2 DEF AgreementsOK, SupersededStay
<1>3. ASSUME NEW a \in Agreements, NEW period \in Periods,
             NEW earlier \in Agreements \cup {None}, NEW p \in Proposals,
             Create(a, period, earlier, p)
      PROVE  AgreementsOK' /\ SupersededStay
  <2> DEFINE r == [state |-> "draft", supersedes |-> earlier, superseded_by |-> None,
                   period |-> period]
  <2>1. r \in AgreementRow /\ (r.state = "superseded" <=> r.superseded_by # None)
    BY <1>1, <1>3
  <2>2. agreement[a].state # "superseded" /\ agreement' = [agreement EXCEPT ![a] = r]
    BY <1>3 DEF Create
  <2> QED
    BY <1>2, <2>1, <2>2
<1>4. ASSUME NEW a \in Agreements, NEW period \in Periods, NEW p \in Proposals \cup {None},
             Amend(a, period, p)
      PROVE  AgreementsOK' /\ SupersededStay
  <2> DEFINE r == [agreement[a] EXCEPT !.period = period]
  <2>1. r \in AgreementRow /\ r.state = agreement[a].state
        /\ r.superseded_by = agreement[a].superseded_by
    BY <1>0, <1>1, <1>4
  <2>2. agreement[a].state # "superseded" /\ agreement' = [agreement EXCEPT ![a] = r]
    BY <1>4 DEF Amend, CanAmend
  <2> QED
    BY <1>2, <2>1, <2>2 DEF AgreementsOK
<1>5. ASSUME NEW a \in Agreements, NEW period \in Periods, NEW p \in Proposals \cup {None},
             Open(a, period, p)
      PROVE  AgreementsOK' /\ SupersededStay
  <2> DEFINE r == [agreement[a] EXCEPT !.state = "open", !.period = period]
             earlier == agreement[a].supersedes
             was == [agreement[earlier] EXCEPT !.state = "superseded", !.superseded_by = a]
  <2>1. /\ r \in AgreementRow /\ r.state = "open" /\ agreement[a].state = "draft"
        /\ r.superseded_by = None
    BY <1>0, <1>1, <1>5 DEF Open, AgreementsOK
  <2>2. CASE earlier = None
    <3>1. agreement' = [agreement EXCEPT ![a] = r]
      BY <1>5, <2>2 DEF Open
    <3> QED
      BY <1>2, <2>1, <3>1
  <2>3. CASE earlier # None
    <3>1. /\ earlier \in Agreements \ {a} /\ agreement[earlier].state = "open"
          /\ was \in AgreementRow /\ was.state = "superseded" /\ was.superseded_by = a
      BY <1>0, <1>1, <1>5, <2>1, <2>3 DEF Open, TransitionAllowed
    <3>2. /\ agreement'[a] = r /\ agreement'[earlier] = was
          /\ \A b \in Agreements \ {a, earlier} : agreement'[b] = agreement[b]
          /\ agreement' = [b \in Agreements |-> agreement'[b]]
      BY <1>5, <2>3, <3>1 DEF Open, AgreementsOK
    <3> HIDE DEF AgreementRow, r, was, earlier
    <3>3. agreement' \in [Agreements -> AgreementRow]
      BY <1>0, <2>1, <3>1, <3>2
    <3> QED
      BY <1>1, <2>1, <3>1, <3>2, <3>3 DEF AgreementsOK, SupersededStay
  <2> QED
    BY <2>2, <2>3
<1>6. ASSUME NEW a \in Agreements, NEW b \in Agreements, NEW period \in Periods,
             NEW p \in Proposals \cup {None}, Supersede(a, b, period, p)
      PROVE  AgreementsOK' /\ SupersededStay
  <2> DEFINE r == [agreement[a] EXCEPT !.state = "superseded", !.period = period,
                                       !.superseded_by = b]
  <2>1. r \in AgreementRow /\ r.state = "superseded" /\ r.superseded_by # None
    BY <1>0, <1>1, <1>6
  <2>2. agreement[a].state # "superseded" /\ agreement' = [agreement EXCEPT ![a] = r]
    BY <1>6 DEF Supersede, TransitionAllowed
  <2> QED
    BY <1>2, <2>1, <2>2
<1>7. ASSUME NEW a \in Agreements, Close(a)
      PROVE  AgreementsOK' /\ SupersededStay
  <2> DEFINE r == [agreement[a] EXCEPT !.state = "closed"]
  <2>1. r \in AgreementRow /\ r.state = "closed" /\ r.superseded_by = agreement[a].superseded_by
    BY <1>0
  <2>2. agreement[a].state # "superseded" /\ agreement' = [agreement EXCEPT ![a] = r]
    BY <1>7 DEF Close, TransitionAllowed
  <2> QED
    BY <1>2, <2>1, <2>2 DEF AgreementsOK
<1>8. ASSUME NEW a \in Agreements, NEW period \in Periods, Reopen(a, period)
      PROVE  AgreementsOK' /\ SupersededStay
  <2> DEFINE r == [agreement[a] EXCEPT !.state = "open", !.period = period]
  <2>1. r \in AgreementRow /\ r.state = "open" /\ r.superseded_by = agreement[a].superseded_by
    BY <1>0, <1>1
  <2>2. agreement[a].state # "superseded" /\ agreement' = [agreement EXCEPT ![a] = r]
    BY <1>8 DEF Reopen, TransitionAllowed
  <2> QED
    BY <1>2, <2>1, <2>2 DEF AgreementsOK
<1> QED
  BY <1>3, <1>4, <1>5, <1>6, <1>7, <1>8 DEF AgreementHandlers

(* The line a use still in force looks for stays, for the same product.    *)
ProductsStay ==
  \A x \in InUse(InvoiceLines) : LET l == usage[x].line IN
    usage'[x].active => agreed'[l] # None /\ agreed'[l].terms.product = agreed[l].terms.product

LEMMA HandlersKeepProducts ==
  ASSUME Accounts, FreshLines, AgreementHandlers
  PROVE  ProductsStay
<1> SUFFICES ASSUME NEW x \in InUse(InvoiceLines)
             PROVE  LET l == usage[x].line IN
                      agreed'[l] # None /\ agreed'[l].terms.product = agreed[l].terms.product
  BY DEF ProductsStay
<1> DEFINE l == usage[x].line
<1>1. /\ l \in AgreementLines /\ agreed[l] # None /\ agreed[l].consumed # 0
  BY InUseIsConsumed DEF LinesOf
<1> HIDE DEF l
<1>2. ASSUME NEW a \in Agreements, NEW p \in Proposals, Restate(a, p)
      PROVE  agreed'[l] # None /\ agreed'[l].terms.product = agreed[l].terms.product
  <2>1. CASE l \in DOMAIN p /\ l \in LinesOf(a)
    <3> DEFINE r == [of |-> a, terms |-> p[l], consumed |-> Carried(a, l)]
    <3>1. agreed'[l] = r /\ p[l].product = agreed[l].terms.product
      BY <1>1, <1>2, <2>1 DEF Restate
    <3>2. r \in AgreedRow
      <4>1. p[l] \in Terms
        BY <2>1 DEF Proposals
      <4>2. Carried(a, l) \in Nat
        BY <2>1 DEF Carried, Accounts, RowsOK, LinesOf, AgreedRow
      <4> QED
        BY <4>1, <4>2 DEF AgreedRow
    <3>3. r # None
      BY <3>2, AgreementAssumption
    <3> QED
      BY <3>1, <3>3
  <2>2. CASE l \in DOMAIN p /\ l \notin LinesOf(a)
    BY <1>1, <1>2, <2>2 DEF Restate
  <2>3. CASE l \notin DOMAIN p
    <3>1. agreed'[l] = agreed[l]
      BY <1>1, <1>2, <2>3 DEF Restate
    <3> QED
      BY <1>1, <3>1
  <2> QED
    BY <2>1, <2>2, <2>3
<1>3. ASSUME UNCHANGED agreed
      PROVE  agreed'[l] # None /\ agreed'[l].terms.product = agreed[l].terms.product
  BY <1>1, <1>3
<1>4. ASSUME NEW a \in Agreements, NEW p \in Proposals \cup {None}, Restated(a, p)
      PROVE  agreed'[l] # None /\ agreed'[l].terms.product = agreed[l].terms.product
  BY <1>2, <1>3, <1>4 DEF Restated
<1>5. agreed'[l] # None /\ agreed'[l].terms.product = agreed[l].terms.product
  BY <1>2, <1>3, <1>4, HandlersRestate
<1> QED
  BY <1>5 DEF l

LEMMA NextKeepsBargains ==
  ASSUME FreshLines, Accounts, AgreementsOK, Next
  PROVE  AgreementsOK' /\ SupersededStay /\ ProductsStay
<1>1. ASSUME UNCHANGED agreement PROVE AgreementsOK' /\ SupersededStay
  BY <1>1 DEF AgreementsOK, SupersededStay
<1>2. CASE AgreementHandlers
  BY <1>2, HandlersKeepAgreements, HandlersKeepProducts
<1>3. CASE Tick /\ UNCHANGED agreementVars
  <2>1. UNCHANGED <<agreement, agreed, usage>>
    BY <1>3 DEF agreementVars
  <2> QED
    BY <1>1, <2>1, InUseIsConsumed DEF ProductsStay, LinesOf
<1>4. ASSUME TermsStay PROVE ProductsStay
  BY <1>4, InUseIsConsumed DEF TermsStay, ProductsStay, LinesOf
<1> QED
  BY <1>1, <1>2, <1>3, <1>4, ChargeKeeps, GiveBackKeeps DEF Next, Charge, GiveBack

(* No step takes from an invoice in force the line it was charged under,   *)
(* or puts another product in its place, and a superseded agreement is     *)
(* never touched again.                                                    *)
THEOREM Bargains == ASSUME FreshLines PROVE Spec => BargainsKept
<1>1. Init => AgreementsOK
  BY AgreementAssumption DEF Init, AgreementInit, Absent, AgreementsOK, AgreementRow
<1>2. Accounts /\ AgreementsOK /\ [Next]_vars => Accounts' /\ AgreementsOK'
  <2>1. AgreementsOK /\ UNCHANGED vars => AgreementsOK'
    BY DEF AgreementsOK, vars
  <2> QED
    BY <2>1, NextAccounts, NextKeepsBargains
<1>3. Accounts /\ AgreementsOK /\ [Next]_vars => [SupersededStay /\ ProductsStay]_vars
  BY NextKeepsBargains
<1> QED
  BY <1>1, InitAccounts, <1>2, <1>3, PTL DEF Spec, Init, BargainsKept, SupersededStay, ProductsStay

-----------------------------------------------------------------------------
(* Where supersessions lead.                                               *)

Successor(a) == IF a = None THEN None ELSE agreement[a].superseded_by

(* The definition of a chain has a solution, so it is what Chain names.    *)
Follows(a, last, follow) ==
  follow = [n \in 0..last |-> IF n = 0 THEN a ELSE Successor(follow[n - 1])]

LEMMA ChainsExist ==
  ASSUME NEW a, NEW last \in Nat
  PROVE  \E follow : Follows(a, last, follow)
<1> DEFINE Bad == {n \in Nat : ~\E follow : Follows(a, n, follow)}
<1> SUFFICES ASSUME Bad # {} PROVE FALSE
  OBVIOUS
<1>1. PICK n \in Bad : \A m \in Bad : n <= m
  BY LeastMember
<1>2. n # 0
  <2> SUFFICES ASSUME n = 0 PROVE FALSE
    OBVIOUS
  <2>1. Follows(a, 0, [m \in 0..0 |-> a])
    BY DEF Follows
  <2> QED
    BY <1>1, <2>1
<1>3. n - 1 \in Nat /\ n - 1 \notin Bad
  BY <1>1, <1>2
<1>4. PICK f : Follows(a, n - 1, f)
  BY <1>3
<1> DEFINE g == [m \in 0..n |-> IF m = n THEN Successor(f[n - 1]) ELSE f[m]]
<1>5. \A m \in 0..n : g[m] = IF m = 0 THEN a ELSE Successor(g[m - 1])
  <2> TAKE m \in 0..n
  <2>1. f[0] = a /\ (m # 0 /\ m # n => f[m] = Successor(f[m - 1]))
    BY <1>3, <1>4 DEF Follows
  <2> QED
    BY <1>2, <1>3, <2>1
<1>6. Follows(a, n, g)
  BY <1>5 DEF Follows
<1> QED
  BY <1>1, <1>6

LEMMA ChainSteps ==
  ASSUME NEW a
  PROVE  /\ DOMAIN Chain(a) = 0..Cardinality(Agreements)
         /\ Cardinality(Agreements) \in Nat
         /\ Chain(a)[0] = a
         /\ \A n \in 1..Cardinality(Agreements) : Chain(a)[n] = Successor(Chain(a)[n - 1])
<1> DEFINE last == Cardinality(Agreements)
<1>1. last \in Nat
  BY AgreementAssumption, FS_CardinalityType
<1>2. Chain(a) = CHOOSE f : Follows(a, last, f)
  BY DEF Chain, Follows, Successor
<1>3. \E f : Follows(a, last, f)
  BY <1>1, ChainsExist
<1> HIDE DEF last
<1>4. Follows(a, last, Chain(a))
  BY <1>2, <1>3
<1>5. DOMAIN Chain(a) = 0..last /\ Chain(a)[0] = a
      /\ \A n \in 1..last : Chain(a)[n] = Successor(Chain(a)[n - 1])
  BY <1>1, <1>4 DEF Follows
<1> QED
  BY <1>1, <1>5 DEF last

(* What keeps chains from closing: agreements can be ranked so that each   *)
(* is superseded by one of lower rank.                                     *)
Descends(rank) ==
  \A a \in Agreements :
    agreement[a].superseded_by # None => rank[agreement[a].superseded_by] < rank[a]

Ranked == \E rank \in [Agreements -> Nat] : Descends(rank)

(* While it has not ended, a chain descends, so no agreement is in it      *)
(* twice and there are not enough of them for it to be full.               *)
LEMMA ChainsEnd ==
  ASSUME AgreementsOK, Ranked, NEW a \in Agreements
  PROVE  Chain(a)[Cardinality(Agreements)] = None
<1> DEFINE last == Cardinality(Agreements)
           c == Chain(a)
<1> SUFFICES ASSUME c[last] # None PROVE FALSE
  OBVIOUS
<1>1. /\ last \in Nat /\ c[0] = a
      /\ \A n \in 1..last : c[n] = Successor(c[n - 1])
  BY ChainSteps
<1>2. PICK rank \in [Agreements -> Nat] : Descends(rank)
  BY DEF Ranked
<1>3. \A b \in Agreements : Successor(b) \in Agreements \cup {None} /\ Successor(None) = None
  BY AgreementAssumption DEF Successor, AgreementsOK, AgreementRow
<1> HIDE DEF c, last
<1>4. \A n \in 0..last : c[n] \in Agreements
  <2> DEFINE Ended == {n \in Nat : n <= last /\ c[last - n] = None}
  <2>1. Ended = {}
    <3> SUFFICES ASSUME Ended # {} PROVE FALSE
      OBVIOUS
    <3>1. PICK n \in Ended : \A m \in Ended : n <= m
      BY LeastMember
    <3>2. n # 0
      BY <1>1, <3>1
    <3>3. last - (n - 1) \in 1..last /\ c[last - (n - 1)] = Successor(c[last - n])
      <4>1. last - (n - 1) \in 1..last /\ (last - (n - 1)) - 1 = last - n
        BY <1>1, <3>1, <3>2
      <4> QED
        BY <1>1, <4>1
    <3>4. n - 1 \in Ended
      BY <1>1, <1>3, <3>1, <3>2, <3>3 DEF Successor
    <3> QED
      BY <3>1, <3>4
  <2>2. \A n \in 0..last : c[n] # None
    <3> TAKE n \in 0..last
    <3>1. last - n \in Nat /\ last - n <= last /\ last - (last - n) = n
      BY <1>1
    <3> QED
      BY <2>1, <3>1
  <2> DEFINE Strange == {n \in 0..last : c[n] \notin Agreements}
  <2> SUFFICES ASSUME Strange # {} PROVE FALSE
    OBVIOUS
  <2>3. PICK n \in Strange : \A m \in Strange : n <= m
    <3>1. Strange \in SUBSET Nat
      BY <1>1
    <3> QED
      BY <3>1, LeastMember
  <2>4. n # 0 /\ n - 1 \in 0..last /\ n \in 1..last
    BY <1>1, <2>3
  <2>5. c[n - 1] \in Agreements
    BY <2>3, <2>4
  <2> QED
    BY <1>1, <1>3, <2>2, <2>3, <2>4, <2>5
<1>5. \A n \in 1..last : rank[c[n]] < rank[c[n - 1]]
  <2> TAKE n \in 1..last
  <2>1. n - 1 \in 0..last /\ n \in 0..last
    BY <1>1
  <2>2. c[n - 1] \in Agreements /\ c[n] = agreement[c[n - 1]].superseded_by /\ c[n] # None
    BY <1>1, <1>4, <2>1, AgreementAssumption DEF Successor
  <2> QED
    BY <1>2, <2>2 DEF Descends
<1>6. \A m, n \in 0..last : m < n => rank[c[n]] < rank[c[m]]
  <2> SUFFICES ASSUME NEW m \in 0..last PROVE \A n \in 0..last : m < n => rank[c[n]] < rank[c[m]]
    OBVIOUS
  <2> DEFINE Bad == {n \in 0..last : m < n /\ ~(rank[c[n]] < rank[c[m]])}
  <2> SUFFICES ASSUME Bad # {} PROVE FALSE
    OBVIOUS
  <2>1. PICK n \in Bad : \A k \in Bad : n <= k
    <3>1. Bad \in SUBSET Nat
      BY <1>1
    <3> QED
      BY <3>1, LeastMember
  <2>2. n \in 1..last /\ n - 1 \in 0..last /\ n - 1 \notin Bad /\ (n - 1 = m \/ m < n - 1)
    BY <1>1, <2>1
  <2>3. rank[c[n]] \in Nat /\ rank[c[n - 1]] \in Nat /\ rank[c[m]] \in Nat
    BY <1>2, <1>4, <2>1, <2>2
  <2>4. rank[c[n]] < rank[c[n - 1]]
    BY <1>5, <2>2
  <2> QED
    BY <2>1, <2>2, <2>3, <2>4
<1>7. /\ IsFiniteSet(0..last) /\ Cardinality(0..last) = last + 1
      /\ IsFiniteSet(Agreements) /\ Cardinality(Agreements) = last
  BY <1>1, FS_Interval, AgreementAssumption DEF last
<1> DEFINE f == [n \in 0..last |-> c[n]]
<1>8. f \in [0..last -> Agreements]
  BY <1>4
<1> HIDE DEF f
<1>9. PICK m, n \in 0..last : m # n /\ f[m] = f[n]
  <2>1. Cardinality(Agreements) < Cardinality(0..last)
    BY <1>1, <1>7
  <2>2. IsFiniteSet(0..last) /\ IsFiniteSet(Agreements)
    BY <1>7
  <2> DEFINE S == 0..last
  <2>3. IsFiniteSet(S) /\ f \in [S -> Agreements] /\ Cardinality(Agreements) < Cardinality(S)
    BY <1>8, <2>1, <2>2
  <2> HIDE DEF S
  <2>4. \E x, y \in S : x # y /\ f[x] = f[y]
    BY <2>2, <2>3, FS_PigeonHole
  <2> QED
    BY <2>4 DEF S
<1>10. c[m] = c[n] /\ rank[c[m]] \in Nat /\ (m < n \/ n < m)
  BY <1>1, <1>2, <1>4, <1>9 DEF f
<1> QED
  BY <1>6, <1>9, <1>10

LEMMA RankedEnds == AgreementsOK /\ Ranked => SupersessionEnds
<1> SUFFICES ASSUME AgreementsOK, Ranked, NEW a \in Agreements
             PROVE  \E n \in DOMAIN Chain(a) : Chain(a)[n] = None
  BY DEF SupersessionEnds
<1>1. Chain(a)[Cardinality(Agreements)] = None
  BY ChainsEnd
<1>2. Cardinality(Agreements) \in DOMAIN Chain(a)
  BY ChainSteps
<1> QED
  BY <1>1, <1>2

(* One more supersession, of a by b, where nothing outside V leads into V: *)
(* raising V above b ranks them all again.                                 *)
LEMMA LinkKeepsRanks ==
  ASSUME AgreementsOK, Ranked, NEW a \in Agreements, NEW b \in Agreements,
         NEW V \in SUBSET Agreements, a \in V, b \notin V,
         \A x \in Agreements \ V : agreement[x].superseded_by \notin V,
         agreement'[a].superseded_by = b,
         \A x \in Agreements \ {a} :
           agreement'[x].superseded_by = agreement[x].superseded_by
  PROVE  Ranked'
<1>1. PICK rank \in [Agreements -> Nat] : Descends(rank)
  BY DEF Ranked
<1> DEFINE raised == [x \in Agreements |-> IF x \in V THEN rank[x] + (rank[b] + 1) ELSE rank[x]]
<1>2. raised \in [Agreements -> Nat]
  BY <1>1
<1>3. ASSUME NEW x \in Agreements, agreement'[x].superseded_by # None
      PROVE  raised[agreement'[x].superseded_by] < raised[x]
  <2>1. CASE x = a
    BY <1>1, <2>1
  <2>2. CASE x # a
    <3> DEFINE y == agreement[x].superseded_by
    <3>1. agreement'[x].superseded_by = y /\ y \in Agreements
      BY <1>3, <2>2 DEF AgreementsOK, AgreementRow
    <3>2. rank[y] < rank[x] /\ (x \notin V => y \notin V)
      BY <1>1, <1>3, <3>1 DEF Descends
    <3> HIDE DEF y
    <3> QED
      BY <1>1, <3>1, <3>2
  <2> QED
    BY <2>1, <2>2
<1> HIDE DEF raised
<1> QED
  BY <1>2, <1>3 DEF Ranked, Descends

LEMMA NoLinkKeepsRanks ==
  ASSUME Ranked,
         \A x \in Agreements : agreement'[x].superseded_by = agreement[x].superseded_by
  PROVE  Ranked'
BY DEF Ranked, Descends

(* Create, Amend, Close, Reopen, and Open of an agreement that supersedes  *)
(* none: one agreement is rewritten and is superseded by what it was.      *)
LEMMA SameSuccessor ==
  ASSUME AgreementsOK, Ranked, NEW a \in Agreements, NEW r,
         agreement' = [agreement EXCEPT ![a] = r],
         r.superseded_by = agreement[a].superseded_by
  PROVE  Ranked'
<1>1. \A x \in Agreements : agreement'[x] = IF x = a THEN r ELSE agreement[x]
  BY DEF AgreementsOK
<1> QED
  BY <1>1, NoLinkKeepsRanks

LEMMA OpenKeepsRanks ==
  ASSUME AgreementsOK, Ranked, NEW a \in Agreements, NEW period \in Periods,
         NEW p \in Proposals \cup {None}, Open(a, period, p)
  PROVE  Ranked'
<1> DEFINE r == [agreement[a] EXCEPT !.state = "open", !.period = period]
           earlier == agreement[a].supersedes
           was == [agreement[earlier] EXCEPT !.state = "superseded", !.superseded_by = a]
<1>0. \A b \in Agreements : agreement[b] \in AgreementRow
  BY DEF AgreementsOK
<1>1. /\ r.superseded_by = agreement[a].superseded_by
      /\ agreement[a].state = "draft" /\ agreement[a].superseded_by = None
  BY <1>0 DEF Open, AgreementsOK, AgreementRow
<1>2. CASE earlier = None
  <2>1. agreement' = [agreement EXCEPT ![a] = r]
    BY <1>2 DEF Open
  <2> QED
    BY <1>1, <2>1, SameSuccessor
<1>3. CASE earlier # None
  <2>1. earlier \in Agreements \ {a} /\ was.superseded_by = a
    BY <1>0, <1>1, <1>3 DEF Open, TransitionAllowed, AgreementRow
  <2>2. /\ agreement'[a] = r /\ agreement'[earlier] = was
        /\ \A b \in Agreements \ {a, earlier} : agreement'[b] = agreement[b]
    BY <1>3, <2>1 DEF Open, AgreementsOK
  <2> HIDE DEF r, was, earlier
  <2>3. \A x \in Agreements \ {earlier} :
          agreement'[x].superseded_by = agreement[x].superseded_by
    BY <1>1, <2>2
  <2>4. agreement'[earlier].superseded_by = a
    BY <2>1, <2>2
  <2> DEFINE V == Agreements \ {a}
  <2>5. /\ V \in SUBSET Agreements /\ earlier \in V /\ a \notin V
        /\ \A x \in Agreements \ V : agreement[x].superseded_by \notin V
    BY <1>1, <2>1, AgreementAssumption
  <2> HIDE DEF V
  <2> QED
    BY <2>1, <2>3, <2>4, <2>5, LinkKeepsRanks
<1> QED
  BY <1>2, <1>3

(* a is not in the chain of its successor, which ends, and what is not in  *)
(* the chain does not follow from what is.                                 *)
LEMMA SupersedeKeepsRanks ==
  ASSUME AgreementsOK, Ranked, NEW a \in Agreements, NEW b \in Agreements,
         NEW period \in Periods, NEW p \in Proposals \cup {None}, Supersede(a, b, period, p)
  PROVE  Ranked'
<1> DEFINE last == Cardinality(Agreements)
           c == Chain(b)
           V == {x \in Agreements : \A n \in 0..last : c[n] # x}
           r == [agreement[a] EXCEPT !.state = "superseded", !.period = period,
                                     !.superseded_by = b]
<1>1. /\ DOMAIN c = 0..last /\ last \in Nat /\ c[0] = b
      /\ \A n \in 1..last : c[n] = Successor(c[n - 1])
  BY ChainSteps
<1>2. c[last] = None
  BY ChainsEnd
<1>3. a \in V /\ b \notin V /\ V \in SUBSET Agreements
  BY <1>1 DEF Supersede, CompletesACycle
<1>4. ASSUME NEW x \in Agreements \ V PROVE agreement[x].superseded_by \notin V
  <2>1. PICK n \in 0..last : c[n] = x
    OBVIOUS
  <2>2. x # None /\ n # last
    BY <1>2, <2>1, AgreementAssumption
  <2> HIDE DEF c, last
  <2>3. n + 1 \in 1..last /\ n + 1 \in 0..last /\ (n + 1) - 1 = n
    BY <1>1, <2>1, <2>2
  <2>4. c[n + 1] = agreement[x].superseded_by
    BY <1>1, <2>1, <2>2, <2>3 DEF Successor
  <2> QED
    BY <2>3, <2>4
<1>5. agreement' = [agreement EXCEPT ![a] = r] /\ agreement[a] \in AgreementRow
  BY DEF Supersede, AgreementsOK
<1>6. /\ agreement'[a].superseded_by = b
      /\ \A x \in Agreements \ {a} : agreement'[x].superseded_by = agreement[x].superseded_by
  BY <1>5 DEF AgreementsOK, AgreementRow
<1> HIDE DEF V
<1> QED
  BY <1>3, <1>4, <1>6, LinkKeepsRanks

LEMMA HandlersKeepRanks ==
  ASSUME AgreementsOK, Ranked, AgreementHandlers
  PROVE  Ranked'
<1>0. \A a \in Agreements : agreement[a] \in AgreementRow
  BY DEF AgreementsOK
<1>1. ASSUME NEW a \in Agreements, NEW period \in Periods,
             NEW earlier \in Agreements \cup {None}, NEW p \in Proposals,
             Create(a, period, earlier, p)
      PROVE  Ranked'
  <2> DEFINE r == [state |-> "draft", supersedes |-> earlier, superseded_by |-> None,
                   period |-> period]
  <2>1. r.superseded_by = agreement[a].superseded_by
    BY <1>0, <1>1 DEF Create, AgreementsOK
  <2>2. agreement' = [agreement EXCEPT ![a] = r]
    BY <1>1 DEF Create
  <2> QED
    BY <2>1, <2>2, SameSuccessor
<1>2. ASSUME NEW a \in Agreements, NEW period \in Periods, NEW p \in Proposals \cup {None},
             Amend(a, period, p)
      PROVE  Ranked'
  <2> DEFINE r == [agreement[a] EXCEPT !.period = period]
  <2>1. r.superseded_by = agreement[a].superseded_by
    BY <1>0 DEF AgreementRow
  <2>2. agreement' = [agreement EXCEPT ![a] = r]
    BY <1>2 DEF Amend
  <2> QED
    BY <2>1, <2>2, SameSuccessor
<1>3. ASSUME NEW a \in Agreements, Close(a) PROVE Ranked'
  <2> DEFINE r == [agreement[a] EXCEPT !.state = "closed"]
  <2>1. r.superseded_by = agreement[a].superseded_by
    BY <1>0 DEF AgreementRow
  <2>2. agreement' = [agreement EXCEPT ![a] = r]
    BY <1>3 DEF Close
  <2> QED
    BY <2>1, <2>2, SameSuccessor
<1>4. ASSUME NEW a \in Agreements, NEW period \in Periods, Reopen(a, period) PROVE Ranked'
  <2> DEFINE r == [agreement[a] EXCEPT !.state = "open", !.period = period]
  <2>1. r.superseded_by = agreement[a].superseded_by
    BY <1>0 DEF AgreementRow
  <2>2. agreement' = [agreement EXCEPT ![a] = r]
    BY <1>4 DEF Reopen
  <2> QED
    BY <2>1, <2>2, SameSuccessor
<1> QED
  BY <1>1, <1>2, <1>3, <1>4, OpenKeepsRanks, SupersedeKeepsRanks DEF AgreementHandlers

LEMMA NextKeepsRanks == AgreementsOK /\ Ranked /\ [Next]_vars => AgreementsOK' /\ Ranked'
<1> SUFFICES ASSUME AgreementsOK, Ranked, [Next]_vars
             PROVE  AgreementsOK' /\ Ranked'
  OBVIOUS
<1>1. ASSUME UNCHANGED agreement PROVE AgreementsOK' /\ Ranked'
  BY <1>1 DEF AgreementsOK, Ranked, Descends
<1>2. CASE AgreementHandlers
  BY <1>2, HandlersKeepAgreements, HandlersKeepRanks
<1>3. ~AgreementHandlers => UNCHANGED agreement
  BY DEF Next, Charge, GiveBack, agreementVars, vars
<1> QED
  BY <1>1, <1>2, <1>3

(* Following superseded_by from any agreement comes to an end: a           *)
(* supersession is refused when the chain of the successor, followed for   *)
(* as many steps as there are agreements, meets the agreement superseded;  *)
(* opening a draft in place of an earlier one needs no such walk, because  *)
(* a draft is superseded by none (agreements_service.cpp, supersede,       *)
(* open).                                                                  *)
THEOREM SupersessionsEnd == Spec => []SupersessionEnds
<1>1. Init => AgreementsOK /\ Ranked
  <2> SUFFICES ASSUME Init PROVE AgreementsOK /\ Ranked
    OBVIOUS
  <2>1. AgreementsOK
    BY AgreementAssumption DEF Init, AgreementInit, Absent, AgreementsOK, AgreementRow
  <2>2. \A a \in Agreements : agreement[a].superseded_by = None
    BY DEF Init, AgreementInit, Absent
  <2>3. [a \in Agreements |-> 0] \in [Agreements -> Nat]
    OBVIOUS
  <2>4. Ranked
    BY <2>2, <2>3 DEF Ranked, Descends
  <2> QED
    BY <2>1, <2>4
<1> QED
  BY <1>1, NextKeepsRanks, RankedEnds, PTL DEF Spec

(* A superseded agreement ends for good with the bargains made under it    *)
(* untouched.                                                              *)
THEOREM Supersession == ASSUME FreshLines PROVE Spec => SupersessionHolds
BY SupersessionsEnd, Bargains, PTL DEF SupersessionHolds
=============================================================================
