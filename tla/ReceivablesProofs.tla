------------------------- MODULE ReceivablesProofs -------------------------
(***************************************************************************)
(* Theorems about invoices, their numbers and their replacements, about    *)
(* the ledgers kept next to them (payments, and what is used of            *)
(* agreements), and about customer statements; for any number of each.     *)
(* Amounts and agreed quantities are not needed for the first part, so its *)
(* invariant Inv is silent on them; MoneyInv and UseInv of the second part *)
(* are about nothing else, and StatementInv of the third adds when things  *)
(* happened.                                                               *)
(***************************************************************************)
EXTENDS Receivables, TLAPS

Row == [state : States, replaces : Invoices \cup {None}, replaced_by : Invoices \cup {None},
        number : Nat, issued_at : Int, cancelled_at : Int]

Reserved == {b \in Blocks : block[b] # None}

RowsOK ==
  /\ invoice \in [Invoices -> Row]
  /\ line = [x \in InvoiceLines |-> line[x]]
  /\ block \in [Blocks -> {None} \cup BlockRow]
  /\ now \in Int

(* An invoice has a number once it was issued, and a successor once it was *)
(* replaced; that successor was issued.                                    *)
Evidence ==
  \A i \in Invoices :
    /\ invoice[i].number > 0 <=> i \in Charged
    /\ invoice[i].replaced_by # None <=> invoice[i].state = "replaced"
    /\ invoice[i].replaced_by # None => invoice[i].replaced_by \in Charged

(* A block is inside its range and no two blocks share a number.           *)
BlocksApart ==
  /\ \A b \in Reserved :
       /\ 0 < block[b].first /\ block[b].first <= block[b].next
       /\ block[b].next <= block[b].last
       /\ block[b].exhausted => block[b].next = block[b].last
  /\ \A b, c \in Reserved :
       b # c => block[b].last < block[c].first \/ block[c].last < block[b].first

Inv ==
  /\ RowsOK
  /\ Evidence
  /\ BlocksApart
  /\ ReplacementsPair
  /\ NumbersGapless

-----------------------------------------------------------------------------
(* Initial states.                                                         *)

LEMMA InitInv == Init => Inv
<1> SUFFICES ASSUME Init PROVE Inv
  OBVIOUS
<1> USE DEF Init, Absent
<1>1. RowsOK
  BY DEF RowsOK, Row, States
<1>2. Charged = {} /\ Reserved = {}
  BY DEF Charged, Reserved
<1>3. Evidence /\ BlocksApart
  BY <1>2 DEF Evidence, BlocksApart
<1>4. ReplacementsPair
  BY DEF ReplacementsPair, ActiveReplacements
<1>5. NumbersGapless
  BY <1>2 DEF NumbersGapless, Reserved
<1> QED
  BY <1>1, <1>3, <1>4, <1>5 DEF Inv

-----------------------------------------------------------------------------
(* Steps.                                                                  *)

(* A step that leaves invoices and blocks alone.                           *)
LEMMA ElsewhereKeeps ==
  ASSUME Inv, RowsOK', UNCHANGED <<invoice, block>>
  PROVE  Inv'
<1>1. Charged' = Charged /\ Cancelled' = Cancelled /\ Reserved' = Reserved
  BY DEF Charged, Cancelled, Reserved
<1>2. Evidence' /\ BlocksApart'
  BY <1>1 DEF Inv, Evidence, BlocksApart
<1>3. \A i : ActiveReplacements(i)' = ActiveReplacements(i)
  BY DEF ActiveReplacements
<1>4. ReplacementsPair'
  BY <1>1, <1>3 DEF Inv, ReplacementsPair
<1>5. \A b : Given(b)' = Given(b)
  BY DEF Given
<1>6. NumbersGapless'
  BY <1>1, <1>5 DEF Inv, NumbersGapless
<1> QED
  BY <1>2, <1>4, <1>6 DEF Inv

(* A step that moves invoices about without a number being given.          *)
LEMMA UnnumberedKeeps ==
  ASSUME Inv, UNCHANGED block, Charged' = Charged,
         \A i \in Charged : invoice'[i].number = invoice[i].number
  PROVE  BlocksApart' /\ NumbersGapless'
<1>1. Reserved' = Reserved /\ \A b : Given(b)' = Given(b)
  BY DEF Reserved, Given
<1>2. BlocksApart'
  BY <1>1 DEF Inv, BlocksApart
<1>3. {invoice[i].number : i \in Charged}' = {invoice[i].number : i \in Charged}
  OBVIOUS
<1>4. NumbersGapless'
  BY <1>1, <1>3 DEF Inv, NumbersGapless
<1> QED
  BY <1>2, <1>4

LEMMA DraftFields ==
  ASSUME NEW source \in Invoices \cup {None}
  PROVE  /\ Draft(source) \in Row
         /\ Draft(source).state = "draft"
         /\ Draft(source).replaces = source
         /\ Draft(source).replaced_by = None
         /\ Draft(source).number = 0
<1>1. Absent \in Row /\ Absent.replaced_by = None /\ Absent.number = 0
  BY DEF Absent, Row, States
<1> QED
  BY <1>1 DEF Draft, Row, States

LEMMA DraftCreateKeeps ==
  ASSUME Inv, NEW i \in Invoices, DraftCreate(i)
  PROVE  Inv'
<1>1. /\ invoice[i].state = "absent" /\ i \notin Charged
      /\ invoice'[i] = Draft(None)
      /\ invoice' = [invoice EXCEPT ![i] = Draft(None)]
      /\ \A j \in Invoices : j # i => invoice'[j] = invoice[j]
      /\ UNCHANGED <<line, block, now>>
  BY DEF DraftCreate, Inv, RowsOK, Charged
<1>2. RowsOK'
  BY <1>1, DraftFields DEF Inv, RowsOK
<1>3. Charged' = Charged /\ Cancelled' = Cancelled
  BY <1>1, DraftFields DEF Charged, Cancelled
<1>4. Evidence'
  BY <1>1, <1>3, DraftFields DEF Inv, Evidence
<1>5. \A j \in Invoices : ActiveReplacements(j)' = ActiveReplacements(j)
  BY <1>1, DraftFields, ReceivablesAssumption DEF ActiveReplacements, Inv, RowsOK, Row
<1>6. ReplacementsPair'
  <2> SUFFICES ASSUME NEW j \in Invoices PROVE ReplacementsPair!(j)'
    BY DEF ReplacementsPair
  <2> QED
    BY <1>1, <1>3, <1>5, DraftFields DEF Inv, Evidence, ReplacementsPair
<1>7. BlocksApart' /\ NumbersGapless'
  BY <1>1, <1>3, UnnumberedKeeps
<1> QED
  BY <1>2, <1>4, <1>6, <1>7 DEF Inv

LEMMA DraftDiscardKeeps ==
  ASSUME Inv, NEW i \in Invoices, DraftDiscard(i)
  PROVE  Inv'
<1>1. /\ invoice[i].state = "draft"
      /\ invoice' = [invoice EXCEPT ![i] = [invoice[i] EXCEPT !.state = "discarded"]]
      /\ UNCHANGED <<line, block, now>>
  BY DEF DraftDiscard
<1>2. /\ invoice'[i].state = "discarded"
      /\ \A j \in Invoices : j # i => invoice'[j] = invoice[j]
      /\ \A j \in Invoices : /\ invoice'[j].replaces = invoice[j].replaces
                             /\ invoice'[j].replaced_by = invoice[j].replaced_by
                             /\ invoice'[j].number = invoice[j].number
  BY <1>1 DEF Inv, RowsOK, Row
<1>3. RowsOK'
  BY <1>1 DEF Inv, RowsOK, Row, States
<1>4. i \notin Charged /\ Charged' = Charged /\ Cancelled' = Cancelled
  BY <1>1, <1>2 DEF Charged, Cancelled
<1>5. Evidence'
  BY <1>1, <1>2, <1>4 DEF Inv, Evidence
<1>6. \A j \in Invoices : ActiveReplacements(j)' = ActiveReplacements(j) \ {i}
  BY <1>2 DEF ActiveReplacements
<1>7. ReplacementsPair'
  <2> SUFFICES ASSUME NEW j \in Invoices PROVE ReplacementsPair!(j)'
    BY DEF ReplacementsPair
  <2> QED
    BY <1>1, <1>2, <1>4, <1>6 DEF Inv, Evidence, ReplacementsPair
<1>8. BlocksApart' /\ NumbersGapless'
  BY <1>1, <1>2, <1>4, UnnumberedKeeps
<1> QED
  BY <1>3, <1>5, <1>7, <1>8 DEF Inv

(* What cancelling and reissuing, and reissuing again, do alike.           *)
LEMMA ReissueKeeps ==
  ASSUME Inv, RowsOK', NEW i \in Invoices, NEW r \in Invoices \ {i},
         invoice[r].state = "absent", ActiveReplacements(i) = {},
         invoice[i].state \in {"issued", "cancelled"},
         invoice'[i].state = "cancelled",
         invoice'[i].replaces = invoice[i].replaces,
         invoice'[i].replaced_by = invoice[i].replaced_by,
         invoice'[i].number = invoice[i].number,
         invoice'[r] = Draft(i),
         \A j \in Invoices \ {i, r} : invoice'[j] = invoice[j],
         UNCHANGED block
  PROVE  Inv'
<1>1. /\ invoice'[r].state = "draft" /\ invoice'[r].replaces = i
      /\ invoice'[r].replaced_by = None /\ invoice'[r].number = 0
  BY DraftFields
<1>2. Charged' = Charged /\ Cancelled' = Cancelled \cup {i}
  BY <1>1 DEF Charged, Cancelled
<1>3. r \notin Charged /\ i \in Charged /\ invoice[i].replaced_by = None
  BY DEF Inv, Evidence, Charged
<1>4. Evidence'
  BY <1>1, <1>2, <1>3 DEF Inv, Evidence
<1>5. /\ ActiveReplacements(i)' = {r}
      /\ \A j \in Invoices \ {i} : ActiveReplacements(j)' = ActiveReplacements(j)
  BY <1>1 DEF ActiveReplacements
<1>6. ReplacementsPair'
  <2> SUFFICES ASSUME NEW j \in Invoices PROVE ReplacementsPair!(j)'
    BY DEF ReplacementsPair
  <2>1. CASE j = i
    BY <2>1, <1>1, <1>2, <1>3, <1>5
  <2>2. CASE j = r
    BY <2>2, <1>1, <1>2, <1>3, <1>5 DEF Inv, ReplacementsPair, Cancelled
  <2>3. CASE j \notin {i, r}
    <3>1. /\ invoice'[j] = invoice[j] /\ ActiveReplacements(j)' = ActiveReplacements(j)
          /\ j \in Cancelled' <=> j \in Cancelled
      BY <2>3, <1>2, <1>5
    <3>2. invoice[j].replaced_by # None =>
            /\ invoice[j].replaced_by \in Invoices \ {r}
            /\ invoice'[invoice[j].replaced_by].replaces = j
      BY <1>3, <1>1 DEF Inv, Evidence, ReplacementsPair, Charged
    <3> QED
      BY <1>2, <3>1, <3>2 DEF Inv, ReplacementsPair
  <2> QED
    BY <2>1, <2>2, <2>3
<1>7. \A j \in Charged : invoice'[j].number = invoice[j].number
  BY <1>3 DEF Charged
<1>8. BlocksApart' /\ NumbersGapless'
  BY <1>2, <1>7, UnnumberedKeeps
<1> QED
  BY <1>4, <1>6, <1>8 DEF Inv

LEMMA CancelAndReissueKeeps ==
  ASSUME Inv, NEW i \in Invoices, NEW r \in Invoices, CancelAndReissue(i, r)
  PROVE  Inv'
<1> DEFINE cancelled == [invoice[i] EXCEPT !.state = "cancelled", !.cancelled_at = now]
<1>1. /\ invoice[i].state = "issued" /\ r # i /\ invoice[r].state = "absent"
      /\ ActiveReplacements(i) = {} /\ line' = Copied(i, r)
      /\ invoice' = [invoice EXCEPT ![i] = cancelled, ![r] = Draft(i)]
      /\ UNCHANGED <<block, now>>
  BY DEF CancelAndReissue, Reissuable
<1>2. /\ cancelled \in Row /\ cancelled.state = "cancelled"
      /\ cancelled.replaces = invoice[i].replaces
      /\ cancelled.replaced_by = invoice[i].replaced_by
      /\ cancelled.number = invoice[i].number
  BY DEF Inv, RowsOK, Row, States
<1> HIDE DEF cancelled
<1>3. /\ invoice'[i] = cancelled /\ invoice'[r] = Draft(i)
      /\ \A j \in Invoices \ {i, r} : invoice'[j] = invoice[j]
  BY <1>1 DEF Inv, RowsOK
<1>4. RowsOK'
  BY <1>1, <1>2, DraftFields DEF Inv, RowsOK, Copied
<1> QED
  BY <1>1, <1>2, <1>3, <1>4, ReissueKeeps

LEMMA ReissueAgainKeeps ==
  ASSUME Inv, NEW i \in Invoices, NEW r \in Invoices, ReissueAgain(i, r)
  PROVE  Inv'
<1>1. /\ invoice[i].state = "cancelled" /\ r # i /\ invoice[r].state = "absent"
      /\ ActiveReplacements(i) = {} /\ line' = Copied(i, r)
      /\ invoice' = [invoice EXCEPT ![r] = Draft(i)]
      /\ UNCHANGED <<block, now>>
  BY DEF ReissueAgain, Reissuable, agreements
<1>2. /\ invoice'[i] = invoice[i] /\ invoice'[r] = Draft(i)
      /\ \A j \in Invoices \ {i, r} : invoice'[j] = invoice[j]
  BY <1>1 DEF Inv, RowsOK
<1>3. RowsOK'
  BY <1>1, DraftFields DEF Inv, RowsOK, Copied
<1> QED
  BY <1>1, <1>2, <1>3, ReissueKeeps

LEMMA ReceiveBlockKeeps ==
  ASSUME Inv, NEW b \in Blocks, NEW d \in Devices, NEW r \in Ranges, ReceiveBlock(b, d, r)
  PROVE  Inv'
<1> DEFINE reserved == [device |-> d, first |-> r.first, next |-> r.first, last |-> r.last,
                        exhausted |-> FALSE]
<1>1. /\ b \notin Reserved /\ block' = [block EXCEPT ![b] = reserved]
      /\ \A c \in Reserved : ~Overlaps(r, c)
      /\ UNCHANGED <<invoice, line, now>>
  BY DEF ReceiveBlock, Reserved
<1>2. /\ r.first \in Nat \ {0} /\ r.last \in Nat /\ r.first <= r.last
      /\ reserved \in BlockRow
  BY ReceivablesAssumption DEF BlockRow
<1>3. /\ block'[b] = reserved /\ \A c \in Blocks \ {b} : block'[c] = block[c]
      /\ Reserved' = Reserved \cup {b}
  <2>1. reserved # None
    BY <1>2, ReceivablesAssumption
  <2> HIDE DEF reserved
  <2>2. block'[b] = reserved /\ \A c \in Blocks \ {b} : block'[c] = block[c]
    BY <1>1 DEF Inv, RowsOK
  <2> QED
    BY <2>1, <2>2 DEF Reserved
<1>4. RowsOK'
  BY <1>1, <1>2 DEF Inv, RowsOK
<1>5. BlocksApart'
  <2>1. \A c \in Reserved : r.last < block[c].first \/ block[c].last < r.first
    BY <1>1, <1>2 DEF Overlaps, Reserved, Inv, RowsOK, BlockRow
  <2>2. \A c \in Reserved : block'[c] = block[c]
    BY <1>1, <1>3 DEF Reserved
  <2> QED
    BY <1>2, <1>3, <2>1, <2>2 DEF Inv, BlocksApart
<1>6. Charged' = Charged /\ Cancelled' = Cancelled
      /\ \A j \in Invoices : ActiveReplacements(j)' = ActiveReplacements(j)
  BY <1>1 DEF Charged, Cancelled, ActiveReplacements
<1>7. Evidence' /\ ReplacementsPair'
  BY <1>1, <1>6 DEF Inv, Evidence, ReplacementsPair
<1>8. NumbersGapless'
  <2>1. Given(b)' = {}
    BY <1>2, <1>3 DEF Given
  <2>2. \A c \in Reserved : Given(c)' = Given(c)
    BY <1>1, <1>3 DEF Given, Reserved
  <2>3. UNION {Given(c)' : c \in Reserved'} = UNION {Given(c) : c \in Reserved}
    BY <1>3, <2>1, <2>2
  <2> QED
    BY <1>1, <1>6, <2>3 DEF Inv, NumbersGapless, Reserved
<1> QED
  BY <1>4, <1>5, <1>7, <1>8 DEF Inv

-----------------------------------------------------------------------------
(* The number a device takes next.                                         *)

LEMMA NextIsNew ==
  ASSUME Inv, NEW d \in Devices, NEW b \in Available(d)
  PROVE  /\ b \in Reserved /\ ~block[b].exhausted /\ block[b] \in BlockRow
         /\ block[b].next \in Nat \ {0}
         /\ \A i \in Invoices : invoice[i].number # block[b].next
<1>1. b \in Reserved /\ ~block[b].exhausted /\ block[b] \in BlockRow
  BY DEF Available, Usable, Reserved, Inv, RowsOK
<1>2. block[b].next \in block[b].first..block[b].last /\ block[b].next \in Nat \ {0}
  BY <1>1 DEF Inv, BlocksApart, BlockRow
<1>3. \A c \in Reserved : block[b].next \notin Given(c)
  <2> SUFFICES ASSUME NEW c \in Reserved PROVE block[b].next \notin Given(c)
    OBVIOUS
  <2>1. block[c] \in BlockRow
    BY DEF Reserved, Inv, RowsOK
  <2>2. CASE c = b
    BY <1>1, <2>2 DEF Given, BlockRow
  <2>3. CASE c # b
    BY <1>1, <1>2, <2>1, <2>3 DEF Inv, BlocksApart, Given, BlockRow
  <2> QED
    BY <2>2, <2>3
<1>4. \A i \in Charged : invoice[i].number # block[b].next
  BY <1>3 DEF Inv, NumbersGapless, Reserved
<1>5. \A i \in Invoices \ Charged : invoice[i].number = 0
  BY DEF Inv, Evidence, RowsOK, Row
<1> QED
  BY <1>1, <1>2, <1>4, <1>5

(* Taking it adds it to what its block gave.                               *)
LEMMA TakingGives ==
  ASSUME Inv, NEW b \in Reserved, ~block[b].exhausted,
         block' = [block EXCEPT ![b] = NumberTaken(b)]
  PROVE  /\ block' \in [Blocks -> {None} \cup BlockRow]
         /\ Reserved' = Reserved
         /\ BlocksApart'
         /\ Given(b)' = Given(b) \cup {block[b].next}
         /\ \A c \in Reserved \ {b} : Given(c)' = Given(c)
<1>1. /\ b \in Blocks /\ block[b] \in BlockRow
      /\ block[b].first <= block[b].next /\ block[b].next <= block[b].last
  BY DEF Reserved, Inv, RowsOK, BlocksApart
<1>2. /\ NumberTaken(b) \in BlockRow
      /\ NumberTaken(b).first = block[b].first /\ NumberTaken(b).last = block[b].last
      /\ block[b].next = block[b].last =>
           NumberTaken(b).exhausted /\ NumberTaken(b).next = block[b].next
      /\ block[b].next # block[b].last =>
           ~NumberTaken(b).exhausted /\ NumberTaken(b).next = block[b].next + 1
  <2>1. CASE block[b].next = block[b].last
    <3>1. NumberTaken(b) = [block[b] EXCEPT !.exhausted = TRUE]
      BY <2>1 DEF NumberTaken
    <3> QED
      BY <1>1, <2>1, <3>1 DEF BlockRow
  <2>2. CASE block[b].next # block[b].last
    <3>1. NumberTaken(b) = [block[b] EXCEPT !.next = block[b].next + 1]
      BY <2>2 DEF NumberTaken
    <3> QED
      BY <1>1, <2>2, <3>1 DEF BlockRow
  <2> QED
    BY <2>1, <2>2
<1>3. /\ block'[b] = NumberTaken(b) /\ \A c \in Blocks \ {b} : block'[c] = block[c]
      /\ block' \in [Blocks -> {None} \cup BlockRow]
      /\ Reserved' = Reserved
  BY <1>1, <1>2, ReceivablesAssumption DEF Inv, RowsOK, Reserved
<1>4. \A c \in Reserved :
        /\ block'[c].first = block[c].first /\ block'[c].last = block[c].last
        /\ c # b => block'[c] = block[c]
  BY <1>2, <1>3 DEF Reserved
<1>5. block'[b] \in BlockRow /\ block'[b].first <= block'[b].next
      /\ block'[b].next <= block'[b].last
      /\ (block'[b].exhausted => block'[b].next = block'[b].last)
  BY <1>1, <1>2, <1>3 DEF BlockRow
<1>6. BlocksApart'
  BY <1>3, <1>4, <1>5 DEF Inv, BlocksApart
<1>7. Given(b)' = Given(b) \cup {block[b].next}
  <2>1. block'[b].first = block[b].first /\ block'[b].last = block[b].last
    BY <1>4
  <2>2. CASE block[b].next = block[b].last
    BY <1>1, <1>2, <1>3, <2>1, <2>2 DEF Given, BlockRow
  <2>3. CASE block[b].next # block[b].last
    BY <1>1, <1>2, <1>3, <2>1, <2>3 DEF Given, BlockRow
  <2> QED
    BY <2>2, <2>3
<1>8. \A c \in Reserved \ {b} : Given(c)' = Given(c)
  BY <1>4 DEF Given
<1> QED
  BY <1>3, <1>6, <1>7, <1>8

LEMMA IssueKeeps ==
  ASSUME Inv, NEW i \in Invoices, NEW d \in Devices, Issue(i, d)
  PROVE  Inv'
<1> DEFINE source == invoice[i].replaces
<1>1. PICK b \in Available(d) :
        /\ block' = [block EXCEPT ![b] = NumberTaken(b)]
        /\ LET issued == [invoice EXCEPT ![i].state = "issued", ![i].number = block[b].next,
                                         ![i].issued_at = now]
           IN  invoice' = IF source = None THEN issued
                          ELSE [issued EXCEPT ![source].state = "replaced",
                                              ![source].replaced_by = i]
  BY DEF Issue
<1> DEFINE number == block[b].next
<1>2. /\ invoice[i].state = "draft" /\ i \notin Charged /\ invoice[i] \in Row
      /\ invoice[i].replaced_by = None
      /\ UNCHANGED <<line, now>>
  BY DEF Issue, Inv, RowsOK, Evidence, Charged
<1>3. source # None =>
        /\ source \in Invoices \ {i} /\ source \in Charged /\ invoice[source] \in Row
        /\ invoice[source].state = "cancelled" /\ invoice[source].replaced_by = None
        /\ ActiveReplacements(source) = {i}
  BY <1>2 DEF Issue, WaitingAlone, Charged, Inv, RowsOK, Row
<1>4. /\ number \in Nat \ {0} /\ b \in Reserved /\ ~block[b].exhausted
      /\ \A j \in Invoices : invoice[j].number # number
  BY NextIsNew
<1> DEFINE mine == [invoice[i] EXCEPT !.state = "issued", !.number = number, !.issued_at = now]
           was == [invoice[source] EXCEPT !.state = "replaced", !.replaced_by = i]
<1>5. /\ mine \in Row /\ mine.state = "issued" /\ mine.number = number
      /\ mine.replaces = source /\ mine.replaced_by = None
  BY <1>2, <1>4 DEF Inv, RowsOK, Row, States
<1>6. source # None =>
        /\ was \in Row /\ was.state = "replaced" /\ was.number = invoice[source].number
        /\ was.replaces = invoice[source].replaces /\ was.replaced_by = i
  BY <1>3 DEF Row, States
<1>7. /\ invoice'[i] = mine
      /\ source # None => invoice'[source] = was
      /\ \A j \in Invoices \ {i, source} : invoice'[j] = invoice[j]
      /\ invoice' \in [Invoices -> Row]
  <2>1. CASE source = None
    <3>1. invoice' = [invoice EXCEPT ![i] = mine]
      BY <1>1, <2>1
    <3> QED
      BY <2>1, <3>1, <1>5 DEF Inv, RowsOK
  <2>2. CASE source # None
    <3>1. invoice' = [invoice EXCEPT ![i] = mine, ![source] = was]
      BY <1>1, <1>3, <2>2 DEF Inv, RowsOK
    <3> QED
      BY <2>2, <3>1, <1>3, <1>5, <1>6 DEF Inv, RowsOK
  <2> QED
    BY <2>1, <2>2
<1>8. /\ source = invoice[i].replaces /\ number = block[b].next
      /\ None \notin Invoices
  BY ReceivablesAssumption
<1> HIDE DEF mine, was, source, number
<1>9. /\ block' \in [Blocks -> {None} \cup BlockRow] /\ Reserved' = Reserved /\ BlocksApart'
      /\ Given(b)' = Given(b) \cup {number}
      /\ \A c \in Reserved \ {b} : Given(c)' = Given(c)
  BY <1>1, <1>4, <1>8, TakingGives
<1>10. RowsOK'
  BY <1>2, <1>7, <1>9 DEF Inv, RowsOK
<1>11. /\ Charged' = Charged \cup {i} /\ Cancelled' = Cancelled
       /\ \A j \in Invoices : invoice'[j].replaces = invoice[j].replaces
       /\ \A j \in Charged : invoice'[j].number = invoice[j].number
  BY <1>2, <1>3, <1>5, <1>6, <1>7, <1>8 DEF Charged, Cancelled
<1>12. Evidence'
  <2> SUFFICES ASSUME NEW j \in Invoices PROVE Evidence!(j)'
    BY DEF Evidence
  <2>1. CASE j = i
    BY <1>4, <1>5, <1>7, <1>11, <2>1
  <2>2. CASE j # i /\ j = source
    BY <1>3, <1>6, <1>7, <1>8, <1>11, <2>2 DEF Inv, Evidence
  <2>3. CASE j \notin {i, source}
    BY <1>7, <1>11, <2>3 DEF Inv, Evidence
  <2> QED
    BY <2>1, <2>2, <2>3
<1>13. \A j \in Invoices : ActiveReplacements(j)' = ActiveReplacements(j)
  BY <1>2, <1>3, <1>5, <1>6, <1>7, <1>8, <1>11 DEF ActiveReplacements
<1>14. ReplacementsPair'
  <2> SUFFICES ASSUME NEW j \in Invoices PROVE ReplacementsPair!(j)'
    BY DEF ReplacementsPair
  <2>1. CASE j = i
    BY <1>2, <1>5, <1>7, <1>11, <1>13, <2>1
       DEF Inv, ReplacementsPair, Charged, Cancelled
  <2>2. CASE j # i /\ j = source
    BY <1>3, <1>6, <1>7, <1>8, <1>11, <1>13, <2>2 DEF Inv, ReplacementsPair
  <2>3. CASE j \notin {i, source}
    <3>1. /\ invoice'[j] = invoice[j] /\ i \notin ActiveReplacements(j)
          /\ ActiveReplacements(j)' = ActiveReplacements(j)
      BY <1>7, <1>8, <1>13, <2>3 DEF ActiveReplacements
    <3>2. invoice[j].replaced_by # None =>
            invoice'[invoice[j].replaced_by].replaces = j
      BY <1>11 DEF Inv, Evidence, ReplacementsPair, Charged
    <3> QED
      BY <1>11, <3>1, <3>2 DEF Inv, ReplacementsPair
  <2> QED
    BY <2>1, <2>2, <2>3
<1>15. NumbersGapless'
  <2>1. {invoice'[j].number : j \in Charged'} = {invoice[j].number : j \in Charged} \cup {number}
    BY <1>5, <1>7, <1>11
  <2>2. \A n : (\E c \in Reserved' : n \in Given(c)')
                <=> (\E c \in Reserved : n \in Given(c)) \/ n = number
    BY <1>4, <1>9
  <2>3. \A j, k \in Charged' : j # k => invoice'[j].number # invoice'[k].number
    BY <1>4, <1>5, <1>7, <1>11 DEF Inv, NumbersGapless, Charged
  <2>4. UNION {Given(c) : c \in Reserved} = {invoice[j].number : j \in Charged}
    BY DEF Inv, NumbersGapless, Reserved
  <2>5. UNION {Given(c)' : c \in Reserved'} = {invoice'[j].number : j \in Charged'}
    BY <2>1, <2>2, <2>4
  <2> QED
    BY <2>3, <2>5 DEF NumbersGapless, Reserved
<1> QED
  BY <1>9, <1>10, <1>12, <1>14, <1>15 DEF Inv

-----------------------------------------------------------------------------
LEMMA NextInv == Inv /\ [Next]_vars => Inv'
<1> SUFFICES ASSUME Inv, [Next]_vars PROVE Inv'
  OBVIOUS
<1>1. ASSUME NEW i \in Invoices, DraftCreate(i) PROVE Inv'
  BY <1>1, DraftCreateKeeps
<1>2. ASSUME NEW i \in Invoices, DraftDiscard(i) PROVE Inv'
  BY <1>2, DraftDiscardKeeps
<1>3. ASSUME NEW i \in Invoices, NEW d \in Devices, Issue(i, d) PROVE Inv'
  BY <1>3, IssueKeeps
<1>4. ASSUME NEW i \in Invoices, NEW r \in Invoices, CancelAndReissue(i, r) PROVE Inv'
  BY <1>4, CancelAndReissueKeeps
<1>5. ASSUME NEW i \in Invoices, NEW r \in Invoices, ReissueAgain(i, r) PROVE Inv'
  BY <1>5, ReissueAgainKeeps
<1>6. ASSUME NEW b \in Blocks, NEW d \in Devices, NEW r \in Ranges, ReceiveBlock(b, d, r)
      PROVE  Inv'
  BY <1>6, ReceiveBlockKeeps
<1>7. ASSUME NEW x \in InvoiceLines,
             \/ \E qty \in Quantities, rate \in Rates : LineUpsert(x, qty, rate)
             \/ LineRemove(x)
             \/ \E a \in Agreements, l \in AgreementLines : ApplyAgreement(x, a, l)
      PROVE  Inv'
  <2>1. UNCHANGED <<invoice, block, now>>
    BY <1>7 DEF LineUpsert, LineRemove, ApplyAgreement
  <2>2. RowsOK'
    BY <1>7, <2>1 DEF LineUpsert, LineRemove, ApplyAgreement, Inv, RowsOK
  <2> QED
    BY <2>1, <2>2, ElsewhereKeeps
<1>8. ASSUME \/ \E p \in Payments :
                  \/ \E amount \in Amounts, paid_at \in 1..MaxTime :
                       TakePayment(p, amount, paid_at)
                  \/ \E x \in Allocations, amount \in Amounts, target \in Invoices \cup Jobs :
                       Allocate(x, p, amount, target)
             \/ \E x \in Allocations : ReleaseAllocation(x)
             \/ A!AgreementHandlers /\ UNCHANGED <<receivables, now>>
             \/ UNCHANGED vars
      PROVE  Inv'
  <2>1. UNCHANGED <<invoice, line, block, now>>
    BY <1>8 DEF TakePayment, Allocate, ReleaseAllocation, receivables, vars
  <2>2. RowsOK'
    BY <2>1 DEF Inv, RowsOK
  <2> QED
    BY <2>1, <2>2, ElsewhereKeeps
<1>9. ASSUME A!Tick, UNCHANGED <<receivables, agreements>> PROVE Inv'
  <2>1. UNCHANGED <<invoice, line, block>> /\ now' = now + 1
    BY <1>9 DEF receivables, A!Tick
  <2>2. RowsOK'
    BY <2>1 DEF Inv, RowsOK
  <2> QED
    BY <2>1, <2>2, ElsewhereKeeps
<1> QED
  BY <1>1, <1>2, <1>3, <1>4, <1>5, <1>6, <1>7, <1>8, <1>9 DEF Next

LEMMA Invariance == Spec => []Inv
BY InitInv, NextInv, PTL DEF Spec

(* "Series are gapless per device": invoices carry exactly the numbers     *)
(* that the blocks gave out, and no two the same one.                      *)
THEOREM Gapless == Spec => []NumbersGapless
<1>1. Inv => NumbersGapless
  BY DEF Inv
<1> QED
  BY Invariance, <1>1, PTL

(* The duplicate check at the end of issue_invoice never refuses, however  *)
(* many devices hold however many blocks.                                  *)
THEOREM NextIsUnused == Spec => []NextNumberUnused
<1>1. Inv => NextNumberUnused
  BY NextIsNew DEF NextNumberUnused
<1> QED
  BY Invariance, <1>1, PTL

(* An invoice is replaced by the one replacement that was issued, and one  *)
(* replacement at the most is under way.                                   *)
THEOREM Pairs == Spec => []ReplacementsPair
<1>1. Inv => ReplacementsPair
  BY DEF Inv
<1> QED
  BY Invariance, <1>1, PTL

-----------------------------------------------------------------------------
(* What is frozen.                                                         *)

FrozenStep ==
  \A i \in Charged :
    /\ invoice'[i].number = invoice[i].number
    /\ \A k \in Slots : line'[<<i, k>>] = line[<<i, k>>]
    /\ <<invoice[i].state, invoice'[i].state>> \in
         {<<s, s>> : s \in States} \cup {<<"issued", "cancelled">>, <<"cancelled", "replaced">>}

LEMMA SameInvoiceFrozen ==
  ASSUME Inv, NEW i \in Charged, invoice'[i] = invoice[i],
         \A k \in Slots : line'[<<i, k>>] = line[<<i, k>>]
  PROVE  FrozenStep!(i)
BY DEF Inv, RowsOK, Row, Charged

LEMMA DraftLineFrozen ==
  ASSUME Inv, NEW x \in InvoiceLines, NEW value, invoice[x[1]].state = "draft",
         line' = [line EXCEPT ![x] = value], UNCHANGED invoice
  PROVE  FrozenStep
<1> SUFFICES ASSUME NEW i \in Charged PROVE FrozenStep!(i)
  BY DEF FrozenStep
<1>1. \A k \in Slots : <<i, k>> \in InvoiceLines /\ <<i, k>> # x
  BY ReceivablesAssumption DEF Charged
<1>2. \A k \in Slots : line'[<<i, k>>] = line[<<i, k>>]
  BY <1>1 DEF Inv, RowsOK
<1> QED
  BY <1>2, SameInvoiceFrozen

LEMMA CopyFrozen ==
  ASSUME Inv, NEW i \in Invoices, NEW r \in Invoices, invoice[r].state = "absent",
         line' = Copied(i, r), NEW j \in Charged
  PROVE  \A k \in Slots : line'[<<j, k>>] = line[<<j, k>>]
BY ReceivablesAssumption DEF Copied, Charged

LEMMA NextFrozen == Inv /\ [Next]_vars => [FrozenStep]_vars
<1> SUFFICES ASSUME Inv, Next PROVE FrozenStep
  OBVIOUS
<1>1. ASSUME UNCHANGED <<invoice, line>> PROVE FrozenStep
  BY <1>1, SameInvoiceFrozen DEF FrozenStep
<1>2. ASSUME NEW i \in Invoices, DraftCreate(i) \/ DraftDiscard(i) PROVE FrozenStep
  <2> SUFFICES ASSUME NEW j \in Charged PROVE FrozenStep!(j)
    BY DEF FrozenStep
  <2>1. invoice'[j] = invoice[j] /\ UNCHANGED line
    BY <1>2 DEF DraftCreate, DraftDiscard, Charged, Inv, RowsOK
  <2> QED
    BY <2>1, SameInvoiceFrozen
<1>3. ASSUME NEW i \in Invoices, NEW d \in Devices, Issue(i, d) PROVE FrozenStep
  <2> SUFFICES ASSUME NEW j \in Charged PROVE FrozenStep!(j)
    BY DEF FrozenStep
  <2> DEFINE source == invoice[i].replaces
  <2>1. /\ j # i /\ UNCHANGED line
        /\ source # None => invoice[source].state = "cancelled"
    BY <1>3 DEF Issue, WaitingAlone, Charged
  <2>2. CASE source = None \/ j # source
    <3>1. invoice'[j] = invoice[j]
      BY <1>3, <2>1, <2>2 DEF Issue, Inv, RowsOK, Charged
    <3> QED
      BY <2>1, <3>1, SameInvoiceFrozen
  <2>3. CASE source # None /\ j = source
    <3>1. PICK number :
            invoice' = [[invoice EXCEPT ![i].state = "issued", ![i].number = number,
                                        ![i].issued_at = now]
                          EXCEPT ![source].state = "replaced", ![source].replaced_by = i]
      BY <1>3, <2>3 DEF Issue
    <3>2. invoice \in [Invoices -> Row] /\ j \in Invoices
      BY DEF Inv, RowsOK, Charged
    <3>3. invoice'[j] = [invoice[j] EXCEPT !.state = "replaced", !.replaced_by = i]
      BY <2>1, <2>3, <3>1, <3>2
    <3>4. invoice'[j].number = invoice[j].number /\ invoice'[j].state = "replaced"
      BY <3>2, <3>3 DEF Row
    <3> QED
      BY <2>1, <2>3, <3>4 DEF States
  <2> QED
    BY <2>2, <2>3
<1>4. ASSUME NEW i \in Invoices, NEW r \in Invoices,
             CancelAndReissue(i, r) \/ ReissueAgain(i, r)
      PROVE  FrozenStep
  <2> SUFFICES ASSUME NEW j \in Charged PROVE FrozenStep!(j)
    BY DEF FrozenStep
  <2>1. invoice[r].state = "absent" /\ j # r /\ line' = Copied(i, r)
    BY <1>4 DEF CancelAndReissue, ReissueAgain, Reissuable, Charged
  <2>2. \A k \in Slots : line'[<<j, k>>] = line[<<j, k>>]
    BY <2>1, CopyFrozen
  <2>3. CASE CancelAndReissue(i, r) /\ j = i
    <3>1. /\ invoice[i].state = "issued" /\ invoice'[i].state = "cancelled"
          /\ invoice'[i].number = invoice[i].number
      BY <2>1, <2>3 DEF CancelAndReissue, Inv, RowsOK, Row
    <3> QED
      BY <2>2, <2>3, <3>1
  <2>4. CASE ReissueAgain(i, r) \/ j # i
    <3>1. invoice'[j] = invoice[j]
      BY <1>4, <2>1, <2>4 DEF CancelAndReissue, ReissueAgain, Inv, RowsOK, Charged
    <3> QED
      BY <2>2, <3>1, SameInvoiceFrozen
  <2> QED
    BY <1>4, <2>3, <2>4
<1>5. ASSUME NEW x \in InvoiceLines,
             \/ \E qty \in Quantities, rate \in Rates : LineUpsert(x, qty, rate)
             \/ LineRemove(x)
             \/ \E a \in Agreements, l \in AgreementLines : ApplyAgreement(x, a, l)
      PROVE  FrozenStep
  BY <1>5, DraftLineFrozen DEF LineUpsert, LineRemove, ApplyAgreement
<1> QED
  BY <1>1, <1>2, <1>3, <1>4, <1>5
     DEF Next, ReceiveBlock, TakePayment, Allocate, ReleaseAllocation, receivables

(* "Frozen from here on": an issued invoice keeps its number and its lines *)
(* for ever and moves only to cancelled and from there to replaced.        *)
THEOREM Frozen == Spec => IssuedIsFrozen
<1>1. Inv /\ [Next]_vars => [FrozenStep]_vars
  BY NextFrozen
<1> QED
  BY Invariance, <1>1, PTL DEF Spec, IssuedIsFrozen, FrozenStep

(* An issued invoice stands: it keeps its number and lines, is replaced by *)
(* one other at the most, and each of the two names the other.             *)
THEOREM Stand == Spec => InvoicesStand
  BY Pairs, Frozen, PTL DEF InvoicesStand

-----------------------------------------------------------------------------
(* The ledgers.  The lemmas about agreements are those of the module       *)
(* AgreementsProofs, whose operators are the same as those of A.           *)

AP == INSTANCE AgreementsProofs

LEMMA SameSums ==
  ASSUME NEW f, NEW S
  PROVE  A!SumOver(f, S) = SumOver(f, S) /\ AP!SumOver(f, S) = SumOver(f, S)
BY DEF SumOver, FoldFunctionOnSet, MapThenFoldSet,
       A!SumOver, A!FoldFunctionOnSet, A!MapThenFoldSet,
       AP!SumOver, AP!FoldFunctionOnSet, AP!MapThenFoldSet

LEMMA SameAccounts ==
  /\ AP!ConsumptionAccounted /\ AP!CapKeptOrExplained <=> ConsumptionAccounted
  /\ A!InUse(InvoiceLines) = AP!InUse(InvoiceLines)
BY DEF ConsumptionAccounted, A!ConsumptionAccounted, AP!ConsumptionAccounted,
       A!CapKeptOrExplained, AP!CapKeptOrExplained, A!ValidLine, AP!ValidLine,
       A!LinesOf, AP!LinesOf, A!InUse, AP!InUse, A!UsedOf, AP!UsedOf,
       A!SumOver, A!FoldFunctionOnSet, A!MapThenFoldSet,
       AP!SumOver, AP!FoldFunctionOnSet, AP!MapThenFoldSet

LEMMA SameHandlers == A!AgreementHandlers <=> AP!AgreementHandlers
BY DEF A!AgreementHandlers, AP!AgreementHandlers, A!Create, AP!Create, A!Amend, AP!Amend,
       A!Open, AP!Open, A!Supersede, AP!Supersede, A!Close, AP!Close, A!Reopen, AP!Reopen,
       A!Proposals, AP!Proposals, A!ValidPeriod, AP!ValidPeriod, A!Lapsed, AP!Lapsed,
       A!Restated, AP!Restated, A!Restate, AP!Restate, A!CanAmend, AP!CanAmend,
       A!TransitionAllowed, AP!TransitionAllowed, A!CompletesACycle, AP!CompletesACycle,
       A!Chain, AP!Chain, A!LinesOf, AP!LinesOf, A!ValidLine, AP!ValidLine,
       A!Carried, AP!Carried, A!Cardinality, AP!Cardinality, A!IsFiniteSet, AP!IsFiniteSet

LEMMA SameConsume == ASSUME NEW uses PROVE A!Consume(uses) <=> AP!Consume(uses)
BY DEF A!Consume, AP!Consume, A!InForce, AP!InForce, A!Lapsed, AP!Lapsed,
       A!LinesOf, AP!LinesOf, A!Asked, AP!Asked,
       A!SumOver, A!FoldFunctionOnSet, A!MapThenFoldSet,
       AP!SumOver, AP!FoldFunctionOnSet, AP!MapThenFoldSet

LEMMA SameRelease == ASSUME NEW lines PROVE A!Release(lines) <=> AP!Release(lines)
BY DEF A!Release, AP!Release, A!UsedOf, AP!UsedOf, A!LinesOf, AP!LinesOf, A!InUse, AP!InUse,
       A!SumOver, A!FoldFunctionOnSet, A!MapThenFoldSet,
       AP!SumOver, AP!FoldFunctionOnSet, AP!MapThenFoldSet

(* The constants are as Agreements assumes them.                           *)
LEMMA SharedByProofs == AP!AgreementAssumption
BY SharedAssumption
   DEF A!IsFiniteSet, AP!IsFiniteSet, A!AgreedRow, AP!AgreedRow, A!UsageRow, AP!UsageRow

LEMMA SharedConstants ==
  /\ None \notin A!UsageRow
  /\ Quantities \subseteq Nat \ {0}
  /\ Terms \subseteq [product : {"p1", "p2"}, rate : Nat, cap : Nat, reason : BOOLEAN]
  /\ MaxTime \in Nat \ {0}
BY SharedAssumption DEF A!AgreementAssumption

-----------------------------------------------------------------------------
(* Sums over the lines of an invoice and over allocations.                 *)

OnFile(x) == allocation[x] # None

LedgerRowsOK ==
  /\ line \in [InvoiceLines -> {None} \cup LineRow]
  /\ \A x \in InvoiceLines :
       line[x] # None => (line[x].of = None <=> line[x].line = None)
  /\ payment \in [Payments -> {None} \cup PaymentRow]
  /\ allocation \in [Allocations -> {None} \cup AllocationRow]
  /\ now \in 1..MaxTime

AmountOf == [x \in Allocations |-> IF OnFile(x) THEN allocation[x].amount ELSE 0]

LedgerSums ==
  /\ \A x \in Allocations : AmountOf[x] \in Nat
  /\ \A S \in SUBSET {x \in Allocations : OnFile(x)} :
       IsFiniteSet(S) /\ Sum(S) = SumOver(AmountOf, S) /\ Sum(S) \in Nat
  /\ \A i \in Invoices : Total(i) \in Nat
  /\ \A i \in Invoices : ActiveOn(i) \in SUBSET {x \in Allocations : OnFile(x)}
  /\ \A p \in Payments : ActiveOf(p) \in SUBSET {x \in Allocations : OnFile(x)}

LEMMA RowsSum == LedgerRowsOK => LedgerSums
<1> SUFFICES ASSUME LedgerRowsOK PROVE LedgerSums
  OBVIOUS
<1>1. \A x \in Allocations : AmountOf[x] \in Nat
  BY ReceivablesAssumption DEF LedgerRowsOK, AmountOf, OnFile, AllocationRow
<1>2. ASSUME NEW S \in SUBSET {x \in Allocations : OnFile(x)}
      PROVE  IsFiniteSet(S) /\ Sum(S) = SumOver(AmountOf, S) /\ Sum(S) \in Nat
  <2> DEFINE f == [x \in S |-> allocation[x].amount]
  <2>1. IsFiniteSet(S)
    BY ReceivablesAssumption, FS_Subset
  <2>2. \A x \in S : AmountOf[x] \in Int /\ AmountOf[x] = f[x]
    BY <1>1 DEF AmountOf
  <2>3. Sum(S) = SumOver(f, S)
    BY DEF Sum
  <2> HIDE DEF f
  <2>4. SumOver(AmountOf, S) = SumOver(f, S)
    BY <2>1, <2>2, SumSame
  <2>5. SumOver(AmountOf, S) \in Nat
    BY <1>1, <2>1, SumNat
  <2> QED
    BY <2>1, <2>3, <2>4, <2>5
<1>3. ASSUME NEW i \in Invoices PROVE Total(i) \in Nat
  <2> DEFINE f == [x \in LinesOn(i) |-> line[x].qty * line[x].rate]
  <2>1. IsFiniteSet(LinesOn(i))
    BY ReceivablesAssumption, FS_Subset DEF LinesOn
  <2>2. \A m, n \in Nat : m * n \in Nat
    OBVIOUS
  <2>3. \A x \in LinesOn(i) : line[x].qty \in Nat /\ line[x].rate \in Nat
    BY SharedConstants DEF LinesOn, LedgerRowsOK, LineRow
  <2>4. \A x \in LinesOn(i) : f[x] \in Nat
    BY <2>2, <2>3
  <2>5. Total(i) = SumOver(f, LinesOn(i))
    BY DEF Total
  <2> HIDE DEF f
  <2> QED
    BY <2>1, <2>4, <2>5, SumNat
<1> QED
  BY <1>1, <1>2, <1>3 DEF LedgerSums, ActiveOn, ActiveOf, OnFile

LEMMA RowsSumAfter == LedgerRowsOK' => LedgerSums'
BY RowsSum, PTL

(* An allocation is of a payment that was taken.                           *)
Taken == \A x \in Allocations : OnFile(x) => payment[allocation[x].payment] # None

TermsOK ==
  \A l \in AgreementLines : agreed[l] # None =>
    DOMAIN agreed[l] = {"of", "terms", "consumed"} /\ agreed[l].terms \in Terms

(* Money needs nothing of what is used of agreements.                      *)
MoneyInv == LedgerRowsOK /\ TermsOK /\ Taken /\ MoneyConserved

UseInv == AP!Accounts /\ UsedWhileIssued

-----------------------------------------------------------------------------
(* Rows keep their types.                                                  *)

LEMMA CopiedRows ==
  ASSUME LedgerRowsOK, NEW i \in Invoices, NEW r \in Invoices, line' = Copied(i, r)
  PROVE  /\ line' \in [InvoiceLines -> {None} \cup LineRow]
         /\ \A x \in InvoiceLines :
              line'[x] # None => (line'[x].of = None <=> line'[x].line = None)
<1>1. \A x \in InvoiceLines : line'[x] = line[x] \/ \E y \in InvoiceLines : line'[x] = line[y]
  BY ReceivablesAssumption DEF Copied
<1>2. line' = [x \in InvoiceLines |-> line'[x]]
  BY DEF Copied
<1> QED
  BY <1>1, <1>2 DEF LedgerRowsOK

LEMMA ReleasedRow ==
  ASSUME LedgerRowsOK, NEW x \in Allocations, OnFile(x)
  PROVE  LET y == [allocation[x] EXCEPT !.active = FALSE, !.released_at = now] IN
         /\ y \in AllocationRow /\ y # None /\ ~y.active
         /\ y.amount = allocation[x].amount /\ y.target = allocation[x].target
         /\ y.payment = allocation[x].payment
<1> DEFINE y == [allocation[x] EXCEPT !.active = FALSE, !.released_at = now]
<1>1. allocation[x] \in AllocationRow /\ now \in 0..MaxTime
  BY SharedConstants DEF LedgerRowsOK, OnFile
<1>2. /\ y \in AllocationRow /\ ~y.active
      /\ y.amount = allocation[x].amount /\ y.target = allocation[x].target
      /\ y.payment = allocation[x].payment
  BY <1>1 DEF AllocationRow
<1> QED
  BY <1>2, ReceivablesAssumption

LEMMA NextRows ==
  ASSUME LedgerRowsOK, TermsOK, [Next]_vars
  PROVE  LedgerRowsOK'
<1> USE DEF LedgerRowsOK
<1>1. ASSUME UNCHANGED <<line, payment, allocation, now>> PROVE LedgerRowsOK'
  BY <1>1
<1>2. ASSUME NEW i \in Invoices,
             DraftCreate(i) \/ DraftDiscard(i) \/ \E d \in Devices : Issue(i, d)
      PROVE  LedgerRowsOK'
  BY <1>1, <1>2 DEF DraftCreate, DraftDiscard, Issue, money
<1>3. ASSUME NEW i \in Invoices, NEW r \in Invoices, ReissueAgain(i, r) PROVE LedgerRowsOK'
  BY <1>3, CopiedRows DEF ReissueAgain, Reissuable, money
<1>4. ASSUME NEW i \in Invoices, NEW r \in Invoices, CancelAndReissue(i, r)
      PROVE  LedgerRowsOK'
  <2>1. \A x \in Allocations : ReleaseOn(i)[x] \in {None} \cup AllocationRow
    <3> TAKE x \in Allocations
    <3>1. x \in ActiveOn(i) => OnFile(x)
      BY DEF ActiveOn, OnFile
    <3> QED
      BY <3>1, ReleasedRow DEF ReleaseOn
  <2>2. ReleaseOn(i) = [x \in Allocations |-> ReleaseOn(i)[x]]
    BY DEF ReleaseOn
  <2>3. ReleaseOn(i) \in [Allocations -> {None} \cup AllocationRow]
    BY <2>1, <2>2
  <2>4. line' = Copied(i, r) /\ allocation' = ReleaseOn(i) /\ UNCHANGED <<payment, now>>
    BY <1>4 DEF CancelAndReissue, Reissuable
  <2> QED
    BY <2>3, <2>4, CopiedRows
<1>5. ASSUME NEW x \in InvoiceLines, NEW qty \in Quantities, NEW rate \in Rates,
             LineUpsert(x, qty, rate)
      PROVE  LedgerRowsOK'
  <2> DEFINE y == [qty |-> qty, rate |-> rate, of |-> None, line |-> None]
  <2>1. y \in LineRow
    BY ReceivablesAssumption DEF LineRow
  <2>2. line' = [line EXCEPT ![x] = y] /\ UNCHANGED <<payment, allocation, now>>
    BY <1>5 DEF LineUpsert, money
  <2> QED
    BY <2>1, <2>2
<1>6. ASSUME NEW x \in InvoiceLines, LineRemove(x) PROVE LedgerRowsOK'
  BY <1>6 DEF LineRemove, money
<1>7. ASSUME NEW x \in InvoiceLines, NEW a \in Agreements, NEW l \in AgreementLines,
             ApplyAgreement(x, a, l)
      PROVE  LedgerRowsOK'
  <2> DEFINE y == [qty |-> line[x].qty, rate |-> agreed[l].terms.rate, of |-> a, line |-> l]
  <2>1. /\ line[x] # None /\ agreed[l] # None
        /\ line' = [line EXCEPT ![x] = y] /\ UNCHANGED <<payment, allocation, now>>
    BY <1>7 DEF ApplyAgreement, money, A!LinesOf
  <2>2. agreed[l].terms.rate \in Nat
    BY <2>1, SharedConstants DEF TermsOK
  <2>3. y \in LineRow
    BY <2>1, <2>2 DEF LineRow
  <2>4. a # None /\ l # None
    BY SharedAssumption DEF A!AgreementAssumption
  <2> QED
    BY <2>1, <2>3, <2>4
<1>8. ASSUME NEW p \in Payments, NEW amount \in Amounts, NEW paid_at \in 1..MaxTime,
             TakePayment(p, amount, paid_at)
      PROVE  LedgerRowsOK'
  <2>1. [amount |-> amount, paid_at |-> paid_at] \in PaymentRow
    BY DEF PaymentRow
  <2> QED
    BY <1>8, <2>1 DEF TakePayment
<1>9. ASSUME NEW p \in Payments, NEW x \in Allocations, NEW amount \in Amounts,
             NEW target \in Invoices \cup Jobs, Allocate(x, p, amount, target)
      PROVE  LedgerRowsOK'
  <2> DEFINE y == [payment |-> p, target |-> target, amount |-> amount, active |-> TRUE,
                   allocated_at |-> now, released_at |-> 0]
  <2>1. y \in AllocationRow
    BY SharedConstants DEF AllocationRow
  <2>2. allocation' = [allocation EXCEPT ![x] = y] /\ UNCHANGED <<line, payment, now>>
    BY <1>9 DEF Allocate
  <2> QED
    BY <2>1, <2>2
<1>10. ASSUME NEW x \in Allocations, ReleaseAllocation(x) PROVE LedgerRowsOK'
  <2> DEFINE y == [allocation[x] EXCEPT !.active = FALSE, !.released_at = now]
  <2>1. y \in AllocationRow
    BY <1>10, ReleasedRow DEF ReleaseAllocation, OnFile
  <2>2. allocation' = [allocation EXCEPT ![x] = y] /\ UNCHANGED <<line, payment, now>>
    BY <1>10 DEF ReleaseAllocation
  <2> QED
    BY <2>1, <2>2
<1>11. ASSUME A!Tick /\ UNCHANGED <<receivables, agreements>> PROVE LedgerRowsOK'
  BY <1>11, SharedConstants DEF A!Tick, receivables
<1>12. ASSUME \/ \E b \in Blocks, d \in Devices, r \in Ranges : ReceiveBlock(b, d, r)
              \/ A!AgreementHandlers /\ UNCHANGED <<receivables, now>>
              \/ UNCHANGED vars
       PROVE  LedgerRowsOK'
  BY <1>1, <1>12 DEF ReceiveBlock, money, receivables, vars
<1> QED
  BY <1>2, <1>3, <1>4, <1>5, <1>6, <1>7, <1>8, <1>9, <1>10, <1>11, <1>12 DEF Next

(* The handlers of agreements touch the lines only by restating them.      *)
LEMMA HandlersRestate ==
  ASSUME A!AgreementHandlers
  PROVE  /\ UNCHANGED usage
         /\ \/ UNCHANGED agreed
            \/ \E a \in Agreements, p \in A!Proposals \cup {None} : A!Restated(a, p)
            \/ \E a \in Agreements, p \in A!Proposals : A!Restate(a, p)
<1>1. PICK a \in Agreements, period \in Periods :
        \/ \E earlier \in Agreements \cup {None}, p \in A!Proposals : A!Create(a, period, earlier, p)
        \/ \E p \in A!Proposals \cup {None} :
             \/ A!Amend(a, period, p)
             \/ A!Open(a, period, p)
             \/ \E b \in Agreements : A!Supersede(a, b, period, p)
        \/ A!Close(a)
        \/ A!Reopen(a, period)
  BY DEF A!AgreementHandlers
<1>2. ASSUME NEW earlier \in Agreements \cup {None}, NEW p \in A!Proposals,
             A!Create(a, period, earlier, p)
      PROVE  UNCHANGED usage /\ A!Restate(a, p)
  BY <1>2 DEF A!Create
<1>3. ASSUME NEW p \in A!Proposals \cup {None},
             \/ A!Amend(a, period, p)
             \/ A!Open(a, period, p)
             \/ \E b \in Agreements : A!Supersede(a, b, period, p)
      PROVE  UNCHANGED usage /\ A!Restated(a, p)
  BY <1>3 DEF A!Amend, A!Open, A!Supersede
<1>4. ASSUME A!Close(a) \/ A!Reopen(a, period)
      PROVE  UNCHANGED <<agreed, usage>>
  BY <1>4 DEF A!Close, A!Reopen
<1> QED
  BY <1>1, <1>2, <1>3, <1>4

(* Agreed lines keep the shape of terms, whosever line is restated.        *)
LEMMA NextTerms == ASSUME TermsOK, [Next]_vars PROVE TermsOK'
<1>1. ASSUME UNCHANGED agreed PROVE TermsOK'
  BY <1>1 DEF TermsOK
<1>2. ASSUME NEW a \in Agreements, NEW p \in A!Proposals, A!Restate(a, p) PROVE TermsOK'
  <2>1. \A l \in DOMAIN p : p[l] \in Terms
    BY DEF A!Proposals
  <2> QED
    BY <1>2, <2>1 DEF A!Restate, TermsOK
<1>3. ASSUME NEW a \in Agreements, NEW p \in A!Proposals \cup {None}, A!Restated(a, p)
      PROVE  TermsOK'
  BY <1>1, <1>2, <1>3 DEF A!Restated
<1>4. ASSUME A!AgreementHandlers PROVE TermsOK'
  BY <1>1, <1>2, <1>3, <1>4, HandlersRestate
<1>5. ASSUME NEW uses, A!Consume(uses) PROVE TermsOK'
  BY <1>5 DEF A!Consume, TermsOK
<1>6. ASSUME NEW lines, A!Release(lines) PROVE TermsOK'
  BY <1>6 DEF A!Release, TermsOK
<1>7. ASSUME NEW i \in Invoices,
             \/ DraftCreate(i) \/ DraftDiscard(i)
             \/ \E d \in Devices : Issue(i, d)
             \/ \E r \in Invoices : CancelAndReissue(i, r) \/ ReissueAgain(i, r)
      PROVE  TermsOK'
  BY <1>1, <1>5, <1>6, <1>7
     DEF DraftCreate, DraftDiscard, Issue, CancelAndReissue, ReissueAgain, agreements
<1>8. ASSUME \/ \E x \in InvoiceLines :
                  \/ \E qty \in Quantities, rate \in Rates : LineUpsert(x, qty, rate)
                  \/ LineRemove(x)
                  \/ \E a \in Agreements, l \in AgreementLines : ApplyAgreement(x, a, l)
             \/ \E b \in Blocks, d \in Devices, r \in Ranges : ReceiveBlock(b, d, r)
             \/ \E p \in Payments :
                  \/ \E amount \in Amounts, paid_at \in 1..MaxTime :
                       TakePayment(p, amount, paid_at)
                  \/ \E x \in Allocations, amount \in Amounts, target \in Invoices \cup Jobs :
                       Allocate(x, p, amount, target)
             \/ \E x \in Allocations : ReleaseAllocation(x)
             \/ A!Tick /\ UNCHANGED <<receivables, agreements>>
             \/ UNCHANGED vars
      PROVE  TermsOK'
  <2>1. UNCHANGED agreed
    BY <1>8 DEF LineUpsert, LineRemove, ApplyAgreement, ReceiveBlock, TakePayment, Allocate,
                ReleaseAllocation, agreements, vars
  <2> QED
    BY <1>1, <2>1
<1> QED
  BY <1>4, <1>7, <1>8 DEF Next

-----------------------------------------------------------------------------
(* What is used of agreements.                                             *)

(* An invoice uses its own agreed lines.                                   *)
LEMMA UsesAreRows ==
  ASSUME LedgerRowsOK, NEW i \in Invoices
  PROVE  /\ AgreedLines(i) \in SUBSET InvoiceLines
         /\ Uses(i) \in [AgreedLines(i) -> AP!UseRow]
<1>1. \A x \in AgreedLines(i) :
        /\ x \in InvoiceLines /\ line[x] \in LineRow
        /\ line[x].of \in Agreements /\ line[x].line \in AgreementLines
  BY DEF AgreedLines, LinesOn, LedgerRowsOK, LineRow
<1> QED
  BY <1>1 DEF Uses, AP!UseRow, LineRow

LEMMA IssueAccounts ==
  ASSUME LedgerRowsOK, AP!Accounts, NEW i \in Invoices, NEW d \in Devices, Issue(i, d)
  PROVE  AP!Accounts'
<1>1. PICK D \in SUBSET InvoiceLines : D = AgreedLines(i)
  BY UsesAreRows
<1>2. PICK uses \in [D -> AP!UseRow] : uses = Uses(i)
  BY <1>1, UsesAreRows
<1>3. A!Consume(uses)
  BY <1>2 DEF Issue
<1>4. AP!Consume(uses)
  BY <1>3, SameConsume
<1> QED
  BY <1>4, AP!ConsumeKeeps, SharedByProofs

LEMMA CancelAccounts ==
  ASSUME AP!Accounts, NEW i \in Invoices, NEW r \in Invoices, CancelAndReissue(i, r)
  PROVE  AP!Accounts'
<1>1. PICK lines \in SUBSET InvoiceLines : lines = LinesOn(i)
  BY DEF LinesOn
<1>2. A!Release(lines)
  BY <1>1 DEF CancelAndReissue
<1>3. AP!Release(lines)
  BY <1>2, SameRelease
<1> QED
  BY <1>3, AP!ReleaseKeeps, SharedByProofs

LEMMA NextAccounts ==
  ASSUME FreshLines, LedgerRowsOK, AP!Accounts, [Next]_vars
  PROVE  AP!Accounts'
<1>1. ASSUME UNCHANGED <<agreed, usage>> PROVE AP!Accounts'
  BY <1>1, AP!LinesUntouched, SharedByProofs
<1>2. ASSUME A!AgreementHandlers PROVE AP!Accounts'
  BY <1>2, SameHandlers, AP!HandlersKeep, SharedByProofs
<1>3. ASSUME NEW i \in Invoices,
             \/ DraftCreate(i) \/ DraftDiscard(i)
             \/ \E d \in Devices : Issue(i, d)
             \/ \E r \in Invoices : CancelAndReissue(i, r) \/ ReissueAgain(i, r)
      PROVE  AP!Accounts'
  BY <1>1, <1>3, IssueAccounts, CancelAccounts
     DEF DraftCreate, DraftDiscard, ReissueAgain, agreements
<1>4. ASSUME \/ \E x \in InvoiceLines :
                  \/ \E qty \in Quantities, rate \in Rates : LineUpsert(x, qty, rate)
                  \/ LineRemove(x)
                  \/ \E a \in Agreements, l \in AgreementLines : ApplyAgreement(x, a, l)
             \/ \E b \in Blocks, d \in Devices, r \in Ranges : ReceiveBlock(b, d, r)
             \/ \E p \in Payments :
                  \/ \E amount \in Amounts, paid_at \in 1..MaxTime :
                       TakePayment(p, amount, paid_at)
                  \/ \E x \in Allocations, amount \in Amounts, target \in Invoices \cup Jobs :
                       Allocate(x, p, amount, target)
             \/ \E x \in Allocations : ReleaseAllocation(x)
             \/ A!Tick /\ UNCHANGED <<receivables, agreements>>
             \/ UNCHANGED vars
      PROVE  AP!Accounts'
  <2>1. UNCHANGED <<agreed, usage>>
    BY <1>4 DEF LineUpsert, LineRemove, ApplyAgreement, ReceiveBlock, TakePayment, Allocate,
                ReleaseAllocation, agreements, vars
  <2> QED
    BY <1>1, <2>1
<1> QED
  BY <1>2, <1>3, <1>4 DEF Next

(* An invoice that is not issued uses nothing, one that is uses its agreed *)
(* lines as long as they stay.                                             *)
UsedRight(x) ==
  (x \in A!InUse(InvoiceLines)) <=>
    /\ invoice[x[1]].state = "issued"
    /\ line[x] # None /\ line[x].of # None
    /\ usage[x] # None /\ usage[x].line = line[x].line /\ usage[x].qty = line[x].qty

LEMMA UsedSame ==
  ASSUME NEW x \in InvoiceLines, UsedRight(x), usage'[x] = usage[x],
         \/ invoice'[x[1]].state = invoice[x[1]].state /\ line'[x] = line[x]
         \/ invoice'[x[1]].state # "issued" /\ invoice[x[1]].state # "issued"
  PROVE  UsedRight(x)'
BY DEF UsedRight, A!InUse

(* What issuing and reissuing do to the states and lines of invoices.      *)
LEMMA IssueMoves ==
  ASSUME Inv, NEW i \in Invoices, NEW d \in Devices, Issue(i, d)
  PROVE  /\ invoice[i].state = "draft" /\ UNCHANGED line
         /\ invoice'[i].state = "issued"
         /\ \A j \in Invoices \ {i} :
              \/ invoice'[j].state = invoice[j].state
              \/ invoice[j].state = "cancelled" /\ invoice'[j].state = "replaced"
<1> DEFINE source == invoice[i].replaces
<1>1. /\ invoice[i].state = "draft" /\ UNCHANGED line
      /\ source # None => invoice[source].state = "cancelled"
      /\ source \in Invoices \cup {None}
  BY DEF Issue, WaitingAlone, Inv, RowsOK, Row
<1>2. PICK b \in Available(d) :
        LET issued == [invoice EXCEPT ![i].state = "issued", ![i].number = block[b].next,
                                      ![i].issued_at = now]
        IN  invoice' = IF source = None THEN issued
                       ELSE [issued EXCEPT ![source].state = "replaced",
                                           ![source].replaced_by = i]
  BY DEF Issue
<1> DEFINE mine == [invoice[i] EXCEPT !.state = "issued", !.number = block[b].next,
                                      !.issued_at = now]
           was == [invoice[source] EXCEPT !.state = "replaced", !.replaced_by = i]
<1>3. invoice \in [Invoices -> Row] /\ mine.state = "issued"
  BY DEF Inv, RowsOK, Row
<1> HIDE DEF source
<1>4. CASE source = None
  <2>1. invoice' = [invoice EXCEPT ![i] = mine]
    BY <1>2, <1>4
  <2> QED
    BY <1>1, <1>3, <2>1
<1>5. CASE source # None
  <2>1. source \in Invoices \ {i} /\ was.state = "replaced"
    BY <1>1, <1>3, <1>5 DEF Row
  <2>2. invoice' = [invoice EXCEPT ![i] = mine, ![source] = was]
    BY <1>2, <1>3, <1>5, <2>1
  <2> HIDE DEF mine, was
  <2>3. /\ invoice'[i] = mine /\ invoice'[source] = was
        /\ \A j \in Invoices \ {i, source} : invoice'[j] = invoice[j]
    BY <1>3, <2>1, <2>2
  <2> QED
    BY <1>1, <1>3, <1>5, <2>1, <2>3
<1> QED
  BY <1>4, <1>5

LEMMA ReissueMoves ==
  ASSUME Inv, NEW i \in Invoices, NEW r \in Invoices,
         CancelAndReissue(i, r) \/ ReissueAgain(i, r)
  PROVE  /\ i # r /\ invoice[r].state = "absent" /\ invoice'[r].state = "draft"
         /\ invoice'[i].state = "cancelled"
         /\ \A j \in Invoices \ {i, r} : invoice'[j] = invoice[j]
         /\ \A x \in InvoiceLines : x[1] # r => line'[x] = line[x]
<1>1. /\ i # r /\ invoice[r].state = "absent" /\ line' = Copied(i, r)
      /\ invoice[i] \in Row
  BY DEF CancelAndReissue, ReissueAgain, Reissuable, Inv, RowsOK
<1>2. \A x \in InvoiceLines : x[1] # r => line'[x] = line[x]
  BY <1>1 DEF Copied
<1>3. Draft(i).state = "draft"
  BY DraftFields
<1>4. CASE CancelAndReissue(i, r)
  <2> DEFINE row == [invoice[i] EXCEPT !.state = "cancelled", !.cancelled_at = now]
  <2>1. invoice' = [invoice EXCEPT ![i] = row, ![r] = Draft(i)]
    BY <1>4 DEF CancelAndReissue
  <2>2. row.state = "cancelled"
    BY <1>1 DEF Row
  <2> HIDE DEF row
  <2> QED
    BY <1>1, <1>2, <1>3, <2>1, <2>2 DEF Inv, RowsOK
<1>5. CASE ReissueAgain(i, r)
  BY <1>1, <1>2, <1>3, <1>5 DEF ReissueAgain, Inv, RowsOK
<1> QED
  BY <1>4, <1>5

LEMMA IssueUsed ==
  ASSUME Inv, LedgerRowsOK, UsedWhileIssued, NEW i \in Invoices, NEW d \in Devices, Issue(i, d)
  PROVE  UsedWhileIssued'
<1> SUFFICES ASSUME NEW x \in InvoiceLines PROVE UsedRight(x)'
  BY DEF UsedWhileIssued, UsedRight
<1>1. UsedRight(x) /\ x[1] \in Invoices
  BY ReceivablesAssumption DEF UsedWhileIssued, UsedRight
<1>2. /\ invoice[i].state = "draft" /\ UNCHANGED line
      /\ invoice'[i].state = "issued"
      /\ \A j \in Invoices \ {i} :
           \/ invoice'[j].state = invoice[j].state
           \/ invoice[j].state = "cancelled" /\ invoice'[j].state = "replaced"
  BY IssueMoves
<1>3. A!Consume(Uses(i))
  BY DEF Issue
<1>4. usage'[x] = IF x \in AgreedLines(i)
                  THEN [of |-> line[x].of, line |-> line[x].line, qty |-> line[x].qty,
                        active |-> TRUE]
                  ELSE usage[x]
  BY <1>3 DEF A!Consume, Uses
<1>5. CASE x \in AgreedLines(i)
  <2> DEFINE u == [of |-> line[x].of, line |-> line[x].line, qty |-> line[x].qty,
                   active |-> TRUE]
  <2>1. u \in A!UsageRow
    BY <1>5 DEF AgreedLines, LinesOn, LedgerRowsOK, LineRow, A!UsageRow
  <2>2. usage'[x] = u /\ u # None
    BY <1>4, <1>5, <2>1, SharedConstants
  <2>3. x[1] = i /\ line[x] # None /\ line[x].of # None
    BY <1>5 DEF AgreedLines, LinesOn
  <2> QED
    BY <1>2, <2>2, <2>3 DEF UsedRight, A!InUse
<1>6. CASE x \notin AgreedLines(i) /\ x[1] = i
  <2>1. line[x] = None \/ line[x].of = None
    BY <1>6 DEF AgreedLines, LinesOn
  <2>2. x \notin A!InUse(InvoiceLines)
    BY <1>1, <1>2, <1>6 DEF UsedRight
  <2> QED
    BY <1>2, <1>4, <1>6, <2>1, <2>2 DEF UsedRight, A!InUse
<1>7. CASE x[1] # i
  <2>1. usage'[x] = usage[x]
    BY <1>4, <1>7 DEF AgreedLines, LinesOn
  <2> QED
    BY <1>1, <1>2, <1>7, <2>1, UsedSame
<1> QED
  BY <1>5, <1>6, <1>7

LEMMA AccountRows ==
  ASSUME AP!Accounts, NEW x \in InvoiceLines, usage[x] # None
  PROVE  usage[x] \in A!UsageRow
BY DEF AP!Accounts, AP!RowsOK, AP!UsageRow, A!UsageRow

LEMMA ReissueUsed ==
  ASSUME Inv, LedgerRowsOK, AP!Accounts, UsedWhileIssued, NEW i \in Invoices, NEW r \in Invoices,
         CancelAndReissue(i, r) \/ ReissueAgain(i, r)
  PROVE  UsedWhileIssued'
<1> SUFFICES ASSUME NEW x \in InvoiceLines PROVE UsedRight(x)'
  BY DEF UsedWhileIssued, UsedRight
<1>1. UsedRight(x) /\ x[1] \in Invoices
  BY ReceivablesAssumption DEF UsedWhileIssued, UsedRight
<1>2. /\ i # r /\ invoice[r].state = "absent" /\ invoice'[r].state = "draft"
      /\ invoice'[i].state = "cancelled"
      /\ \A j \in Invoices \ {i, r} : invoice'[j] = invoice[j]
      /\ x[1] # r => line'[x] = line[x]
  BY ReissueMoves
<1>3. ASSUME usage'[x] = usage[x], x[1] # i \/ invoice[i].state # "issued"
      PROVE  UsedRight(x)'
  BY <1>1, <1>2, <1>3, UsedSame
<1>4. CASE CancelAndReissue(i, r)
  <2>1. A!Release(LinesOn(i))
    BY <1>4 DEF CancelAndReissue
  <2>2. usage'[x] = IF x \in A!InUse(LinesOn(i)) THEN [usage[x] EXCEPT !.active = FALSE]
                    ELSE usage[x]
    BY <2>1 DEF A!Release
  <2>3. CASE x \in A!InUse(LinesOn(i))
    <3> DEFINE u == [usage[x] EXCEPT !.active = FALSE]
    <3>1. usage[x] \in A!UsageRow /\ x[1] = i
      BY <2>3, AccountRows DEF A!InUse, LinesOn
    <3>2. ~u.active
      BY <3>1 DEF A!UsageRow
    <3> QED
      BY <1>2, <2>2, <2>3, <3>1, <3>2 DEF UsedRight, A!InUse
  <2>4. CASE x \notin A!InUse(LinesOn(i)) /\ x[1] = i
    <3>1. x \notin A!InUse(InvoiceLines)
      BY <1>1, <2>4 DEF UsedRight, A!InUse, LinesOn
    <3> QED
      BY <1>2, <2>2, <2>4, <3>1 DEF UsedRight, A!InUse
  <2>5. CASE x[1] # i
    BY <1>3, <2>2, <2>5 DEF A!InUse, LinesOn
  <2> QED
    BY <2>3, <2>4, <2>5
<1>5. CASE ReissueAgain(i, r)
  BY <1>3, <1>5 DEF ReissueAgain, agreements
<1> QED
  BY <1>4, <1>5

LEMMA NextUsed ==
  ASSUME Inv, LedgerRowsOK, AP!Accounts, UsedWhileIssued, [Next]_vars
  PROVE  UsedWhileIssued'
<1>1. ASSUME NEW x \in InvoiceLines,
             \/ \E qty \in Quantities, rate \in Rates : LineUpsert(x, qty, rate)
             \/ LineRemove(x)
             \/ \E a \in Agreements, l \in AgreementLines : ApplyAgreement(x, a, l)
      PROVE  UsedWhileIssued'
  <2> SUFFICES ASSUME NEW y \in InvoiceLines PROVE UsedRight(y)'
    BY DEF UsedWhileIssued, UsedRight
  <2>1. /\ UNCHANGED <<invoice, usage>> /\ invoice[x[1]].state = "draft"
        /\ y # x => line'[y] = line[y]
    BY <1>1 DEF LineUpsert, LineRemove, ApplyAgreement, agreements, LedgerRowsOK
  <2>2. UsedRight(y)
    BY DEF UsedWhileIssued, UsedRight
  <2> QED
    BY <2>1, <2>2, UsedSame
<1>2. ASSUME NEW i \in Invoices, DraftCreate(i) \/ DraftDiscard(i)
      PROVE  UsedWhileIssued'
  <2> SUFFICES ASSUME NEW y \in InvoiceLines PROVE UsedRight(y)'
    BY DEF UsedWhileIssued, UsedRight
  <2>1. /\ UNCHANGED <<line, usage>> /\ invoice[i].state \in {"absent", "draft"}
        /\ invoice'[i].state \in {"draft", "discarded"}
        /\ \A j \in Invoices \ {i} : invoice'[j] = invoice[j]
    BY <1>2, DraftFields DEF DraftCreate, DraftDiscard, agreements, Inv, RowsOK, Row
  <2>2. UsedRight(y) /\ y[1] \in Invoices
    BY ReceivablesAssumption DEF UsedWhileIssued, UsedRight
  <2> QED
    BY <2>1, <2>2, UsedSame
<1>3. ASSUME UNCHANGED <<invoice, line, usage>> PROVE UsedWhileIssued'
  BY <1>3 DEF UsedWhileIssued, A!InUse
<1>4. ASSUME \/ \E b \in Blocks, d \in Devices, r \in Ranges : ReceiveBlock(b, d, r)
             \/ \E p \in Payments :
                  \/ \E amount \in Amounts, paid_at \in 1..MaxTime :
                       TakePayment(p, amount, paid_at)
                  \/ \E x \in Allocations, amount \in Amounts, target \in Invoices \cup Jobs :
                       Allocate(x, p, amount, target)
             \/ \E x \in Allocations : ReleaseAllocation(x)
             \/ A!AgreementHandlers /\ UNCHANGED <<receivables, now>>
             \/ A!Tick /\ UNCHANGED <<receivables, agreements>>
             \/ UNCHANGED vars
      PROVE  UsedWhileIssued'
  <2>1. A!AgreementHandlers => UNCHANGED usage
    BY HandlersRestate
  <2>2. UNCHANGED <<invoice, line, usage>>
    BY <1>4, <2>1 DEF ReceiveBlock, TakePayment, Allocate, ReleaseAllocation,
                      agreements, receivables, vars
  <2> QED
    BY <1>3, <2>2
<1> QED
  BY <1>1, <1>2, <1>4, IssueUsed, ReissueUsed DEF Next

-----------------------------------------------------------------------------
(* Money.                                                                  *)

LEMMA TotalSame ==
  ASSUME NEW i \in Invoices, \A x \in InvoiceLines : x[1] = i => line'[x] = line[x]
  PROVE  Total(i)' = Total(i)
<1>1. LinesOn(i)' = LinesOn(i) /\ \A x \in LinesOn(i) : line'[x] = line[x]
  BY DEF LinesOn
<1>2. [x \in LinesOn(i) |-> line[x].qty * line[x].rate]'
        = [x \in LinesOn(i) |-> line[x].qty * line[x].rate]
  BY <1>1
<1> QED
  BY <1>1, <1>2 DEF Total

(* Where allocations are at most released, payments on file stay and an    *)
(* invoice with money on it stays as it was.                               *)
LEMMA ReleasingKeeps ==
  ASSUME LedgerRowsOK, LedgerRowsOK', Taken, MoneyConserved,
         \A x \in Allocations :
           /\ OnFile(x)' <=> OnFile(x)
           /\ OnFile(x) => /\ allocation'[x].payment = allocation[x].payment
                           /\ allocation'[x].target = allocation[x].target
                           /\ allocation'[x].amount = allocation[x].amount
                           /\ allocation'[x].active => allocation[x].active,
         \A p \in Payments : payment[p] # None => payment'[p] = payment[p],
         \A i \in Invoices :
           ActiveOn(i)' # {} => invoice'[i].state = "issued" /\ Total(i)' = Total(i)
  PROVE  Taken' /\ MoneyConserved'
<1>1. Taken'
  BY DEF Taken, LedgerRowsOK, OnFile, AllocationRow
<1>2. LedgerSums /\ LedgerSums'
  BY RowsSum, RowsSumAfter
<1>3. AmountOf' = AmountOf
  BY DEF AmountOf
<1>4. ASSUME NEW S, NEW T, T \subseteq S, S \subseteq {x \in Allocations : OnFile(x)}
      PROVE  Sum(T)' <= Sum(S) /\ Sum(T)' \in Nat /\ Sum(S) \in Nat
  <2>1. T \subseteq {x \in Allocations : OnFile(x)} /\ T \subseteq {x \in Allocations : OnFile(x)}'
    BY <1>4
  <2>2. Sum(T)' = SumOver(AmountOf, T) /\ Sum(T)' \in Nat
    BY <1>2, <1>3, <2>1 DEF LedgerSums
  <2>3. Sum(S) = SumOver(AmountOf, S) /\ Sum(S) \in Nat /\ IsFiniteSet(S)
    BY <1>2, <1>4 DEF LedgerSums
  <2>4. \A x \in S : AmountOf[x] \in Nat
    BY <1>2, <1>4 DEF LedgerSums
  <2>5. SumOver(AmountOf, T) <= SumOver(AmountOf, S)
    BY <1>4, <2>3, <2>4, SumPart
  <2> QED
    BY <2>2, <2>3, <2>5
<1>5. ASSUME NEW i \in Invoices
      PROVE  /\ ActiveOn(i)' # {} => invoice'[i].state = "issued"
             /\ Sum(ActiveOn(i))' <= Total(i)'
  <2>1. ActiveOn(i)' \subseteq ActiveOn(i)
        /\ ActiveOn(i) \subseteq {x \in Allocations : OnFile(x)}
    BY DEF ActiveOn, OnFile
  <2>2. PICK T : T = ActiveOn(i)'
    OBVIOUS
  <2>3. Sum(T)' <= Sum(ActiveOn(i)) /\ Sum(T)' \in Nat /\ Sum(ActiveOn(i)) \in Nat
    BY <1>4, <2>1, <2>2
  <2>4. Total(i) \in Nat /\ Total(i)' \in Nat /\ Sum(ActiveOn(i)) <= Total(i)
    BY <1>2 DEF LedgerSums, MoneyConserved
  <2>5. Sum(ActiveOn(i))' = Sum(T)'
    BY <2>2 DEF Sum
  <2>6. T = {} => Sum(T)' = 0
    BY <1>2, SumStep, FS_EmptySet DEF Sum
  <2> QED
    BY <2>2, <2>3, <2>4, <2>5, <2>6
<1>6. ASSUME NEW p \in Payments, payment'[p] # None PROVE Unallocated(p)' >= 0
  <2>1. ActiveOf(p)' \subseteq ActiveOf(p)
        /\ ActiveOf(p) \subseteq {x \in Allocations : OnFile(x)}
    BY DEF ActiveOf, OnFile
  <2>2. PICK T : T = ActiveOf(p)'
    OBVIOUS
  <2>3. Sum(T)' <= Sum(ActiveOf(p)) /\ Sum(T)' \in Nat /\ Sum(ActiveOf(p)) \in Nat
    BY <1>4, <2>1, <2>2
  <2>4. Sum(ActiveOf(p))' = Sum(T)'
    BY <2>2 DEF Sum
  <2>5. payment'[p].amount \in Nat
    BY <1>6, ReceivablesAssumption DEF LedgerRowsOK, PaymentRow
  <2>6. CASE payment[p] = None
    <3>1. T = {}
      BY <2>1, <2>2, <2>6 DEF Taken, ActiveOf, OnFile
    <3>2. Sum(T)' = 0
      BY <3>1, SumStep, FS_EmptySet DEF Sum
    <3> QED
      BY <2>4, <2>5, <3>2 DEF Unallocated
  <2>7. CASE payment[p] # None
    <3>1. Unallocated(p) >= 0 /\ payment'[p] = payment[p]
      BY <2>7 DEF MoneyConserved
    <3> QED
      BY <2>3, <2>4, <2>5, <3>1 DEF Unallocated
  <2> QED
    BY <2>6, <2>7
<1> QED
  BY <1>1, <1>5, <1>6 DEF MoneyConserved
LEMMA MovesKeep ==
  ASSUME LedgerRowsOK, LedgerRowsOK', Taken, MoneyConserved, UNCHANGED <<payment, allocation>>,
         \A i \in Invoices : invoice[i].state = "issued" =>
           /\ invoice'[i].state = "issued"
           /\ \A x \in InvoiceLines : x[1] = i => line'[x] = line[x]
  PROVE  Taken' /\ MoneyConserved'
<1>1. ASSUME NEW i \in Invoices, ActiveOn(i)' # {}
      PROVE  invoice'[i].state = "issued" /\ Total(i)' = Total(i)
  <2>1. invoice[i].state = "issued"
    BY <1>1 DEF ActiveOn, MoneyConserved
  <2> QED
    BY <2>1, TotalSame
<1>2. \A x \in Allocations : OnFile(x)' <=> OnFile(x)
  BY DEF OnFile
<1> QED
  BY <1>1, <1>2, ReleasingKeeps

LEMMA AllocateKeeps ==
  ASSUME LedgerRowsOK, LedgerRowsOK', Taken, MoneyConserved,
         NEW p \in Payments, NEW x \in Allocations, NEW amount \in Amounts,
         NEW target \in Invoices \cup Jobs, Allocate(x, p, amount, target)
  PROVE  Taken' /\ MoneyConserved'
<1> DEFINE y == [payment |-> p, target |-> target, amount |-> amount, active |-> TRUE,
                 allocated_at |-> now, released_at |-> 0]
           Filed == {z \in Allocations : OnFile(z)}
<1>1. /\ payment[p] # None /\ ~OnFile(x) /\ x \notin Filed
      /\ amount <= Unallocated(p)
      /\ target \in Invoices => invoice[target].state = "issued" /\ amount <= Outstanding(target)
      /\ allocation' = [allocation EXCEPT ![x] = y]
      /\ UNCHANGED <<invoice, line, payment>>
  BY DEF Allocate, OnFile
<1>2. y \in AllocationRow /\ y # None
  <2>1. y \in AllocationRow
    BY SharedConstants DEF AllocationRow, LedgerRowsOK
  <2> QED
    BY <2>1, ReceivablesAssumption
<1>3. /\ allocation'[x] = y /\ OnFile(x)'
      /\ \A z \in Allocations \ {x} : allocation'[z] = allocation[z]
  BY <1>1, <1>2 DEF LedgerRowsOK, OnFile
<1>4. Taken'
  BY <1>1, <1>3 DEF Taken, OnFile
<1>5. LedgerSums /\ LedgerSums'
  BY RowsSum, RowsSumAfter
<1>6. Filed' = Filed \cup {x} /\ amount \in Nat \ {0}
  BY <1>3, ReceivablesAssumption DEF OnFile
<1>7. /\ AmountOf'[x] = amount
      /\ \A z \in Filed : AmountOf'[z] = AmountOf[z] /\ AmountOf[z] \in Nat
  BY <1>1, <1>3, <1>5 DEF AmountOf, OnFile, LedgerSums
<1>8. ASSUME NEW S \in SUBSET Filed
      PROVE  /\ Sum(S) \in Nat
             /\ Sum(S)' = Sum(S)
             /\ Sum(S \cup {x})' = amount + Sum(S)
  <2>1. IsFiniteSet(S) /\ Sum(S) = SumOver(AmountOf, S) /\ Sum(S) \in Nat
    BY <1>5 DEF LedgerSums
  <2>2. Sum(S)' = SumOver(AmountOf', S) /\ Sum(S \cup {x})' = SumOver(AmountOf', S \cup {x})
    BY <1>5, <1>6 DEF LedgerSums
  <2> DEFINE f == AmountOf
             h == AmountOf'
  <2>3. x \notin S /\ h[x] = amount /\ \A z \in S : f[z] = h[z] /\ f[z] \in Nat
    BY <1>1, <1>7
  <2>4. Sum(S)' = SumOver(h, S) /\ Sum(S \cup {x})' = SumOver(h, S \cup {x})
        /\ Sum(S) = SumOver(f, S)
    BY <2>1, <2>2
  <2> HIDE DEF f, h
  <2>5. SumOver(f, S) = SumOver(h, S)
    BY <2>1, <2>3, SumSame
  <2>6. SumOver(h, S \cup {x}) = h[x] + SumOver(h, S)
    <3>1. \A z \in S \cup {x} : h[z] \in Int
      BY <1>6, <2>3
    <3> QED
      BY <2>1, <2>3, <3>1, SumAdd
  <2> QED
    BY <2>1, <2>3, <2>4, <2>5, <2>6
<1> HIDE DEF Filed
<1>9. ASSUME NEW i \in Invoices
      PROVE  /\ ActiveOn(i)' # {} => invoice'[i].state = "issued"
             /\ Sum(ActiveOn(i))' <= Total(i)'
  <2>1. Total(i)' = Total(i) /\ Total(i) \in Nat
    BY <1>1, <1>5, TotalSame DEF LedgerSums
  <2>2. PICK S : S = ActiveOn(i)
    OBVIOUS
  <2>3. S \in SUBSET Filed
    BY <2>2, <1>5 DEF LedgerSums, Filed
  <2>4. Sum(S) <= Total(i) /\ Sum(S) \in Nat /\ (S # {} => invoice[i].state = "issued")
    BY <1>8, <2>2, <2>3 DEF MoneyConserved
  <2>5. CASE i = target
    <3>1. ActiveOn(i)' = S \cup {x}
      BY <1>3, <2>2, <2>5 DEF ActiveOn, OnFile
    <3>2. Sum(ActiveOn(i))' = Sum(S \cup {x})'
      BY <3>1 DEF Sum
    <3>3. amount <= Total(i) - Sum(S) /\ invoice[i].state = "issued"
      BY <1>1, <2>2, <2>5 DEF Outstanding
    <3> QED
      BY <1>1, <1>6, <1>8, <2>1, <2>3, <2>4, <3>2, <3>3
  <2>6. CASE i # target
    <3>1. ActiveOn(i)' = S
      BY <1>1, <1>3, <2>2, <2>6 DEF ActiveOn, OnFile
    <3>2. Sum(ActiveOn(i))' = Sum(S)'
      BY <3>1 DEF Sum
    <3> QED
      BY <1>1, <1>8, <2>1, <2>3, <2>4, <3>1, <3>2
  <2> QED
    BY <2>5, <2>6
<1>10. ASSUME NEW q \in Payments, payment'[q] # None PROVE Unallocated(q)' >= 0
  <2>1. PICK S : S = ActiveOf(q)
    OBVIOUS
  <2>2. S \in SUBSET Filed
    BY <2>1, <1>5 DEF LedgerSums, Filed
  <2>3. payment'[q] = payment[q] /\ payment[q].amount \in Nat
    BY <1>1, <1>10, ReceivablesAssumption DEF LedgerRowsOK, PaymentRow
  <2>4. payment[q].amount - Sum(S) >= 0 /\ Sum(S) \in Nat
    BY <1>8, <1>10, <2>1, <2>2, <2>3 DEF MoneyConserved, Unallocated
  <2>5. CASE q = p
    <3>1. ActiveOf(q)' = S \cup {x}
      BY <1>3, <2>1, <2>5 DEF ActiveOf, OnFile
    <3>2. Sum(ActiveOf(q))' = Sum(S \cup {x})'
      BY <3>1 DEF Sum
    <3>3. amount <= payment[q].amount - Sum(S)
      BY <1>1, <2>1, <2>5 DEF Unallocated
    <3>4. Unallocated(q)' = payment[q].amount - (amount + Sum(S))
      BY <1>8, <2>2, <2>3, <3>2 DEF Unallocated
    <3> QED
      BY <1>6, <2>3, <2>4, <3>3, <3>4
  <2>6. CASE q # p
    <3>1. ActiveOf(q)' = S
      BY <1>1, <1>3, <2>1, <2>6 DEF ActiveOf, OnFile
    <3>2. Sum(ActiveOf(q))' = Sum(S)'
      BY <3>1 DEF Sum
    <3> QED
      BY <1>8, <2>2, <2>3, <2>4, <3>2 DEF Unallocated
  <2> QED
    BY <2>5, <2>6
<1> QED
  BY <1>4, <1>9, <1>10 DEF MoneyConserved

LEMMA NextMoney ==
  ASSUME Inv, LedgerRowsOK, LedgerRowsOK', Taken, MoneyConserved, [Next]_vars
  PROVE  Taken' /\ MoneyConserved'
<1>1. ASSUME NEW x \in InvoiceLines,
             \/ \E qty \in Quantities, rate \in Rates : LineUpsert(x, qty, rate)
             \/ LineRemove(x)
             \/ \E a \in Agreements, l \in AgreementLines : ApplyAgreement(x, a, l)
      PROVE  Taken' /\ MoneyConserved'
  <2>1. /\ UNCHANGED <<invoice, payment, allocation>> /\ invoice[x[1]].state = "draft"
        /\ \A y \in InvoiceLines : y # x => line'[y] = line[y]
    BY <1>1 DEF LineUpsert, LineRemove, ApplyAgreement, money, LedgerRowsOK
  <2> QED
    BY <2>1, MovesKeep
<1>2. ASSUME NEW i \in Invoices, DraftCreate(i) \/ DraftDiscard(i)
      PROVE  Taken' /\ MoneyConserved'
  <2>1. /\ UNCHANGED <<line, payment, allocation>> /\ invoice[i].state \in {"absent", "draft"}
        /\ \A j \in Invoices \ {i} : invoice'[j] = invoice[j]
    BY <1>2 DEF DraftCreate, DraftDiscard, money, Inv, RowsOK
  <2> QED
    BY <2>1, MovesKeep
<1>3. ASSUME NEW i \in Invoices, NEW d \in Devices, Issue(i, d)
      PROVE  Taken' /\ MoneyConserved'
  <2>1. UNCHANGED <<payment, allocation>>
    BY <1>3 DEF Issue, money
  <2>2. \A j \in Invoices : invoice[j].state = "issued" => invoice'[j].state = "issued"
    BY <1>3, IssueMoves
  <2> QED
    BY <1>3, <2>1, <2>2, IssueMoves, MovesKeep
<1>4. ASSUME NEW i \in Invoices, NEW r \in Invoices, ReissueAgain(i, r)
      PROVE  Taken' /\ MoneyConserved'
  <2>1. UNCHANGED <<payment, allocation>> /\ invoice[i].state = "cancelled"
    BY <1>4 DEF ReissueAgain, money
  <2> QED
    BY <1>4, <2>1, ReissueMoves, MovesKeep
<1>5. ASSUME NEW i \in Invoices, NEW r \in Invoices, CancelAndReissue(i, r)
      PROVE  Taken' /\ MoneyConserved'
  <2>1. UNCHANGED payment /\ allocation' = ReleaseOn(i)
    BY <1>5 DEF CancelAndReissue
  <2>2. \A x \in Allocations :
          /\ x \in ActiveOn(i) => OnFile(x)' /\ OnFile(x) /\ ~allocation'[x].active
          /\ x \notin ActiveOn(i) => allocation'[x] = allocation[x]
          /\ OnFile(x) => /\ allocation'[x].payment = allocation[x].payment
                          /\ allocation'[x].target = allocation[x].target
                          /\ allocation'[x].amount = allocation[x].amount
    <3> TAKE x \in Allocations
    <3>1. CASE x \in ActiveOn(i)
      <4>1. OnFile(x) /\ allocation'[x] = [allocation[x] EXCEPT !.active = FALSE, !.released_at = now]
        BY <2>1, <3>1 DEF ReleaseOn, ActiveOn, OnFile
      <4> QED
        BY <3>1, <4>1, ReleasedRow DEF OnFile
    <3>2. CASE x \notin ActiveOn(i)
      BY <2>1, <3>2 DEF ReleaseOn
    <3> QED
      BY <3>1, <3>2
  <2>3. \A x \in Allocations :
          /\ OnFile(x)' <=> OnFile(x)
          /\ OnFile(x) /\ allocation'[x].active => allocation[x].active
    BY <2>2 DEF OnFile
  <2>4. ASSUME NEW j \in Invoices, ActiveOn(j)' # {}
        PROVE  invoice'[j].state = "issued" /\ Total(j)' = Total(j)
    <3>1. ActiveOn(j)' \subseteq ActiveOn(j) \ ActiveOn(i)
      BY <2>2 DEF ActiveOn, OnFile
    <3>2. j # i /\ invoice[j].state = "issued"
      BY <2>4, <3>1 DEF MoneyConserved
    <3>3. j # r /\ invoice'[j] = invoice[j] /\ \A x \in InvoiceLines : x[1] = j => line'[x] = line[x]
      BY <1>5, <3>2, ReissueMoves
    <3> QED
      BY <3>2, <3>3, TotalSame
  <2> QED
    BY <2>1, <2>2, <2>3, <2>4, ReleasingKeeps
<1>6. ASSUME NEW x \in Allocations, ReleaseAllocation(x) PROVE Taken' /\ MoneyConserved'
  <2> DEFINE y == [allocation[x] EXCEPT !.active = FALSE, !.released_at = now]
  <2>1. OnFile(x) /\ allocation' = [allocation EXCEPT ![x] = y] /\ UNCHANGED <<invoice, line, payment>>
    BY <1>6 DEF ReleaseAllocation, OnFile
  <2>2. /\ allocation'[x] = y /\ \A z \in Allocations \ {x} : allocation'[z] = allocation[z]
        /\ y # None /\ ~y.active /\ y.amount = allocation[x].amount
        /\ y.target = allocation[x].target /\ y.payment = allocation[x].payment
    <3>1. /\ y # None /\ ~y.active /\ y.amount = allocation[x].amount
          /\ y.target = allocation[x].target /\ y.payment = allocation[x].payment
      BY <2>1, ReleasedRow
    <3> HIDE DEF y
    <3> QED
      BY <2>1, <3>1 DEF LedgerRowsOK
  <2> HIDE DEF y
  <2>3. \A z \in Allocations :
          /\ OnFile(z)' <=> OnFile(z)
          /\ OnFile(z) => /\ allocation'[z].payment = allocation[z].payment
                          /\ allocation'[z].target = allocation[z].target
                          /\ allocation'[z].amount = allocation[z].amount
                          /\ allocation'[z].active => allocation[z].active
    BY <2>1, <2>2 DEF OnFile
  <2>4. ASSUME NEW j \in Invoices, ActiveOn(j)' # {}
        PROVE  invoice'[j].state = "issued" /\ Total(j)' = Total(j)
    <3>1. ActiveOn(j) # {}
      BY <2>3, <2>4 DEF ActiveOn, OnFile
    <3> QED
      BY <2>1, <3>1, TotalSame DEF MoneyConserved
  <2> QED
    BY <2>1, <2>3, <2>4, ReleasingKeeps
<1>7. ASSUME NEW p \in Payments, NEW amount \in Amounts, NEW paid_at \in 1..MaxTime,
             TakePayment(p, amount, paid_at)
      PROVE  Taken' /\ MoneyConserved'
  <2>1. /\ payment[p] = None /\ UNCHANGED <<invoice, line, allocation>>
        /\ \A q \in Payments : payment[q] # None => payment'[q] = payment[q]
    BY <1>7 DEF TakePayment, LedgerRowsOK
  <2>2. ASSUME NEW j \in Invoices, ActiveOn(j)' # {}
        PROVE  invoice'[j].state = "issued" /\ Total(j)' = Total(j)
    BY <2>1, <2>2, TotalSame DEF MoneyConserved, ActiveOn
  <2>3. \A x \in Allocations : OnFile(x)' <=> OnFile(x)
    BY <2>1 DEF OnFile
  <2> QED
    BY <2>1, <2>2, <2>3, ReleasingKeeps
<1>8. ASSUME \/ \E b \in Blocks, d \in Devices, r \in Ranges : ReceiveBlock(b, d, r)
             \/ A!AgreementHandlers /\ UNCHANGED <<receivables, now>>
             \/ A!Tick /\ UNCHANGED <<receivables, agreements>>
             \/ UNCHANGED vars
      PROVE  Taken' /\ MoneyConserved'
  <2>1. UNCHANGED <<invoice, line, payment, allocation>>
    BY <1>8 DEF ReceiveBlock, money, receivables, vars
  <2> QED
    BY <2>1, MovesKeep
<1> QED
  BY <1>1, <1>2, <1>3, <1>4, <1>5, <1>6, <1>7, <1>8, AllocateKeeps DEF Next

-----------------------------------------------------------------------------
(* The ledgers hold together.                                              *)

LEMMA InitMoney == Init => MoneyInv
<1> SUFFICES ASSUME Init PROVE MoneyInv
  OBVIOUS
<1>1. LedgerRowsOK /\ Taken /\ TermsOK
  BY SharedConstants DEF Init, LedgerRowsOK, Taken, OnFile, TermsOK, A!AgreementInit
<1>2. MoneyConserved
  <2>1. \A i \in Invoices : ActiveOn(i) = {}
    BY DEF Init, ActiveOn
  <2>2. Sum({}) = 0
    BY SumStep, FS_EmptySet DEF Sum
  <2>3. \A i \in Invoices : Total(i) \in Nat
    BY <1>1, RowsSum DEF LedgerSums
  <2> QED
    BY <2>1, <2>2, <2>3 DEF Init, MoneyConserved
<1> QED
  BY <1>1, <1>2 DEF MoneyInv

LEMMA InitUse == Init => UseInv
<1> SUFFICES ASSUME Init PROVE UseInv
  OBVIOUS
<1>1. AP!AgreementInit
  BY DEF Init, A!AgreementInit, AP!AgreementInit, A!Absent, AP!Absent
<1>2. AP!Accounts
  BY <1>1, AP!InitAccounts, SharedByProofs
<1>3. UsedWhileIssued
  BY ReceivablesAssumption DEF Init, UsedWhileIssued, A!InUse, A!AgreementInit, Absent
<1> QED
  BY <1>2, <1>3 DEF UseInv

LEMMA MoneyAlways == Spec => []MoneyInv
<1>1. Inv /\ MoneyInv /\ [Next]_vars => MoneyInv'
  BY NextRows, NextTerms, NextMoney DEF MoneyInv
<1> QED
  BY InitMoney, Invariance, <1>1, PTL DEF Spec

LEMMA UseAlways == ASSUME FreshLines PROVE Spec => []UseInv
<1>1. Inv /\ MoneyInv /\ UseInv /\ [Next]_vars => UseInv'
  BY NextAccounts, NextUsed DEF UseInv, MoneyInv
<1> QED
  BY InitUse, Invariance, MoneyAlways, <1>1, PTL DEF Spec

(* Money rests only on issued invoices and never beyond what they ask, and *)
(* no payment is given out twice over, whatever was cancelled, reissued or *)
(* released in between.                                                    *)
THEOREM Money == Spec => []MoneyConserved
BY MoneyAlways, PTL DEF MoneyInv

(* Agreements say what issued invoices use of them, no more and no less,   *)
(* and two invoices never pass a cap together.                             *)
THEOREM Usage == ASSUME FreshLines PROVE Spec => []UsageAccounted
<1>1. UseInv => UsageAccounted
  BY SameAccounts DEF UseInv, UsageAccounted, AP!Accounts
<1> QED
  BY UseAlways, <1>1, PTL

-----------------------------------------------------------------------------
(* Statements.  The totals of any set of facts, by the rows they are of.   *)

TotalOf == [i \in Invoices |-> Total(i)]
PaidOf == [p \in Payments |-> IF payment[p] = None THEN 0 ELSE payment[p].amount]

ChargedIn(F) == {i \in Charged : Fact("charged", invoice[i].issued_at, Total(i), i) \in F}
CancelledIn(F) == {i \in Cancelled : Fact("cancelled", invoice[i].cancelled_at, Total(i), i) \in F}
ReceivedIn(F) ==
  {p \in Payments : payment[p] # None
     /\ Fact("received", payment[p].paid_at, payment[p].amount, p) \in F}
AllocatedIn(F) ==
  {x \in OnInvoices : Fact("allocated", allocation[x].allocated_at, allocation[x].amount, x) \in F}
ReleasedIn(F) ==
  {x \in OnInvoices : ~allocation[x].active
     /\ Fact("released", allocation[x].released_at, allocation[x].amount, x) \in F}

LEMMA FactFields ==
  ASSUME NEW kind, NEW at, NEW amount, NEW source
  PROVE  LET f == Fact(kind, at, amount, source) IN
         f.kind = kind /\ f.at = at /\ f.amount = amount /\ f.source = source
BY DEF Fact

(* A fact of a kind is told by the row it is of.                           *)
LEMMA FactsTold ==
  ASSUME NEW f \in StatementEvents
  PROVE  /\ f.kind = "charged" => f.source \in Charged
              /\ f = Fact("charged", invoice[f.source].issued_at, Total(f.source), f.source)
         /\ f.kind = "cancelled" => f.source \in Cancelled
              /\ f = Fact("cancelled", invoice[f.source].cancelled_at, Total(f.source), f.source)
         /\ f.kind = "received" => f.source \in Payments /\ payment[f.source] # None
              /\ f = Fact("received", payment[f.source].paid_at, payment[f.source].amount, f.source)
         /\ f.kind = "allocated" => f.source \in OnInvoices
              /\ f = Fact("allocated", allocation[f.source].allocated_at,
                          allocation[f.source].amount, f.source)
         /\ f.kind = "released" => f.source \in OnInvoices /\ ~allocation[f.source].active
              /\ f = Fact("released", allocation[f.source].released_at,
                          allocation[f.source].amount, f.source)
         /\ f.kind \in {"charged", "cancelled", "received", "allocated", "released"}
<1>1. CASE \E i \in Charged : f = Fact("charged", invoice[i].issued_at, Total(i), i)
  <2>1. PICK i \in Charged :
          f = Fact("charged", invoice[i].issued_at, Total(i), i)
    BY <1>1
  <2>2. f.kind = "charged" /\ f.source = i
    BY <2>1, FactFields
  <2> QED
    BY <2>1, <2>2
<1>2. CASE \E i \in Cancelled : f = Fact("cancelled", invoice[i].cancelled_at, Total(i), i)
  <2>1. PICK i \in Cancelled :
          f = Fact("cancelled", invoice[i].cancelled_at, Total(i), i)
    BY <1>2
  <2>2. f.kind = "cancelled" /\ f.source = i
    BY <2>1, FactFields
  <2> QED
    BY <2>1, <2>2
<1>3. CASE \E p \in {q \in Payments : payment[q] # None} :
             f = Fact("received", payment[p].paid_at, payment[p].amount, p)
  <2>1. PICK p \in {q \in Payments : payment[q] # None} :
          f = Fact("received", payment[p].paid_at, payment[p].amount, p)
    BY <1>3
  <2>2. f.kind = "received" /\ f.source = p
    BY <2>1, FactFields
  <2> QED
    BY <2>1, <2>2
<1>4. CASE \E x \in OnInvoices :
             f = Fact("allocated", allocation[x].allocated_at, allocation[x].amount, x)
  <2>1. PICK x \in OnInvoices :
          f = Fact("allocated", allocation[x].allocated_at, allocation[x].amount, x)
    BY <1>4
  <2>2. f.kind = "allocated" /\ f.source = x
    BY <2>1, FactFields
  <2> QED
    BY <2>1, <2>2
<1>5. CASE \E x \in {y \in OnInvoices : ~allocation[y].active} :
             f = Fact("released", allocation[x].released_at, allocation[x].amount, x)
  <2>1. PICK x \in {y \in OnInvoices : ~allocation[y].active} :
          f = Fact("released", allocation[x].released_at, allocation[x].amount, x)
    BY <1>5
  <2>2. f.kind = "released" /\ f.source = x
    BY <2>1, FactFields
  <2> QED
    BY <2>1, <2>2
<1> QED
  BY <1>1, <1>2, <1>3, <1>4, <1>5 DEF StatementEvents

(* The amounts of the facts of one kind, by rows.                          *)
AreOf(F, kind, D, at, amount) ==
  \A f \in F : f.kind = kind =>
    f.source \in D /\ f = Fact(kind, at[f.source], amount[f.source], f.source)

RowsIn(F, kind, D, at, amount) == {x \in D : Fact(kind, at[x], amount[x], x) \in F}

Amounting(F, kind, total) ==
  LET of == {f \in F : f.kind = kind} IN
  /\ IsFiniteSet(of) /\ SumOver([f \in F |-> f.amount], of) = total
  /\ \A f \in of : f.amount \in Int

LEMMA FactsSum ==
  ASSUME NEW F, NEW kind, NEW D, IsFiniteSet(D), NEW at, NEW amount, \A x \in D : amount[x] \in Int,
         AreOf(F, kind, D, at, amount)
  PROVE  Amounting(F, kind, SumOver(amount, RowsIn(F, kind, D, at, amount)))
<1> USE DEF AreOf
<1> DEFINE E == RowsIn(F, kind, D, at, amount)
           g == [x \in E |-> Fact(kind, at[x], amount[x], x)]
           of == {f \in F : f.kind = kind}
           am == [f \in F |-> f.amount]
<1>1. IsFiniteSet(E) /\ E = {x \in D : Fact(kind, at[x], amount[x], x) \in F}
  BY FS_Subset DEF RowsIn
<1> HIDE DEF E
<1>2. \A x, y \in E : g[x] = g[y] => x = y
  <2> TAKE x, y \in E
  <2>1. g[x].source = x /\ g[y].source = y
    BY FactFields
  <2> QED
    BY <2>1
<1>3. \A x \in E : am[g[x]] \in Int /\ amount[x] = am[g[x]]
  BY <1>1, FactFields
<1>4. of = {g[x] : x \in E}
  <2>1. ASSUME NEW f \in of PROVE f \in {g[x] : x \in E}
    <3>1. f.source \in D /\ f = Fact(kind, at[f.source], amount[f.source], f.source)
      OBVIOUS
    <3>2. f.source \in E
      BY <1>1, <3>1
    <3> QED
      BY <3>1, <3>2
  <2>2. ASSUME NEW x \in E PROVE g[x] \in of
    BY <1>1, FactFields
  <2> QED
    BY <2>1, <2>2
<1>5. \A f \in of : f.amount \in Int
  <2> TAKE f \in of
  <2>1. f.source \in D /\ f = Fact(kind, at[f.source], amount[f.source], f.source)
    OBVIOUS
  <2>2. f.amount = amount[f.source]
    BY <2>1, FactFields
  <2> QED
    BY <2>1, <2>2
<1>6. IsFiniteSet(of) /\ SumOver(am, of) = SumOver(amount, E)
  <2> HIDE DEF g, am, of
  <2>1. IsFiniteSet({g[x] : x \in E}) /\ SumOver(am, {g[x] : x \in E}) = SumOver(amount, E)
    BY <1>1, <1>2, <1>3, SumImage
  <2> QED
    BY <1>4, <2>1
<1> QED
  BY <1>5, <1>6 DEF Amounting, E

(* Two kinds make up an amount of a statement.                             *)
LEMMA AmountOfTwo ==
  ASSUME NEW F, NEW k, NEW m, k # m, NEW a, NEW b,
         Amounting(F, k, a), Amounting(F, m, b)
  PROVE  Amount(F, {k, m}) = a + b
<1> DEFINE am == [f \in F |-> f.amount]
           S == {f \in F : f.kind = k}  V == {f \in F : f.kind = m}
<1>1. {f \in F : f.kind \in {k, m}} = S \cup V /\ S \cap V = {}
  OBVIOUS
<1>2. IsFiniteSet(S) /\ IsFiniteSet(V) /\ \A f \in S \cup V : am[f] \in Int
  BY DEF Amounting
<1>3. SumOver(am, S) = a /\ SumOver(am, V) = b
  BY DEF Amounting
<1>4. Amount(F, {k, m}) = SumOver(am, S \cup V)
  BY <1>1 DEF Amount
<1> HIDE DEF am, S, V
<1>5. SumOver(am, S \cup V) = SumOver(am, S) + SumOver(am, V)
  BY <1>1, <1>2, SumUnion
<1> QED
  BY <1>3, <1>4, <1>5

(* What the running totals of a set of facts are.                          *)
OutstandingOf(F) ==
  SumOver(TotalOf, ChargedIn(F)) + SumOver(AmountOf, ReleasedIn(F))
    - (SumOver(AmountOf, AllocatedIn(F)) + SumOver(TotalOf, CancelledIn(F)))
UnallocatedOf(F) ==
  SumOver(PaidOf, ReceivedIn(F)) + SumOver(AmountOf, ReleasedIn(F))
    - SumOver(AmountOf, AllocatedIn(F))

LEMMA RowSets ==
  /\ Charged \in SUBSET Invoices /\ Cancelled \in SUBSET Charged
  /\ OnInvoices \in SUBSET Allocations /\ \A x \in OnInvoices : OnFile(x)
  /\ IsFiniteSet(Charged) /\ IsFiniteSet(Cancelled) /\ IsFiniteSet(OnInvoices)
<1>1. /\ Charged \in SUBSET Invoices /\ Cancelled \in SUBSET Charged
      /\ OnInvoices \in SUBSET Allocations /\ \A x \in OnInvoices : OnFile(x)
  BY DEF Charged, Cancelled, OnInvoices, OnFile
<1> QED
  BY <1>1, ReceivablesAssumption, FS_Subset

LEMMA RowAmounts ==
  ASSUME LedgerRowsOK
  PROVE  /\ \A i \in Invoices : TotalOf[i] = Total(i) /\ TotalOf[i] \in Nat
         /\ \A x \in Allocations : AmountOf[x] \in Nat
         /\ \A x \in OnInvoices : AmountOf[x] = allocation[x].amount
         /\ \A p \in Payments : PaidOf[p] \in Nat
         /\ \A p \in Payments : payment[p] # None => PaidOf[p] = payment[p].amount
<1>1. \A p \in Payments : payment[p] # None => payment[p].amount \in Nat
  BY ReceivablesAssumption DEF LedgerRowsOK, PaymentRow
<1> QED
  BY <1>1, RowsSum, RowSets DEF LedgerSums, TotalOf, PaidOf, AmountOf

LEMMA RowTotals ==
  ASSUME LedgerRowsOK
  PROVE  /\ \A S \in SUBSET Invoices : IsFiniteSet(S) /\ SumOver(TotalOf, S) \in Nat
         /\ \A S \in SUBSET Payments : IsFiniteSet(S) /\ SumOver(PaidOf, S) \in Nat
         /\ \A S \in SUBSET Allocations : IsFiniteSet(S) /\ SumOver(AmountOf, S) \in Nat
<1>1. \A S \in SUBSET Invoices : IsFiniteSet(S) /\ SumOver(TotalOf, S) \in Nat
  <2> TAKE S \in SUBSET Invoices
  <2>1. IsFiniteSet(S) /\ \A i \in S : TotalOf[i] \in Nat
    BY RowAmounts, ReceivablesAssumption, FS_Subset
  <2> QED
    BY <2>1, SumNat
<1>2. \A S \in SUBSET Payments : IsFiniteSet(S) /\ SumOver(PaidOf, S) \in Nat
  <2> TAKE S \in SUBSET Payments
  <2>1. IsFiniteSet(S) /\ \A p \in S : PaidOf[p] \in Nat
    BY RowAmounts, ReceivablesAssumption, FS_Subset
  <2> QED
    BY <2>1, SumNat
<1>3. \A S \in SUBSET Allocations : IsFiniteSet(S) /\ SumOver(AmountOf, S) \in Nat
  <2> TAKE S \in SUBSET Allocations
  <2>1. IsFiniteSet(S) /\ \A x \in S : AmountOf[x] \in Nat
    BY RowAmounts, ReceivablesAssumption, FS_Subset
  <2> QED
    BY <2>1, SumNat
<1> QED
  BY <1>1, <1>2, <1>3

LEMMA FactSets ==
  ASSUME NEW F
  PROVE  /\ ChargedIn(F) \in SUBSET Charged /\ CancelledIn(F) \in SUBSET Cancelled
         /\ ReceivedIn(F) \in SUBSET Payments
         /\ AllocatedIn(F) \in SUBSET OnInvoices /\ ReleasedIn(F) \in SUBSET OnInvoices
BY DEF ChargedIn, CancelledIn, ReceivedIn, AllocatedIn, ReleasedIn

LEMMA TotalsOfFacts ==
  ASSUME LedgerRowsOK, NEW F
  PROVE  /\ SumOver(TotalOf, ChargedIn(F)) \in Nat /\ SumOver(TotalOf, CancelledIn(F)) \in Nat
         /\ SumOver(PaidOf, ReceivedIn(F)) \in Nat
         /\ SumOver(AmountOf, AllocatedIn(F)) \in Nat /\ SumOver(AmountOf, ReleasedIn(F)) \in Nat
<1>1. /\ ChargedIn(F) \in SUBSET Invoices /\ CancelledIn(F) \in SUBSET Invoices
      /\ ReceivedIn(F) \in SUBSET Payments
      /\ AllocatedIn(F) \in SUBSET Allocations /\ ReleasedIn(F) \in SUBSET Allocations
  BY FactSets, RowSets
<1> QED
  BY <1>1, RowTotals

LEMMA RunningTotals ==
  ASSUME LedgerRowsOK, NEW F \in SUBSET StatementEvents
  PROVE  /\ RunningOutstanding(F) = OutstandingOf(F)
         /\ RunningUnallocated(F) = UnallocatedOf(F)
<1>0. \A f \in F : f \in StatementEvents
  OBVIOUS
<1>1. Amounting(F, "charged", SumOver(TotalOf, ChargedIn(F)))
  <2> DEFINE at == [i \in Charged |-> invoice[i].issued_at]
  <2>1. \A i \in Charged : TotalOf[i] \in Int /\ TotalOf[i] = Total(i)
    BY RowSets, RowAmounts
  <2>2. AreOf(F, "charged", Charged, at, TotalOf)
    BY <1>0, <2>1, FactsTold DEF AreOf
  <2>3. ChargedIn(F) = RowsIn(F, "charged", Charged, at, TotalOf)
    BY <2>1 DEF ChargedIn, RowsIn
  <2> HIDE DEF at
  <2> QED
    BY <2>1, <2>2, <2>3, RowSets, FactsSum
<1>2. Amounting(F, "cancelled", SumOver(TotalOf, CancelledIn(F)))
  <2> DEFINE at == [i \in Cancelled |-> invoice[i].cancelled_at]
  <2>1. \A i \in Cancelled : TotalOf[i] \in Int /\ TotalOf[i] = Total(i)
    BY RowSets, RowAmounts
  <2>2. AreOf(F, "cancelled", Cancelled, at, TotalOf)
    BY <1>0, <2>1, FactsTold DEF AreOf
  <2>3. CancelledIn(F) = RowsIn(F, "cancelled", Cancelled, at, TotalOf)
    BY <2>1 DEF CancelledIn, RowsIn
  <2> HIDE DEF at
  <2> QED
    BY <2>1, <2>2, <2>3, RowSets, FactsSum
<1>3. Amounting(F, "received", SumOver(PaidOf, ReceivedIn(F)))
  <2> DEFINE D == {p \in Payments : payment[p] # None}
             at == [p \in D |-> payment[p].paid_at]
  <2>1. IsFiniteSet(D) /\ \A p \in D : PaidOf[p] \in Int /\ PaidOf[p] = payment[p].amount
    BY RowAmounts, ReceivablesAssumption, FS_Subset
  <2>2. AreOf(F, "received", D, at, PaidOf)
    BY <1>0, <2>1, FactsTold DEF AreOf
  <2>3. ReceivedIn(F) = RowsIn(F, "received", D, at, PaidOf)
    BY <2>1 DEF ReceivedIn, RowsIn
  <2> HIDE DEF at, D
  <2> QED
    BY <2>1, <2>2, <2>3, FactsSum
<1>4. Amounting(F, "allocated", SumOver(AmountOf, AllocatedIn(F)))
  <2> DEFINE at == [x \in OnInvoices |-> allocation[x].allocated_at]
  <2>1. \A x \in OnInvoices : AmountOf[x] \in Int /\ AmountOf[x] = allocation[x].amount
    BY RowSets, RowAmounts
  <2>2. AreOf(F, "allocated", OnInvoices, at, AmountOf)
    BY <1>0, <2>1, FactsTold DEF AreOf
  <2>3. AllocatedIn(F) = RowsIn(F, "allocated", OnInvoices, at, AmountOf)
    BY <2>1 DEF AllocatedIn, RowsIn
  <2> HIDE DEF at
  <2> QED
    BY <2>1, <2>2, <2>3, RowSets, FactsSum
<1>5. Amounting(F, "released", SumOver(AmountOf, ReleasedIn(F)))
  <2> DEFINE D == {x \in OnInvoices : ~allocation[x].active}
             at == [x \in D |-> allocation[x].released_at]
  <2>1. IsFiniteSet(D) /\ \A x \in D : AmountOf[x] \in Int /\ AmountOf[x] = allocation[x].amount
    BY RowSets, RowAmounts, FS_Subset
  <2>2. AreOf(F, "released", D, at, AmountOf)
    BY <1>0, <2>1, FactsTold DEF AreOf
  <2>3. ReleasedIn(F) = RowsIn(F, "released", D, at, AmountOf)
    BY <2>1 DEF ReleasedIn, RowsIn
  <2> HIDE DEF at, D
  <2> QED
    BY <2>1, <2>2, <2>3, FactsSum
<1>6. Amount(F, {"charged", "released"})
        = SumOver(TotalOf, ChargedIn(F)) + SumOver(AmountOf, ReleasedIn(F))
  BY <1>1, <1>5, AmountOfTwo
<1>7. Amount(F, {"allocated", "cancelled"})
        = SumOver(AmountOf, AllocatedIn(F)) + SumOver(TotalOf, CancelledIn(F))
  BY <1>2, <1>4, AmountOfTwo
<1>8. Amount(F, {"received", "released"})
        = SumOver(PaidOf, ReceivedIn(F)) + SumOver(AmountOf, ReleasedIn(F))
  BY <1>3, <1>5, AmountOfTwo
<1>9. Amount(F, {"allocated"}) = SumOver(AmountOf, AllocatedIn(F))
  <2>1. {f \in F : f.kind \in {"allocated"}} = {f \in F : f.kind = "allocated"}
    OBVIOUS
  <2> QED
    BY <1>4, <2>1 DEF Amount, Amounting
<1>10. RunningOutstanding(F) = OutstandingOf(F)
  <2>1. RunningOutstanding(F)
          = Amount(F, {"charged", "released"}) - Amount(F, {"allocated", "cancelled"})
    BY DEF RunningOutstanding
  <2> QED
    BY <1>6, <1>7, <2>1, TotalsOfFacts DEF OutstandingOf
<1>11. RunningUnallocated(F) = UnallocatedOf(F)
  <2>1. RunningUnallocated(F) = Amount(F, {"received", "released"}) - Amount(F, {"allocated"})
    BY DEF RunningUnallocated
  <2> QED
    BY <1>8, <1>9, <2>1, TotalsOfFacts DEF UnallocatedOf
<1> QED
  BY <1>10, <1>11

-----------------------------------------------------------------------------
(* What was where at the end of a moment.                                  *)

HeldAt(x, s) ==
  /\ allocation[x].allocated_at <= s
  /\ allocation[x].active \/ s < allocation[x].released_at

HeldOn(i, s) == {x \in OnInvoices : allocation[x].target = i /\ HeldAt(x, s)}
HeldOf(p, s) == {x \in OnInvoices : allocation[x].payment = p /\ HeldAt(x, s)}

InvoiceDated(i) ==
  /\ i \in Charged => invoice[i].issued_at <= now
  /\ i \in Cancelled => invoice[i].issued_at <= invoice[i].cancelled_at /\ invoice[i].cancelled_at <= now

(* An invoice is charged before money comes to it, and the money is off    *)
(* it when it is cancelled.                                                *)
AllocationDated(x) ==
  LET y == allocation[x] IN
  /\ y.target \in Charged /\ invoice[y.target].issued_at <= y.allocated_at
  /\ payment[y.payment] # None /\ payment[y.payment].paid_at <= y.allocated_at
  /\ y.allocated_at <= now
  /\ ~y.active => y.allocated_at <= y.released_at /\ y.released_at <= now
  /\ y.target \in Cancelled =>
       ~y.active /\ y.released_at <= invoice[y.target].cancelled_at

FactsDated ==
  /\ \A i \in Invoices : InvoiceDated(i)
  /\ \A p \in Payments : payment[p] # None => payment[p].paid_at <= now
  /\ \A x \in OnInvoices : AllocationDated(x)

(* At the end of no moment was more given out than paid, or to an invoice  *)
(* more than it asks.                                                      *)
NeverOverdrawn ==
  \A s \in Int :
    /\ \A i \in Charged : SumOver(AmountOf, HeldOn(i, s)) <= TotalOf[i]
    /\ \A p \in Payments : SumOver(AmountOf, HeldOf(p, s)) <= PaidOf[p]

StatementInv == FactsDated /\ NeverOverdrawn

LEMMA RowTimes ==
  ASSUME Inv, LedgerRowsOK
  PROVE  /\ \A i \in Invoices : invoice[i].issued_at \in Int /\ invoice[i].cancelled_at \in Int
         /\ \A p \in Payments : payment[p] # None => payment[p].paid_at \in Int
         /\ \A x \in Allocations : OnFile(x) =>
              /\ allocation[x].allocated_at \in Int /\ allocation[x].released_at \in Int
              /\ allocation[x].payment \in Payments /\ allocation[x].active \in BOOLEAN
         /\ now \in Int
<1>1. MaxTime \in Nat
  BY SharedConstants
<1>2. \A i \in Invoices : invoice[i].issued_at \in Int /\ invoice[i].cancelled_at \in Int
  BY DEF Inv, RowsOK, Row
<1>3. \A p \in Payments : payment[p] # None => payment[p].paid_at \in Int
  BY <1>1 DEF LedgerRowsOK, PaymentRow
<1>4. \A x \in Allocations : OnFile(x) =>
        /\ allocation[x].allocated_at \in Int /\ allocation[x].released_at \in Int
        /\ allocation[x].payment \in Payments /\ allocation[x].active \in BOOLEAN
  BY <1>1 DEF LedgerRowsOK, AllocationRow, OnFile
<1> QED
  BY <1>1, <1>2, <1>3, <1>4 DEF LedgerRowsOK

LEMMA HeldRows ==
  ASSUME NEW i, NEW p, NEW s
  PROVE  HeldOn(i, s) \in SUBSET Allocations /\ HeldOf(p, s) \in SUBSET Allocations
BY RowSets DEF HeldOn, HeldOf

(* What is held together is no more than what the invoices ask together,   *)
(* and no more than what the payments bring.                               *)
LEMMA HeldOnInvoices ==
  ASSUME LedgerRowsOK, NeverOverdrawn, NEW s \in Int, NEW H \in SUBSET OnInvoices,
         NEW c \in SUBSET Charged,
         \A x \in H : HeldAt(x, s) /\ allocation[x].target \in c
  PROVE  SumOver(AmountOf, H) <= SumOver(TotalOf, c)
<1> DEFINE h == [x \in H |-> allocation[x].target]
           g == [i \in c |-> SumOver(AmountOf, {x \in H : h[x] = i})]
<1>1. /\ IsFiniteSet(H) /\ \A x \in H : AmountOf[x] \in Int /\ h[x] \in c
      /\ IsFiniteSet(c) /\ c \in SUBSET Invoices /\ H \in SUBSET Allocations
  BY RowSets, RowTotals, RowAmounts
<1>2. ASSUME NEW i \in c PROVE g[i] \in Int /\ TotalOf[i] \in Int /\ g[i] <= TotalOf[i]
  <2> DEFINE part == {x \in H : h[x] = i}
  <2>1. part \in SUBSET HeldOn(i, s) /\ g[i] = SumOver(AmountOf, part)
    BY DEF HeldOn
  <2>2. /\ IsFiniteSet(HeldOn(i, s)) /\ SumOver(AmountOf, HeldOn(i, s)) \in Nat
        /\ \A x \in HeldOn(i, s) : AmountOf[x] \in Nat
    BY HeldRows, RowTotals, RowAmounts
  <2>3. part \in SUBSET Allocations /\ SumOver(AmountOf, part) \in Nat
    BY <1>1, RowTotals
  <2>4. SumOver(AmountOf, HeldOn(i, s)) <= TotalOf[i] /\ TotalOf[i] \in Nat
    BY <1>1, RowAmounts DEF NeverOverdrawn
  <2> HIDE DEF part, g
  <2>5. SumOver(AmountOf, part) <= SumOver(AmountOf, HeldOn(i, s))
    BY <2>1, <2>2, SumPart
  <2> QED
    BY <2>1, <2>2, <2>3, <2>4, <2>5
<1>3. \A i \in c : g[i] = GroupSum(AmountOf, h, H, i)
  BY DEF GroupSum
<1> HIDE DEF g, h
<1>4. SumOver(g, c) = SumOver(AmountOf, H)
  BY <1>1, <1>3, SumGroups
<1>5. SumOver(g, c) <= SumOver(TotalOf, c)
  BY <1>1, <1>2, SumBelow
<1> QED
  BY <1>4, <1>5

LEMMA HeldOfPayments ==
  ASSUME LedgerRowsOK, NeverOverdrawn, NEW s \in Int, NEW H \in SUBSET OnInvoices,
         NEW c \in SUBSET Payments,
         \A x \in H : HeldAt(x, s) /\ allocation[x].payment \in c
  PROVE  SumOver(AmountOf, H) <= SumOver(PaidOf, c)
<1> DEFINE h == [x \in H |-> allocation[x].payment]
           g == [p \in c |-> SumOver(AmountOf, {x \in H : h[x] = p})]
<1>1. /\ IsFiniteSet(H) /\ \A x \in H : AmountOf[x] \in Int /\ h[x] \in c
      /\ IsFiniteSet(c) /\ H \in SUBSET Allocations
  BY RowSets, RowTotals, RowAmounts
<1>2. ASSUME NEW p \in c PROVE g[p] \in Int /\ PaidOf[p] \in Int /\ g[p] <= PaidOf[p]
  <2> DEFINE part == {x \in H : h[x] = p}
  <2>1. part \in SUBSET HeldOf(p, s) /\ g[p] = SumOver(AmountOf, part)
    BY DEF HeldOf
  <2>2. /\ IsFiniteSet(HeldOf(p, s)) /\ SumOver(AmountOf, HeldOf(p, s)) \in Nat
        /\ \A x \in HeldOf(p, s) : AmountOf[x] \in Nat
    BY HeldRows, RowTotals, RowAmounts
  <2>3. part \in SUBSET Allocations /\ SumOver(AmountOf, part) \in Nat
    BY <1>1, RowTotals
  <2>4. SumOver(AmountOf, HeldOf(p, s)) <= PaidOf[p] /\ PaidOf[p] \in Nat
    BY RowAmounts DEF NeverOverdrawn
  <2> HIDE DEF part, g
  <2>5. SumOver(AmountOf, part) <= SumOver(AmountOf, HeldOf(p, s))
    BY <2>1, <2>2, SumPart
  <2> QED
    BY <2>1, <2>2, <2>3, <2>4, <2>5
<1>3. \A p \in c : g[p] = GroupSum(AmountOf, h, H, p)
  BY DEF GroupSum
<1> HIDE DEF g, h
<1>4. SumOver(g, c) = SumOver(AmountOf, H)
  BY <1>1, <1>3, SumGroups
<1>5. SumOver(g, c) <= SumOver(PaidOf, c)
  BY <1>1, <1>2, SumBelow
<1> QED
  BY <1>4, <1>5

-----------------------------------------------------------------------------
(* A prefix of the replay: the facts up to a kind at an instant.           *)

LEMMA Ranks ==
  /\ Rank["charged"] = 0 /\ Rank["received"] = 1 /\ Rank["released"] = 2
  /\ Rank["allocated"] = 3 /\ Rank["cancelled"] = 4
BY DEF Rank

LEMMA AFact ==
  ASSUME NEW kind, NEW t, NEW amount, NEW source, NEW at, NEW k,
         Fact(kind, t, amount, source) \in StatementEvents
  PROVE  Fact(kind, t, amount, source) \in UpTo(at, k) <=>
           t < at \/ (t = at /\ Rank[kind] <= Rank[k])
BY FactFields DEF UpTo

LEMMA FactsAreEvents ==
  /\ \A i \in Charged : Fact("charged", invoice[i].issued_at, Total(i), i) \in StatementEvents
  /\ \A i \in Cancelled : Fact("cancelled", invoice[i].cancelled_at, Total(i), i) \in StatementEvents
  /\ \A p \in Payments : payment[p] # None =>
       Fact("received", payment[p].paid_at, payment[p].amount, p) \in StatementEvents
  /\ \A x \in OnInvoices :
       /\ Fact("allocated", allocation[x].allocated_at, allocation[x].amount, x) \in StatementEvents
       /\ ~allocation[x].active =>
            Fact("released", allocation[x].released_at, allocation[x].amount, x) \in StatementEvents
BY DEF StatementEvents

LEMMA PrefixRows ==
  ASSUME NEW at, NEW k
  PROVE  LET F == UpTo(at, k) IN
         /\ \A i \in Charged : i \in ChargedIn(F) <=>
              invoice[i].issued_at < at \/ (invoice[i].issued_at = at /\ 0 <= Rank[k])
         /\ \A i \in Cancelled : i \in CancelledIn(F) <=>
              invoice[i].cancelled_at < at \/ (invoice[i].cancelled_at = at /\ 4 <= Rank[k])
         /\ \A p \in Payments : payment[p] # None => (p \in ReceivedIn(F) <=>
              payment[p].paid_at < at \/ (payment[p].paid_at = at /\ 1 <= Rank[k]))
         /\ \A x \in OnInvoices :
              /\ x \in AllocatedIn(F) <=>
                   allocation[x].allocated_at < at \/ (allocation[x].allocated_at = at /\ 3 <= Rank[k])
              /\ x \in ReleasedIn(F) <=> /\ ~allocation[x].active
                   /\ \/ allocation[x].released_at < at
                      \/ allocation[x].released_at = at /\ 2 <= Rank[k]
<1> DEFINE F == UpTo(at, k)
<1>1. ASSUME NEW i \in Charged
      PROVE  i \in ChargedIn(F) <=>
               invoice[i].issued_at < at \/ (invoice[i].issued_at = at /\ 0 <= Rank[k])
  BY FactsAreEvents, AFact, Ranks DEF ChargedIn
<1>2. ASSUME NEW i \in Cancelled
      PROVE  i \in CancelledIn(F) <=>
               invoice[i].cancelled_at < at \/ (invoice[i].cancelled_at = at /\ 4 <= Rank[k])
  BY FactsAreEvents, AFact, Ranks DEF CancelledIn
<1>3. ASSUME NEW p \in Payments, payment[p] # None
      PROVE  p \in ReceivedIn(F) <=>
               payment[p].paid_at < at \/ (payment[p].paid_at = at /\ 1 <= Rank[k])
  BY <1>3, FactsAreEvents, AFact, Ranks DEF ReceivedIn
<1>4. ASSUME NEW x \in OnInvoices
      PROVE  x \in AllocatedIn(F) <=>
               allocation[x].allocated_at < at \/ (allocation[x].allocated_at = at /\ 3 <= Rank[k])
  BY FactsAreEvents, AFact, Ranks DEF AllocatedIn
<1>5. ASSUME NEW x \in OnInvoices
      PROVE  x \in ReleasedIn(F) <=> /\ ~allocation[x].active
               /\ \/ allocation[x].released_at < at
                  \/ allocation[x].released_at = at /\ 2 <= Rank[k]
  BY FactsAreEvents, AFact, Ranks DEF ReleasedIn
<1> QED
  BY <1>1, <1>2, <1>3, <1>4, <1>5

(* What the prefix has given out and not taken back was held at one end of *)
(* a moment, by invoices and payments of the prefix.                       *)
LEMMA PrefixHeld ==
  ASSUME Inv, LedgerRowsOK, FactsDated, NEW at \in Int, NEW k, Rank[k] \in 0..4
  PROVE  LET F == UpTo(at, k) IN
         /\ \E s \in Int : \A x \in AllocatedIn(F) \ ReleasedIn(F) :
              /\ x \in OnInvoices /\ HeldAt(x, s)
              /\ allocation[x].target \in ChargedIn(F) \ CancelledIn(F)
              /\ allocation[x].payment \in ReceivedIn(F)
         /\ CancelledIn(F) \in SUBSET ChargedIn(F)
<1> DEFINE F == UpTo(at, k)
           s == IF 3 <= Rank[k] THEN at ELSE at - 1
<1>1. /\ ChargedIn(F) \in SUBSET Charged /\ CancelledIn(F) \in SUBSET Cancelled
      /\ AllocatedIn(F) \in SUBSET OnInvoices /\ Cancelled \in SUBSET Charged
      /\ Charged \in SUBSET Invoices
  BY FactSets, RowSets
<1>2. CancelledIn(F) \in SUBSET ChargedIn(F)
  <2> SUFFICES ASSUME NEW i \in CancelledIn(F) PROVE i \in ChargedIn(F)
    OBVIOUS
  <2>1. i \in Invoices /\ i \in Cancelled /\ i \in Charged
    BY <1>1
  <2>2. /\ invoice[i].issued_at \in Int /\ invoice[i].cancelled_at \in Int
        /\ invoice[i].issued_at <= invoice[i].cancelled_at
    BY <2>1, RowTimes DEF FactsDated, InvoiceDated
  <2>3. invoice[i].cancelled_at < at \/ invoice[i].cancelled_at = at
    BY <2>1, PrefixRows
  <2> QED
    BY <2>1, <2>2, <2>3, PrefixRows
<1>3. ASSUME NEW x \in AllocatedIn(F) \ ReleasedIn(F)
      PROVE  /\ x \in OnInvoices /\ HeldAt(x, s)
             /\ allocation[x].target \in ChargedIn(F) \ CancelledIn(F)
             /\ allocation[x].payment \in ReceivedIn(F)
  <2> DEFINE y == allocation[x]
  <2>1. x \in OnInvoices /\ x \in Allocations /\ OnFile(x)
    BY <1>1, RowSets
  <2>2. /\ y.allocated_at \in Int /\ y.released_at \in Int /\ y.payment \in Payments
        /\ y.active \in BOOLEAN
    BY <2>1, RowTimes
  <2>3. AllocationDated(x)
    BY <2>1 DEF FactsDated
  <2>4. /\ y.target \in Charged /\ y.target \in Invoices
        /\ invoice[y.target].issued_at \in Int /\ invoice[y.target].cancelled_at \in Int
        /\ invoice[y.target].issued_at <= y.allocated_at
    BY <1>1, <2>3, RowTimes DEF AllocationDated
  <2>5. /\ payment[y.payment] # None /\ payment[y.payment].paid_at <= y.allocated_at
        /\ payment[y.payment].paid_at \in Int
    BY <2>2, <2>3, RowTimes DEF AllocationDated
  <2>6. y.allocated_at < at \/ (y.allocated_at = at /\ 3 <= Rank[k])
    BY <2>1, PrefixRows
  <2>7. y.active \/ ~(y.released_at < at \/ (y.released_at = at /\ 2 <= Rank[k]))
    BY <2>1, PrefixRows
  <2>8. HeldAt(x, s)
    BY <2>2, <2>6, <2>7 DEF HeldAt
  <2>9. y.target \in ChargedIn(F)
    BY <2>2, <2>4, <2>6, PrefixRows
  <2>10. y.target \notin CancelledIn(F)
    <3> SUFFICES ASSUME y.target \in CancelledIn(F) PROVE FALSE
      OBVIOUS
    <3>1. y.target \in Cancelled
      BY <1>1
    <3>2. ~y.active /\ y.released_at <= invoice[y.target].cancelled_at
      BY <2>3, <3>1 DEF AllocationDated
    <3>3. \/ invoice[y.target].cancelled_at < at
          \/ invoice[y.target].cancelled_at = at /\ 4 <= Rank[k]
      BY <3>1, PrefixRows
    <3> QED
      BY <2>2, <2>4, <2>7, <3>2, <3>3
  <2>11. y.payment \in ReceivedIn(F)
    BY <2>2, <2>5, <2>6, PrefixRows
  <2> QED
    BY <2>1, <2>8, <2>9, <2>10, <2>11
<1> QED
  BY <1>2, <1>3

LEMMA PrefixesStand ==
  ASSUME Inv, LedgerRowsOK, StatementInv, NEW at \in Int, NEW k, Rank[k] \in 0..4
  PROVE  OutstandingOf(UpTo(at, k)) >= 0 /\ UnallocatedOf(UpTo(at, k)) >= 0
<1> DEFINE F == UpTo(at, k)
           H == AllocatedIn(F) \ ReleasedIn(F)
           c == ChargedIn(F) \ CancelledIn(F)
<1>1. PICK s \in Int : \A x \in H :
        /\ x \in OnInvoices /\ HeldAt(x, s) /\ allocation[x].target \in c
        /\ allocation[x].payment \in ReceivedIn(F)
  BY PrefixHeld DEF StatementInv
<1>2. CancelledIn(F) \in SUBSET ChargedIn(F)
  BY PrefixHeld DEF StatementInv
<1>3. /\ ChargedIn(F) \in SUBSET Charged /\ ReceivedIn(F) \in SUBSET Payments
      /\ AllocatedIn(F) \in SUBSET OnInvoices /\ ReleasedIn(F) \in SUBSET OnInvoices
      /\ Charged \in SUBSET Invoices /\ OnInvoices \in SUBSET Allocations
  BY FactSets, RowSets
<1>4. NeverOverdrawn
  BY DEF StatementInv
<1>5. SumOver(AmountOf, H) <= SumOver(TotalOf, c)
  <2>1. H \in SUBSET OnInvoices /\ c \in SUBSET Charged
    BY <1>3
  <2> HIDE DEF H, c
  <2> QED
    BY <1>1, <1>4, <2>1, HeldOnInvoices
<1>6. SumOver(AmountOf, H) <= SumOver(PaidOf, ReceivedIn(F))
  <2>1. H \in SUBSET OnInvoices
    BY <1>3
  <2> HIDE DEF H
  <2> QED
    BY <1>1, <1>3, <1>4, <2>1, HeldOfPayments
<1>7. SumOver(AmountOf, AllocatedIn(F)) <= SumOver(AmountOf, ReleasedIn(F)) + SumOver(AmountOf, H)
  <2>1. /\ IsFiniteSet(Allocations) /\ \A x \in Allocations : AmountOf[x] \in Nat
        /\ AllocatedIn(F) \in SUBSET Allocations /\ ReleasedIn(F) \in SUBSET Allocations
    BY <1>3, RowAmounts, ReceivablesAssumption
  <2> QED
    BY <2>1, SumLeft
<1>8. SumOver(TotalOf, ChargedIn(F)) = SumOver(TotalOf, CancelledIn(F)) + SumOver(TotalOf, c)
  <2>1. /\ IsFiniteSet(Invoices) /\ \A i \in Invoices : TotalOf[i] \in Nat
        /\ ChargedIn(F) \in SUBSET Invoices /\ CancelledIn(F) \in SUBSET Invoices
        /\ CancelledIn(F) \subseteq ChargedIn(F)
    BY <1>2, <1>3, RowAmounts, ReceivablesAssumption
  <2> QED
    BY <2>1, SumLeft
<1>9. /\ SumOver(AmountOf, H) \in Nat /\ SumOver(TotalOf, c) \in Nat
      /\ SumOver(TotalOf, ChargedIn(F)) \in Nat /\ SumOver(TotalOf, CancelledIn(F)) \in Nat
      /\ SumOver(PaidOf, ReceivedIn(F)) \in Nat
      /\ SumOver(AmountOf, AllocatedIn(F)) \in Nat /\ SumOver(AmountOf, ReleasedIn(F)) \in Nat
  <2>1. H \in SUBSET Allocations /\ c \in SUBSET Invoices
    BY <1>3
  <2> HIDE DEF H, c, F
  <2> QED
    BY <2>1, RowTotals, TotalsOfFacts
<1> HIDE DEF F, H, c
<1> QED
  BY <1>5, <1>6, <1>7, <1>8, <1>9 DEF OutstandingOf, UnallocatedOf, F

LEMMA AllPrefixesStand ==
  ASSUME Inv, LedgerRowsOK, StatementInv, NEW through
  PROVE  Reconciles(through)
<1> SUFFICES ASSUME NEW f \in StatementEvents
             PROVE  /\ RunningOutstanding(UpTo(f.at, f.kind)) >= 0
                    /\ RunningUnallocated(UpTo(f.at, f.kind)) >= 0
  BY DEF Reconciles
<1>1. f.at \in Int
  <2>1. /\ f.source \in Charged \/ f.source \in Cancelled => f.source \in Invoices
        /\ f.source \in OnInvoices => f.source \in Allocations /\ OnFile(f.source)
    BY RowSets
  <2> QED
    BY <2>1, FactsTold, FactFields, RowTimes
<1>2. Rank[f.kind] \in 0..4
  BY FactsTold, Ranks
<1>3. UpTo(f.at, f.kind) \in SUBSET StatementEvents
  BY DEF UpTo
<1> QED
  BY <1>1, <1>2, <1>3, RunningTotals, PrefixesStand

-----------------------------------------------------------------------------
(* The whole statement ends with what the ledgers say.                     *)

IssuedNow == {i \in Invoices : invoice[i].state = "issued"}
ActiveNow == {x \in OnInvoices : allocation[x].active}
ReleasedNow == {x \in OnInvoices : ~allocation[x].active}
PaymentsNow == {p \in Payments : payment[p] # None}

LEMMA WholeStatement ==
  /\ ChargedIn(StatementEvents) = Charged /\ CancelledIn(StatementEvents) = Cancelled
  /\ ReceivedIn(StatementEvents) = PaymentsNow
  /\ AllocatedIn(StatementEvents) = OnInvoices
  /\ ReleasedIn(StatementEvents) = ReleasedNow
BY FactsAreEvents
   DEF ChargedIn, CancelledIn, ReceivedIn, AllocatedIn, ReleasedIn, PaymentsNow, ReleasedNow

(* An issued invoice was charged and not cancelled; an allocation on an    *)
(* invoice that was not released is active on an issued one.               *)
LEMMA WhatStands ==
  /\ IssuedNow = Charged \ Cancelled /\ ActiveNow = OnInvoices \ ReleasedNow
  /\ Cancelled \subseteq Charged /\ ReleasedNow \subseteq OnInvoices
  /\ IssuedNow \in SUBSET Invoices /\ PaymentsNow \in SUBSET Payments
  /\ ActiveNow \in SUBSET Allocations /\ ReleasedNow \in SUBSET Allocations
  /\ OnInvoices \in SUBSET Allocations /\ Charged \in SUBSET Invoices
  /\ Cancelled \in SUBSET Invoices
BY DEF IssuedNow, ActiveNow, ReleasedNow, PaymentsNow, Charged, Cancelled, OnInvoices

(* What is active is on the issued invoices, group by group.               *)
LEMMA ActiveByInvoice ==
  ASSUME LedgerRowsOK, MoneyConserved
  PROVE  LET on == [i \in Invoices |-> SumOver(AmountOf, ActiveOn(i))] IN
         /\ SumOver(on, IssuedNow) = SumOver(AmountOf, ActiveNow)
         /\ \A i \in Invoices : on[i] \in Nat /\ Outstanding(i) = TotalOf[i] - on[i]
<1> DEFINE on == [i \in Invoices |-> SumOver(AmountOf, ActiveOn(i))]
           h == [x \in ActiveNow |-> allocation[x].target]
<1>1. \A x \in ActiveNow : h[x] \in IssuedNow
  BY DEF ActiveNow, OnInvoices, MoneyConserved, ActiveOn, IssuedNow
<1>2. \A i \in IssuedNow : {x \in ActiveNow : h[x] = i} = ActiveOn(i)
  BY DEF ActiveNow, OnInvoices, ActiveOn, IssuedNow
<1>3. \A i \in IssuedNow : on[i] = GroupSum(AmountOf, h, ActiveNow, i)
  BY <1>2, WhatStands DEF GroupSum
<1>4. \A i \in Invoices : on[i] \in Nat /\ Outstanding(i) = TotalOf[i] - on[i]
  <2> TAKE i \in Invoices
  <2>1. Sum(ActiveOn(i)) = SumOver(AmountOf, ActiveOn(i)) /\ Sum(ActiveOn(i)) \in Nat
    BY RowsSum DEF LedgerSums
  <2>2. TotalOf[i] = Total(i)
    BY RowAmounts
  <2> QED
    BY <2>1, <2>2 DEF Outstanding
<1>5. IsFiniteSet(ActiveNow) /\ IsFiniteSet(IssuedNow) /\ \A x \in ActiveNow : AmountOf[x] \in Int
  BY WhatStands, RowTotals, RowAmounts
<1>6. SumOver(on, IssuedNow) = SumOver(AmountOf, ActiveNow)
  <2> HIDE DEF on, h
  <2> QED
    BY <1>1, <1>3, <1>5, SumGroups
<1> QED
  BY <1>4, <1>6

LEMMA TotalsAgree ==
  ASSUME LedgerRowsOK, MoneyConserved
  PROVE  /\ RunningOutstanding(StatementEvents) = SumOver([i \in Invoices |-> Outstanding(i)], IssuedNow)
         /\ RunningUnallocated(StatementEvents) =
              SumOver([p \in Payments |-> payment[p].amount], PaymentsNow) - Sum(ActiveNow)
<1> DEFINE on == [i \in Invoices |-> SumOver(AmountOf, ActiveOn(i))]
           left == [i \in Invoices |-> Outstanding(i)]
           paid == [p \in Payments |-> payment[p].amount]
<1>1. SumOver(TotalOf, Charged) = SumOver(TotalOf, Cancelled) + SumOver(TotalOf, IssuedNow)
  <2>1. IsFiniteSet(Invoices) /\ \A i \in Invoices : TotalOf[i] \in Nat
    BY RowAmounts, ReceivablesAssumption
  <2> QED
    BY <2>1, WhatStands, SumLeft
<1>2. SumOver(AmountOf, OnInvoices) = SumOver(AmountOf, ReleasedNow) + SumOver(AmountOf, ActiveNow)
  <2>1. IsFiniteSet(Allocations) /\ \A x \in Allocations : AmountOf[x] \in Nat
    BY RowAmounts, ReceivablesAssumption
  <2> QED
    BY <2>1, WhatStands, SumLeft
<1>3. /\ SumOver(TotalOf, Charged) \in Nat /\ SumOver(TotalOf, Cancelled) \in Nat
      /\ SumOver(TotalOf, IssuedNow) \in Nat /\ SumOver(PaidOf, PaymentsNow) \in Nat
      /\ SumOver(AmountOf, OnInvoices) \in Nat /\ SumOver(AmountOf, ReleasedNow) \in Nat
      /\ SumOver(AmountOf, ActiveNow) \in Nat
  BY WhatStands, RowTotals
<1>4. /\ RunningOutstanding(StatementEvents)
           = SumOver(TotalOf, Charged) + SumOver(AmountOf, ReleasedNow)
               - (SumOver(AmountOf, OnInvoices) + SumOver(TotalOf, Cancelled))
      /\ RunningUnallocated(StatementEvents)
           = SumOver(PaidOf, PaymentsNow) + SumOver(AmountOf, ReleasedNow)
               - SumOver(AmountOf, OnInvoices)
  BY RunningTotals, WholeStatement DEF OutstandingOf, UnallocatedOf
<1>5. SumOver(left, IssuedNow) = SumOver(TotalOf, IssuedNow) - SumOver(on, IssuedNow)
  <2>1. \A i \in IssuedNow : TotalOf[i] \in Int /\ on[i] \in Int /\ left[i] = TotalOf[i] - on[i]
    BY ActiveByInvoice, RowAmounts, WhatStands
  <2>2. IsFiniteSet(IssuedNow)
    BY WhatStands, RowTotals
  <2> HIDE DEF on, left
  <2> QED
    BY <2>1, <2>2, SumMinus
<1>6. SumOver(on, IssuedNow) = SumOver(AmountOf, ActiveNow)
  BY ActiveByInvoice
<1>7. SumOver(paid, PaymentsNow) = SumOver(PaidOf, PaymentsNow)
  <2>1. IsFiniteSet(PaymentsNow)
    BY WhatStands, RowTotals
  <2>2. \A p \in PaymentsNow : PaidOf[p] \in Int /\ PaidOf[p] = paid[p]
    BY RowAmounts DEF PaymentsNow
  <2> HIDE DEF paid
  <2> QED
    BY <2>1, <2>2, SumSame
<1>8. Sum(ActiveNow) = SumOver(AmountOf, ActiveNow)
  <2>1. ActiveNow \in SUBSET {x \in Allocations : OnFile(x)}
    BY DEF ActiveNow, OnInvoices, OnFile
  <2> QED
    BY <2>1, RowsSum DEF LedgerSums
<1> HIDE DEF on, left, paid
<1>9. RunningOutstanding(StatementEvents) = SumOver(left, IssuedNow)
  BY <1>1, <1>2, <1>3, <1>4, <1>5, <1>6
<1>10. RunningUnallocated(StatementEvents) = SumOver(paid, PaymentsNow) - Sum(ActiveNow)
  BY <1>2, <1>3, <1>4, <1>7, <1>8
<1> QED
  BY <1>9, <1>10 DEF left, paid

LEMMA InvReconciles ==
  ASSUME Inv, MoneyInv, StatementInv
  PROVE  StatementsReconcile
<1>1. \A through \in 1..now : Reconciles(through)
  BY AllPrefixesStand DEF MoneyInv
<1> QED
  BY <1>1, TotalsAgree DEF MoneyInv, StatementsReconcile, IssuedNow, PaymentsNow, ActiveNow

-----------------------------------------------------------------------------
(* Steps.  What they do to the facts of a statement.                       *)

InvoiceMoves(i) ==
  /\ i \in Charged => i \in Charged' /\ invoice'[i].issued_at = invoice[i].issued_at
  /\ i \notin Charged /\ i \in Charged' => invoice'[i].issued_at = now
  /\ i \in Cancelled => i \in Cancelled' /\ invoice'[i].cancelled_at = invoice[i].cancelled_at
  /\ i \notin Cancelled /\ i \in Cancelled' =>
       i \in Charged /\ invoice'[i].cancelled_at = now /\ ActiveOn(i)' = {}

PaymentMoves(p) ==
  \/ payment'[p] = payment[p]
  \/ payment[p] = None /\ payment'[p].paid_at <= now

Allocated(x) ==
  /\ ~OnFile(x) /\ OnFile(x)' /\ UNCHANGED <<invoice, payment>>
  /\ allocation'[x].active /\ allocation'[x].allocated_at = now
  /\ allocation'[x].payment \in Payments /\ payment[allocation'[x].payment] # None
  /\ allocation'[x].target \in Invoices => invoice[allocation'[x].target].state = "issued"

Released(x) ==
  /\ OnFile(x) /\ OnFile(x)'
  /\ allocation'[x].payment = allocation[x].payment
  /\ allocation'[x].target = allocation[x].target
  /\ allocation'[x].amount = allocation[x].amount
  /\ allocation'[x].allocated_at = allocation[x].allocated_at
  /\ allocation[x].active /\ ~allocation'[x].active
  /\ allocation'[x].released_at = now

AllocationMoves(x) == allocation'[x] = allocation[x] \/ Allocated(x) \/ Released(x)

LEMMA RowReleased ==
  ASSUME LedgerRowsOK, NEW x \in Allocations, OnFile(x), allocation[x].active,
         allocation'[x] = [allocation[x] EXCEPT !.active = FALSE, !.released_at = now]
  PROVE  Released(x)
<1> DEFINE y == [allocation[x] EXCEPT !.active = FALSE, !.released_at = now]
<1>1. allocation[x] \in AllocationRow
  BY DEF LedgerRowsOK, OnFile
<1>2. /\ y.payment = allocation[x].payment /\ y.target = allocation[x].target
      /\ y.amount = allocation[x].amount /\ y.allocated_at = allocation[x].allocated_at
      /\ ~y.active /\ y.released_at = now
  BY <1>1 DEF AllocationRow
<1>3. y # None
  BY ReleasedRow
<1> HIDE DEF y
<1>4. allocation'[x] = y
  BY DEF y
<1> QED
  BY <1>2, <1>3, <1>4 DEF Released, OnFile

LEMMA NextAllocations ==
  ASSUME Inv, LedgerRowsOK, [Next]_vars, NEW x \in Allocations
  PROVE  AllocationMoves(x)
<1>1. ASSUME NEW i \in Invoices, NEW r \in Invoices, CancelAndReissue(i, r)
      PROVE  AllocationMoves(x)
  <2>1. allocation' = ReleaseOn(i)
    BY <1>1 DEF CancelAndReissue
  <2>2. CASE x \in ActiveOn(i)
    <3>1. /\ OnFile(x) /\ allocation[x].active
          /\ allocation'[x] = [allocation[x] EXCEPT !.active = FALSE, !.released_at = now]
      BY <2>1, <2>2 DEF ReleaseOn, ActiveOn, OnFile
    <3> QED
      BY <3>1, RowReleased DEF AllocationMoves
  <2>3. CASE x \notin ActiveOn(i)
    BY <2>1, <2>3 DEF ReleaseOn, AllocationMoves
  <2> QED
    BY <2>2, <2>3
<1>2. ASSUME NEW z \in Allocations, ReleaseAllocation(z) PROVE AllocationMoves(x)
  <2>1. CASE x = z
    <3>1. /\ OnFile(x) /\ allocation[x].active
          /\ allocation'[x] = [allocation[x] EXCEPT !.active = FALSE, !.released_at = now]
      BY <1>2, <2>1 DEF ReleaseAllocation, OnFile, LedgerRowsOK
    <3> QED
      BY <3>1, RowReleased DEF AllocationMoves
  <2>2. CASE x # z
    BY <1>2, <2>2 DEF ReleaseAllocation, LedgerRowsOK, AllocationMoves
  <2> QED
    BY <2>1, <2>2
<1>3. ASSUME NEW p \in Payments, NEW z \in Allocations, NEW amount \in Amounts,
             NEW target \in Invoices \cup Jobs, Allocate(z, p, amount, target)
      PROVE  AllocationMoves(x)
  <2> DEFINE y == [payment |-> p, target |-> target, amount |-> amount, active |-> TRUE,
                   allocated_at |-> now, released_at |-> 0]
  <2>1. /\ payment[p] # None /\ ~OnFile(z) /\ allocation' = [allocation EXCEPT ![z] = y]
        /\ target \in Invoices => invoice[target].state = "issued"
        /\ UNCHANGED <<invoice, payment>>
    BY <1>3 DEF Allocate, OnFile
  <2>2. y # None
    <3>1. y \in AllocationRow
      BY SharedConstants DEF AllocationRow, LedgerRowsOK
    <3> QED
      BY <3>1, ReceivablesAssumption
  <2>3. CASE x = z
    <3>1. /\ y.payment = p /\ y.target = target /\ y.active /\ y.allocated_at = now
      OBVIOUS
    <3> HIDE DEF y
    <3>2. allocation'[x] = y
      BY <2>1, <2>3 DEF LedgerRowsOK
    <3> QED
      BY <2>1, <2>2, <2>3, <3>1, <3>2 DEF AllocationMoves, Allocated, OnFile
  <2>4. CASE x # z
    BY <2>1, <2>4 DEF LedgerRowsOK, AllocationMoves
  <2> QED
    BY <2>3, <2>4
<1>4. ASSUME UNCHANGED allocation PROVE AllocationMoves(x)
  BY <1>4 DEF AllocationMoves
<1> QED
  BY <1>1, <1>2, <1>3, <1>4
     DEF Next, DraftCreate, DraftDiscard, Issue, ReissueAgain, LineUpsert, LineRemove,
         ApplyAgreement, ReceiveBlock, TakePayment, receivables, money, vars

LEMMA NextPayments ==
  ASSUME LedgerRowsOK, [Next]_vars, NEW p \in Payments
  PROVE  PaymentMoves(p)
<1>1. ASSUME NEW q \in Payments, NEW amount \in Amounts, NEW paid_at \in 1..MaxTime,
             TakePayment(q, amount, paid_at)
      PROVE  PaymentMoves(p)
  BY <1>1 DEF TakePayment, LedgerRowsOK, PaymentMoves
<1>2. ASSUME UNCHANGED payment PROVE PaymentMoves(p)
  BY <1>2 DEF PaymentMoves
<1> QED
  BY <1>1, <1>2
     DEF Next, DraftCreate, DraftDiscard, Issue, CancelAndReissue, ReissueAgain, LineUpsert,
         LineRemove, ApplyAgreement, ReceiveBlock, Allocate, ReleaseAllocation, receivables,
         money, vars

LEMMA NextTime ==
  ASSUME LedgerRowsOK, [Next]_vars
  PROVE  now <= now'
<1>0. now \in Int
  BY SharedConstants DEF LedgerRowsOK
<1>1. ASSUME UNCHANGED now PROVE now <= now'
  BY <1>0, <1>1
<1>2. ASSUME A!Tick PROVE now <= now'
  BY <1>0, <1>2 DEF A!Tick
<1> QED
  BY <1>1, <1>2
     DEF Next, DraftCreate, DraftDiscard, Issue, CancelAndReissue, ReissueAgain, LineUpsert,
         LineRemove, ApplyAgreement, ReceiveBlock, TakePayment, Allocate, ReleaseAllocation, vars

LEMMA SameInvoiceMoves ==
  ASSUME NEW i \in Invoices, invoice'[i] = invoice[i]
  PROVE  InvoiceMoves(i)
BY DEF InvoiceMoves, Charged, Cancelled

LEMMA UnchargedMoves ==
  ASSUME NEW i \in Invoices, i \notin Charged, i \notin Charged'
  PROVE  InvoiceMoves(i)
BY DEF InvoiceMoves, Charged, Cancelled

LEMMA IssueMovesAll ==
  ASSUME Inv, NEW i \in Invoices, NEW d \in Devices, Issue(i, d), NEW j \in Invoices
  PROVE  InvoiceMoves(j)
<1> DEFINE source == invoice[i].replaces
<1>1. /\ invoice[i].state = "draft"
      /\ source # None => invoice[source].state = "cancelled"
      /\ source \in Invoices \cup {None}
  BY DEF Issue, WaitingAlone, Inv, RowsOK, Row
<1>2. PICK b \in Available(d) :
        LET issued == [invoice EXCEPT ![i].state = "issued", ![i].number = block[b].next,
                                      ![i].issued_at = now]
        IN  invoice' = IF source = None THEN issued
                       ELSE [issued EXCEPT ![source].state = "replaced",
                                           ![source].replaced_by = i]
  BY DEF Issue
<1> DEFINE mine == [invoice[i] EXCEPT !.state = "issued", !.number = block[b].next,
                                      !.issued_at = now]
           was == [invoice[source] EXCEPT !.state = "replaced", !.replaced_by = i]
<1>3. invoice \in [Invoices -> Row] /\ mine.state = "issued" /\ mine.issued_at = now
  BY DEF Inv, RowsOK, Row
<1>4. source # None =>
        /\ source \in Invoices \ {i} /\ was.state = "replaced"
        /\ was.issued_at = invoice[source].issued_at
        /\ was.cancelled_at = invoice[source].cancelled_at
  BY <1>1, <1>3 DEF Row
<1>5. /\ source = None => invoice' = [invoice EXCEPT ![i] = mine]
      /\ source # None => invoice' = [invoice EXCEPT ![i] = mine, ![source] = was]
  <2>1. CASE source = None
    BY <1>2, <2>1
  <2>2. CASE source # None
    BY <1>2, <1>3, <1>4, <2>2
  <2> QED
    BY <2>1, <2>2
<1> HIDE DEF source, mine, was
<1>6. /\ invoice'[i] = mine
      /\ source # None => invoice'[source] = was
      /\ j # i /\ j # source => invoice'[j] = invoice[j]
  BY <1>3, <1>4, <1>5
<1>7. CASE j = i
  BY <1>1, <1>3, <1>6, <1>7 DEF InvoiceMoves, Charged, Cancelled
<1>8. CASE j # i /\ source # None /\ j = source
  BY <1>1, <1>4, <1>6, <1>8 DEF InvoiceMoves, Charged, Cancelled
<1>9. CASE j # i /\ j # source
  BY <1>6, <1>9, SameInvoiceMoves
<1>10. j = source => source # None
  BY ReceivablesAssumption
<1> QED
  BY <1>7, <1>8, <1>9, <1>10

LEMMA CancelMovesAll ==
  ASSUME Inv, LedgerRowsOK, NEW i \in Invoices, NEW r \in Invoices, CancelAndReissue(i, r),
         NEW j \in Invoices
  PROVE  InvoiceMoves(j)
<1> DEFINE row == [invoice[i] EXCEPT !.state = "cancelled", !.cancelled_at = now]
<1>1. /\ i # r /\ invoice[i].state = "issued" /\ invoice[r].state = "absent"
      /\ invoice' = [invoice EXCEPT ![i] = row, ![r] = Draft(i)]
      /\ invoice \in [Invoices -> Row] /\ allocation' = ReleaseOn(i)
  BY DEF CancelAndReissue, Reissuable, Inv, RowsOK
<1>2. row.state = "cancelled" /\ row.cancelled_at = now /\ row.issued_at = invoice[i].issued_at
  BY <1>1 DEF Row
<1>3. Draft(i).state = "draft"
  BY DraftFields
<1>4. ActiveOn(i)' = {}
  <2> SUFFICES ASSUME NEW x \in ActiveOn(i)' PROVE FALSE
    OBVIOUS
  <2>1. x \in Allocations /\ allocation'[x] # None /\ allocation'[x].active
        /\ allocation'[x].target = i
    BY DEF ActiveOn
  <2>2. CASE x \in ActiveOn(i)
    <3>1. OnFile(x) /\ allocation'[x] = [allocation[x] EXCEPT !.active = FALSE, !.released_at = now]
      BY <1>1, <2>2 DEF ReleaseOn, ActiveOn, OnFile
    <3>2. ~allocation'[x].active
      BY <2>1, <3>1, ReleasedRow
    <3> QED
      BY <2>1, <3>2
  <2>3. CASE x \notin ActiveOn(i)
    BY <1>1, <2>1, <2>3 DEF ReleaseOn, ActiveOn
  <2> QED
    BY <2>2, <2>3
<1> HIDE DEF row
<1>5. /\ invoice'[i] = row /\ invoice'[r] = Draft(i)
      /\ j # i /\ j # r => invoice'[j] = invoice[j]
  BY <1>1
<1>6. CASE j = i
  BY <1>1, <1>2, <1>4, <1>5, <1>6 DEF InvoiceMoves, Charged, Cancelled
<1>7. CASE j = r
  BY <1>1, <1>3, <1>5, <1>7, UnchargedMoves DEF Charged
<1>8. CASE j # i /\ j # r
  BY <1>5, <1>8, SameInvoiceMoves
<1> QED
  BY <1>6, <1>7, <1>8

LEMMA NextInvoices ==
  ASSUME Inv, LedgerRowsOK, [Next]_vars, NEW j \in Invoices
  PROVE  InvoiceMoves(j)
<1>1. ASSUME NEW i \in Invoices, DraftCreate(i) \/ DraftDiscard(i) PROVE InvoiceMoves(j)
  <2>1. /\ invoice[i].state \in {"absent", "draft"} /\ invoice'[i].state \in {"draft", "discarded"}
        /\ \A k \in Invoices \ {i} : invoice'[k] = invoice[k]
    BY <1>1, DraftFields DEF DraftCreate, DraftDiscard, Inv, RowsOK, Row
  <2>2. CASE j = i
    BY <2>1, <2>2, UnchargedMoves DEF Charged
  <2> QED
    BY <2>1, <2>2, SameInvoiceMoves
<1>2. ASSUME NEW i \in Invoices, NEW r \in Invoices, ReissueAgain(i, r) PROVE InvoiceMoves(j)
  <2>1. /\ invoice[r].state = "absent" /\ invoice' = [invoice EXCEPT ![r] = Draft(i)]
        /\ Draft(i).state = "draft"
    BY <1>2, DraftFields DEF ReissueAgain, Reissuable
  <2>2. invoice'[r].state = "draft" /\ \A k \in Invoices \ {r} : invoice'[k] = invoice[k]
    BY <2>1 DEF Inv, RowsOK
  <2>3. CASE j = r
    BY <2>1, <2>2, <2>3, UnchargedMoves DEF Charged
  <2> QED
    BY <2>2, <2>3, SameInvoiceMoves
<1>3. ASSUME UNCHANGED invoice PROVE InvoiceMoves(j)
  BY <1>3, SameInvoiceMoves
<1> QED
  BY <1>1, <1>2, <1>3, IssueMovesAll, CancelMovesAll
     DEF Next, LineUpsert, LineRemove, ApplyAgreement, ReceiveBlock, TakePayment, Allocate,
         ReleaseAllocation, receivables, vars

(* What an invoice asks is settled once it is charged.                     *)
LEMMA ChargedTotals ==
  ASSUME Inv, [Next]_vars, NEW i \in Charged
  PROVE  Total(i)' = Total(i)
<1>1. \A k \in Slots : line'[<<i, k>>] = line[<<i, k>>]
  <2>1. FrozenStep \/ UNCHANGED vars
    BY NextFrozen
  <2> QED
    BY <2>1 DEF FrozenStep, vars, receivables
<1>2. i \in Invoices /\ \A x \in InvoiceLines : x[1] = i => line'[x] = line[x]
  BY <1>1, ReceivablesAssumption DEF Charged
<1> QED
  BY <1>2, TotalSame

(* Facts stay in order.                                                    *)
LEMMA DatedInvoice ==
  ASSUME Inv, LedgerRowsOK, NEW i \in Invoices, InvoiceDated(i), InvoiceMoves(i),
         now <= now', LedgerRowsOK'
  PROVE  InvoiceDated(i)'
<1>1. /\ now \in Int /\ now' \in Int /\ invoice[i].issued_at \in Int
      /\ invoice[i].cancelled_at \in Int
  BY RowTimes, SharedConstants DEF LedgerRowsOK
<1>2. Cancelled \subseteq Charged /\ Cancelled' \subseteq Charged'
  BY DEF Cancelled, Charged
<1>3. ASSUME i \in Charged' PROVE invoice'[i].issued_at <= now'
  BY <1>1, <1>3 DEF InvoiceDated, InvoiceMoves
<1>4. ASSUME i \in Cancelled'
      PROVE  invoice'[i].issued_at <= invoice'[i].cancelled_at /\ invoice'[i].cancelled_at <= now'
  <2>1. CASE i \in Cancelled
    BY <1>1, <1>2, <2>1 DEF InvoiceDated, InvoiceMoves
  <2>2. CASE i \notin Cancelled
    BY <1>1, <1>4, <2>2 DEF InvoiceDated, InvoiceMoves
  <2> QED
    BY <2>1, <2>2
<1> QED
  BY <1>3, <1>4 DEF InvoiceDated

(* The rows an allocation names are what they were, or were just dated.    *)
LEMMA DatedAllocation ==
  ASSUME Inv, LedgerRowsOK, LedgerRowsOK', FactsDated,
         \A i \in Invoices : InvoiceMoves(i), \A p \in Payments : PaymentMoves(p), now <= now',
         NEW x \in OnInvoices', AllocationMoves(x)
  PROVE  AllocationDated(x)'
<1> DEFINE y == allocation[x]
           z == allocation'[x]
<1>1. /\ x \in Allocations /\ OnFile(x)' /\ z.target \in Invoices /\ now \in Int /\ now' \in Int
  BY SharedConstants DEF OnInvoices, OnFile, LedgerRowsOK
<1>2. /\ \A i \in Invoices : invoice[i].issued_at \in Int /\ invoice[i].cancelled_at \in Int
      /\ \A p \in Payments : payment[p] # None => payment[p].paid_at \in Int
  BY RowTimes
<1>3. CASE Allocated(x)
  <2>1. /\ z.active /\ z.allocated_at = now /\ invoice' = invoice /\ payment' = payment
        /\ z.payment \in Payments /\ payment[z.payment] # None
        /\ invoice[z.target].state = "issued"
    BY <1>1, <1>3 DEF Allocated
  <2>2. /\ z.target \in Charged /\ z.target \notin Cancelled
        /\ Charged' = Charged /\ Cancelled' = Cancelled
    BY <1>1, <2>1 DEF Charged, Cancelled
  <2>3. invoice[z.target].issued_at <= now /\ payment[z.payment].paid_at <= now
    BY <1>1, <2>1, <2>2 DEF FactsDated, InvoiceDated
  <2> QED
    BY <1>1, <2>1, <2>2, <2>3 DEF AllocationDated
<1>4. CASE z = y \/ Released(x)
  <2>1. /\ OnFile(x) /\ z.payment = y.payment /\ z.target = y.target
        /\ z.allocated_at = y.allocated_at
    BY <1>1, <1>4 DEF Released, OnFile
  <2>2. x \in OnInvoices
    BY <1>1, <2>1 DEF OnInvoices, OnFile
  <2>3. AllocationDated(x)
    BY <2>2 DEF FactsDated
  <2>4. /\ y.allocated_at \in Int /\ y.released_at \in Int /\ y.payment \in Payments
        /\ y.allocated_at <= now
    BY <1>1, <2>1, <2>3, RowTimes DEF AllocationDated
  <2>5. z.target \in Charged' /\ invoice'[z.target].issued_at <= z.allocated_at
    BY <1>1, <2>1, <2>3 DEF AllocationDated, InvoiceMoves
  <2>6. payment'[z.payment] # None /\ payment'[z.payment].paid_at <= z.allocated_at
    BY <2>1, <2>3, <2>4 DEF AllocationDated, PaymentMoves
  <2>7. z.allocated_at <= now'
    BY <1>1, <2>1, <2>4
  <2>8. \/ ~z.active /\ z.released_at = now /\ y.active
        \/ z = y
    BY <1>4 DEF Released
  <2>9. ~z.active => z.allocated_at <= z.released_at /\ z.released_at <= now'
    BY <1>1, <2>1, <2>3, <2>4, <2>8 DEF AllocationDated
  <2>10. ASSUME z.target \in Cancelled'
         PROVE  ~z.active /\ z.released_at <= invoice'[z.target].cancelled_at
    <3>1. CASE z.target \in Cancelled
      <4>1. /\ ~y.active /\ y.released_at <= invoice[y.target].cancelled_at
            /\ invoice'[z.target].cancelled_at = invoice[y.target].cancelled_at
        BY <1>1, <2>1, <2>3, <3>1 DEF AllocationDated, InvoiceMoves
      <4> QED
        BY <2>8, <4>1
    <3>2. CASE z.target \notin Cancelled
      <4>0. PICK t \in Invoices : t = z.target
        BY <1>1
      <4>1. invoice'[t].cancelled_at = now /\ ActiveOn(t)' = {}
        BY <2>10, <3>2, <4>0 DEF InvoiceMoves
      <4>2. ~z.active
        BY <1>1, <4>0, <4>1 DEF ActiveOn, OnFile
      <4>3. z.released_at <= now
        BY <1>1, <2>3, <2>8, <4>2 DEF AllocationDated
      <4> QED
        BY <4>0, <4>1, <4>2, <4>3
    <3> QED
      BY <3>1, <3>2
  <2> QED
    BY <2>5, <2>6, <2>7, <2>9, <2>10 DEF AllocationDated
<1> QED
  BY <1>3, <1>4 DEF AllocationMoves

LEMMA NextDated ==
  ASSUME Inv, LedgerRowsOK, LedgerRowsOK', FactsDated, [Next]_vars
  PROVE  FactsDated'
<1>1. /\ \A i \in Invoices : InvoiceMoves(i)
      /\ \A p \in Payments : PaymentMoves(p)
      /\ \A x \in Allocations : AllocationMoves(x)
      /\ now <= now'
  BY NextInvoices, NextPayments, NextAllocations, NextTime
<1>2. \A i \in Invoices : InvoiceDated(i)'
  BY <1>1, DatedInvoice DEF FactsDated
<1>3. ASSUME NEW p \in Payments, payment'[p] # None PROVE payment'[p].paid_at <= now'
  <2>1. now \in Int /\ now' \in Int /\ payment'[p].paid_at \in Int
    BY <1>3, SharedConstants DEF LedgerRowsOK, PaymentRow
  <2>2. payment'[p].paid_at <= now
    BY <1>1, <1>3 DEF PaymentMoves, FactsDated
  <2> QED
    BY <1>1, <2>1, <2>2
<1>4. ASSUME NEW x \in OnInvoices' PROVE AllocationDated(x)'
  <2>1. x \in Allocations
    BY DEF OnInvoices
  <2> QED
    BY <1>1, <2>1, DatedAllocation
<1> QED
  BY <1>2, <1>3, <1>4 DEF FactsDated

(* Nothing is overdrawn.  Before this moment only less is held than was,   *)
(* since nothing is given out in the past; from this moment on what is     *)
(* held is what is active, which MoneyConserved bounds.                    *)
TotalsOK ==
  /\ \A i \in Invoices : TotalOf[i] \in Nat /\ TotalOf[i] = Total(i)
  /\ \A p \in Payments : PaidOf[p] \in Nat /\ (payment[p] # None => PaidOf[p] = payment[p].amount)
  /\ \A x \in Allocations : AmountOf[x] \in Nat
  /\ \A S \in SUBSET Allocations : IsFiniteSet(S) /\ SumOver(AmountOf, S) \in Nat

LEMMA RowsTotal == LedgerRowsOK => TotalsOK
BY RowAmounts, RowTotals DEF TotalsOK

LEMMA RowsTotalAfter == LedgerRowsOK' => TotalsOK'
BY RowsTotal, PTL

LEMMA LessHeld ==
  ASSUME TotalsOK, TotalsOK', NEW S \in SUBSET Allocations, NEW T \in SUBSET S,
         \A x \in T : AmountOf'[x] = AmountOf[x]
  PROVE  SumOver(AmountOf', T) <= SumOver(AmountOf, S) /\ SumOver(AmountOf', T) \in Nat
<1> DEFINE f == AmountOf
           h == AmountOf'
<1>1. /\ IsFiniteSet(S) /\ IsFiniteSet(T) /\ T \in SUBSET Allocations
      /\ \A x \in S : f[x] \in Nat
      /\ \A x \in T : f[x] \in Int /\ f[x] = h[x]
      /\ SumOver(f, S) \in Nat /\ SumOver(f, T) \in Nat
  BY DEF TotalsOK
<1> HIDE DEF f, h
<1>2. SumOver(f, T) = SumOver(h, T)
  BY <1>1, SumSame
<1>3. SumOver(f, T) <= SumOver(f, S)
  BY <1>1, SumPart
<1>4. SumOver(h, T) <= SumOver(f, S) /\ SumOver(h, T) \in Nat
  BY <1>1, <1>2, <1>3
<1> QED
  BY <1>4 DEF f, h

(* What is held at the end of an earlier moment was held before the step.  *)
LEMMA HeldBefore ==
  ASSUME Inv, LedgerRowsOK, FactsDated, NEW s \in Int, s < now,
         NEW x \in OnInvoices', AllocationMoves(x), HeldAt(x, s)'
  PROVE  /\ x \in OnInvoices /\ HeldAt(x, s) /\ AmountOf'[x] = AmountOf[x]
         /\ allocation'[x].target = allocation[x].target
         /\ allocation'[x].payment = allocation[x].payment
<1>1. x \in Allocations /\ OnFile(x)' /\ allocation'[x].target \in Invoices
      /\ allocation'[x].allocated_at <= s /\ now \in Int
  BY RowTimes DEF OnInvoices, OnFile, HeldAt
<1>2. ~Allocated(x)
  BY <1>1 DEF Allocated
<1>3. CASE allocation'[x] = allocation[x]
  <2>1. OnFile(x) /\ x \in OnInvoices
    BY <1>1, <1>3 DEF OnFile, OnInvoices
  <2>2. HeldAt(x, s)
    BY <1>3 DEF HeldAt
  <2> QED
    BY <1>1, <1>3, <2>1, <2>2 DEF AmountOf
<1>4. CASE Released(x)
  <2>1. OnFile(x) /\ x \in OnInvoices
    BY <1>1, <1>4 DEF Released, OnFile, OnInvoices
  <2>2. HeldAt(x, s)
    BY <1>1, <1>4 DEF HeldAt, Released
  <2> QED
    BY <1>1, <1>4, <2>1, <2>2 DEF Released, AmountOf
<1> QED
  BY <1>2, <1>3, <1>4 DEF AllocationMoves

(* What is held at the end of this moment or a later one is active.        *)
LEMMA HeldAfter ==
  ASSUME Inv, LedgerRowsOK, FactsDated, NEW s \in Int, now <= s,
         NEW x \in OnInvoices', AllocationMoves(x), HeldAt(x, s)'
  PROVE  allocation'[x].active
<1>1. x \in Allocations /\ OnFile(x)' /\ now \in Int
  BY RowTimes DEF OnInvoices, OnFile
<1>2. CASE allocation'[x] = allocation[x]
  <2>1. OnFile(x) /\ x \in OnInvoices
    BY <1>1, <1>2 DEF OnFile, OnInvoices
  <2>2. allocation[x].released_at \in Int
    BY <1>1, <2>1, RowTimes
  <2>3. ~allocation[x].active => allocation[x].released_at <= now
    BY <2>1 DEF FactsDated, AllocationDated
  <2> QED
    BY <1>1, <1>2, <2>2, <2>3 DEF HeldAt
<1>3. CASE Allocated(x)
  BY <1>3 DEF Allocated
<1>4. CASE Released(x)
  BY <1>1, <1>4 DEF Released, HeldAt
<1> QED
  BY <1>2, <1>3, <1>4 DEF AllocationMoves

LEMMA NextNotOverdrawn ==
  ASSUME Inv, LedgerRowsOK, LedgerRowsOK', FactsDated, NeverOverdrawn,
         MoneyConserved', Taken', [Next]_vars
  PROVE  NeverOverdrawn'
<1>1. /\ \A i \in Invoices : InvoiceMoves(i)
      /\ \A p \in Payments : PaymentMoves(p)
      /\ \A x \in Allocations : AllocationMoves(x)
      /\ now \in Int
  BY NextInvoices, NextPayments, NextAllocations, RowTimes
<1>2. TotalsOK /\ TotalsOK' /\ LedgerSums'
  BY RowsTotal, RowsTotalAfter, RowsSumAfter
<1>3. \A x \in OnInvoices' : x \in Allocations /\ AllocationMoves(x)
  BY <1>1 DEF OnInvoices
<1>4. SumOver(AmountOf', {}) = 0
  BY SumStep, FS_EmptySet
<1>5. ASSUME NEW s \in Int, NEW i \in Charged'
      PROVE  SumOver(AmountOf, HeldOn(i, s))' <= TotalOf'[i]
  <2>1. i \in Invoices /\ TotalOf'[i] \in Nat
    BY <1>2 DEF Charged, TotalsOK
  <2>2. PICK T : T = HeldOn(i, s)'
    OBVIOUS
  <2>3. \A x \in T : x \in OnInvoices' /\ allocation'[x].target = i /\ HeldAt(x, s)'
    BY <2>2 DEF HeldOn
  <2>4. CASE s < now
    <3>1. \A x \in T : x \in HeldOn(i, s) /\ AmountOf'[x] = AmountOf[x]
      BY <1>3, <2>3, <2>4, HeldBefore DEF HeldOn
    <3>2. CASE i \in Charged
      <4>1. PICK S \in SUBSET Allocations : S = HeldOn(i, s)
        BY HeldRows
      <4>2. SumOver(AmountOf', T) <= SumOver(AmountOf, S) /\ SumOver(AmountOf', T) \in Nat
        BY <1>2, <3>1, <4>1, LessHeld
      <4>3. SumOver(AmountOf, S) <= TotalOf[i] /\ SumOver(AmountOf, S) \in Nat
        BY <1>2, <3>2, <4>1 DEF NeverOverdrawn, TotalsOK
      <4>4. TotalOf'[i] = TotalOf[i]
        BY <1>2, <2>1, <3>2, ChargedTotals DEF TotalsOK
      <4> QED
        BY <2>1, <2>2, <4>2, <4>3, <4>4
    <3>3. CASE i \notin Charged
      <4>1. T = {}
        BY <3>1, <3>3 DEF HeldOn, FactsDated, AllocationDated
      <4> QED
        BY <1>4, <2>1, <2>2, <4>1
    <3> QED
      BY <3>2, <3>3
  <2>5. CASE ~(s < now)
    <3>1. PICK S : S = ActiveOn(i)'
      OBVIOUS
    <3>2. T \subseteq S
      BY <1>1, <1>3, <2>3, <2>5, <3>1, HeldAfter DEF ActiveOn, OnInvoices
    <3>3. S \in SUBSET Allocations
      BY <3>1 DEF ActiveOn
    <3>4. SumOver(AmountOf', T) <= SumOver(AmountOf', S) /\ SumOver(AmountOf', T) \in Nat
      <4>1. IsFiniteSet(S) /\ \A x \in S : AmountOf'[x] \in Nat
        BY <1>2, <3>3 DEF TotalsOK
      <4>2. T \in SUBSET Allocations
        BY <3>2, <3>3
      <4> QED
        BY <1>2, <3>2, <4>1, <4>2, SumPart DEF TotalsOK
    <3>5. Sum(ActiveOn(i))' = SumOver(AmountOf', S) /\ Sum(ActiveOn(i))' \in Nat
      BY <1>2, <2>1, <3>1 DEF LedgerSums
    <3>6. Sum(ActiveOn(i))' <= TotalOf'[i]
      BY <1>2, <2>1 DEF MoneyConserved, TotalsOK
    <3> QED
      BY <2>1, <2>2, <3>4, <3>5, <3>6
  <2> QED
    BY <2>4, <2>5
<1>6. ASSUME NEW s \in Int, NEW p \in Payments
      PROVE  SumOver(AmountOf, HeldOf(p, s))' <= PaidOf'[p]
  <2>1. PaidOf'[p] \in Nat
    BY <1>2 DEF TotalsOK
  <2>2. PICK T : T = HeldOf(p, s)'
    OBVIOUS
  <2>3. \A x \in T : x \in OnInvoices' /\ allocation'[x].payment = p /\ HeldAt(x, s)'
    BY <2>2 DEF HeldOf
  <2>4. CASE s < now
    <3>1. \A x \in T : x \in HeldOf(p, s) /\ AmountOf'[x] = AmountOf[x]
      BY <1>3, <2>3, <2>4, HeldBefore DEF HeldOf
    <3>2. CASE payment[p] # None
      <4>1. PICK S \in SUBSET Allocations : S = HeldOf(p, s)
        BY HeldRows
      <4>2. SumOver(AmountOf', T) <= SumOver(AmountOf, S) /\ SumOver(AmountOf', T) \in Nat
        BY <1>2, <3>1, <4>1, LessHeld
      <4>3. SumOver(AmountOf, S) <= PaidOf[p] /\ SumOver(AmountOf, S) \in Nat
        BY <1>2, <4>1 DEF NeverOverdrawn, TotalsOK
      <4>4. PaidOf'[p] = PaidOf[p]
        BY <1>1, <3>2 DEF PaidOf, PaymentMoves
      <4> QED
        BY <2>1, <2>2, <4>2, <4>3, <4>4
    <3>3. CASE payment[p] = None
      <4>1. T = {}
        BY <3>1, <3>3 DEF HeldOf, FactsDated, AllocationDated
      <4> QED
        BY <1>4, <2>1, <2>2, <4>1
    <3> QED
      BY <3>2, <3>3
  <2>5. CASE ~(s < now)
    <3>1. PICK S : S = ActiveOf(p)'
      OBVIOUS
    <3>2. T \subseteq S
      BY <1>1, <1>3, <2>3, <2>5, <3>1, HeldAfter DEF ActiveOf, OnInvoices
    <3>3. S \in SUBSET Allocations
      BY <3>1 DEF ActiveOf
    <3>4. SumOver(AmountOf', T) <= SumOver(AmountOf', S) /\ SumOver(AmountOf', T) \in Nat
      <4>1. IsFiniteSet(S) /\ \A x \in S : AmountOf'[x] \in Nat
        BY <1>2, <3>3 DEF TotalsOK
      <4>2. T \in SUBSET Allocations
        BY <3>2, <3>3
      <4> QED
        BY <1>2, <3>2, <4>1, <4>2, SumPart DEF TotalsOK
    <3>5. Sum(ActiveOf(p))' = SumOver(AmountOf', S) /\ Sum(ActiveOf(p))' \in Nat
      BY <1>2, <3>1 DEF LedgerSums
    <3>6. CASE payment'[p] # None
      <4>1. payment'[p].amount - Sum(ActiveOf(p))' >= 0 /\ PaidOf'[p] = payment'[p].amount
        BY <1>2, <3>6 DEF MoneyConserved, Unallocated, TotalsOK
      <4> QED
        BY <2>1, <2>2, <3>4, <3>5, <4>1
    <3>7. CASE payment'[p] = None
      <4>1. T = {}
        BY <2>3, <3>7 DEF Taken, OnInvoices, OnFile
      <4> QED
        BY <1>4, <2>1, <2>2, <4>1
    <3> QED
      BY <3>6, <3>7
  <2> QED
    BY <2>4, <2>5
<1> QED
  BY <1>5, <1>6 DEF NeverOverdrawn

LEMMA InitStatement == Init => StatementInv
<1> SUFFICES ASSUME Init PROVE StatementInv
  OBVIOUS
<1>1. MoneyInv /\ Charged = {} /\ Cancelled = {} /\ OnInvoices = {}
      /\ \A p \in Payments : payment[p] = None
  BY InitMoney DEF Init, Absent, Charged, Cancelled, OnInvoices
<1>2. FactsDated
  BY <1>1 DEF FactsDated, InvoiceDated
<1>3. NeverOverdrawn
  <2>1. SumOver(AmountOf, {}) = 0 /\ \A p \in Payments : PaidOf[p] \in Nat
    BY <1>1, SumStep, FS_EmptySet, RowAmounts DEF MoneyInv
  <2>2. \A s \in Int : \A p : HeldOf(p, s) = {}
    BY <1>1 DEF HeldOf
  <2> QED
    BY <1>1, <2>1, <2>2 DEF NeverOverdrawn
<1> QED
  BY <1>2, <1>3 DEF StatementInv

(* A statement of any period that ended can be prepared, whatever happened *)
(* at one instant or was entered late: no total of its replay goes below   *)
(* zero.  And the latest one ends with what the ledgers say is outstanding *)
(* on invoices and left of payments.                                       *)
THEOREM Statements == Spec => []StatementsReconcile
<1>1. Inv /\ MoneyInv /\ MoneyInv' /\ StatementInv /\ [Next]_vars => StatementInv'
  BY NextDated, NextNotOverdrawn DEF MoneyInv, StatementInv
<1>2. Inv /\ MoneyInv /\ StatementInv => StatementsReconcile
  BY InvReconciles
<1> QED
  BY InitStatement, Invariance, MoneyAlways, <1>1, <1>2, PTL DEF Spec
=============================================================================
