-------------------------- MODULE NewsletterProofs --------------------------
(***************************************************************************)
(* Proofs about Newsletter, for any addresses, requests and bounds, and    *)
(* however requests overlap.  IInv keeps the links and the consents;       *)
(* CurrentInv adds that a request whose row nobody else has written since  *)
(* it read it writes over what it read, from which follow the erasure, the *)
(* single use of a link and the order of a status, each but for a request  *)
(* that was overtaken.                                                     *)
(***************************************************************************)
EXTENDS Newsletter, TLAPS

-----------------------------------------------------------------------------
(* However requests overlap *)

LEMMA InitIInv == Init => IInv
BY AddressAssumption, BoundsAssumption
   DEF Init, IInv, TypeOK, BaseType, CrossedType, TableType, RequestType, RecordType, RowsOK, RequestsOK, LinkOnlyWhilePending,
       ActiveConsented, Status, Step, Idle

\* Every variable keeps its type.
LEMMA NextType ==
  ASSUME TableType, RequestType, RecordType, RowsOK, RequestsOK, [Next]_vars
  PROVE  BaseType'
<1> USE AddressAssumption, BoundsAssumption
    DEF TableType, RequestType, RecordType, RowsOK, table, request, ghost, crossed, About, LateBy, Token, Status, Step
<1>1. ASSUME NEW r \in Request, NEW a \in Address, SubscribeRead(r, a)
     PROVE  BaseType'
  <2>1. TableType'
    <3>1. status' \in [Address -> Status]
      BY <1>1 DEF SubscribeRead, Begin, Idle, AnsweredAlready
    <3>2. id' \in [Address -> Nat]
      BY <1>1 DEF SubscribeRead, Begin, Idle, AnsweredAlready
    <3>3. hash' \in [Address -> 0..MaxTokens]
      BY <1>1 DEF SubscribeRead, Begin, Idle, AnsweredAlready
    <3>4. recent' \subseteq Address /\ rows' \in 0..MaxRows
      BY <1>1 DEF SubscribeRead, Begin, Idle, AnsweredAlready
    <3>5. tokens' \in 0..MaxTokens /\ expired' \subseteq Token
      BY <1>1 DEF SubscribeRead, Begin, Idle, AnsweredAlready
    <3>6. mailed' \subseteq Token
      BY <1>1 DEF SubscribeRead, Begin, Idle, AnsweredAlready
    <3>. QED
      BY <3>1, <3>2, <3>3, <3>4, <3>5, <3>6 DEF TableType
  <2>2. RequestType'
    BY <1>1 DEF SubscribeRead, Begin, Idle, AnsweredAlready
  <2>3. RecordType'
    BY <1>1 DEF SubscribeRead, Begin, Idle, AnsweredAlready
  <2>. QED
    BY <2>1, <2>2, <2>3 DEF BaseType
<1>2. ASSUME NEW r \in Request, NEW a \in Address, LeaveRead(r, a)
     PROVE  BaseType'
  <2>1. TableType'
    BY <1>2 DEF LeaveRead, Begin, Idle
  <2>2. RequestType'
    BY <1>2 DEF LeaveRead, Begin, Idle
  <2>3. RecordType'
    BY <1>2 DEF LeaveRead, Begin, Idle
  <2>. QED
    BY <2>1, <2>2, <2>3 DEF BaseType
<1>3. ASSUME NEW r \in Request, NEW a \in Address, EraseRead(r, a)
     PROVE  BaseType'
  <2>1. TableType'
    BY <1>3 DEF EraseRead, Begin, Idle
  <2>2. RequestType'
    BY <1>3 DEF EraseRead, Begin, Idle
  <2>3. RecordType'
    BY <1>3 DEF EraseRead, Begin, Idle
  <2>. QED
    BY <2>1, <2>2, <2>3 DEF BaseType
<1>4. ASSUME NEW r \in Request, NEW a \in Address, NEW t \in Token, ConfirmRead(r, a, t)
     PROVE  BaseType'
  <2>1. TableType'
    BY <1>4 DEF ConfirmRead, Begin, Idle
  <2>2. RequestType'
    BY <1>4 DEF ConfirmRead, Begin, Idle
  <2>3. RecordType'
    <3>1. consented' \subseteq Nat
      BY <1>4 DEF ConfirmRead, Begin, Idle
    <3>2. /\ UNCHANGED <<history, notices, burst, confirms, erased>>
          /\ RecordType
      BY <1>4 DEF ConfirmRead, Begin
    <3>. QED
      BY <3>1, <3>2 DEF RecordType
  <2>. QED
    BY <2>1, <2>2, <2>3 DEF BaseType
<1>5. ASSUME NEW r \in Request, SubscribeUpdate(r)
     PROVE  BaseType'
  <2>t. target[r] \in Address /\ drawn[r] \in Token
    BY <1>5 DEF SubscribeUpdate, Continue, Found, StatusOnRequest, RequestsOK, Idle
  <2>1. TableType'
    <3>1. status' \in [Address -> Status]
      BY <1>5, <2>t DEF SubscribeUpdate, Continue, Found, StatusOnRequest
    <3>2. id' \in [Address -> Nat]
      BY <1>5, <2>t DEF SubscribeUpdate, Continue, Found, StatusOnRequest
    <3>3. hash' \in [Address -> 0..MaxTokens]
      BY <1>5, <2>t DEF SubscribeUpdate, Continue, Found, StatusOnRequest
    <3>4. recent' \subseteq Address /\ rows' \in 0..MaxRows
      BY <1>5, <2>t DEF SubscribeUpdate, Continue, Found, StatusOnRequest
    <3>5. tokens' \in 0..MaxTokens /\ expired' \subseteq Token
      BY <1>5, <2>t DEF SubscribeUpdate, Continue, Found, StatusOnRequest
    <3>6. mailed' \subseteq Token
      BY <1>5, <2>t DEF SubscribeUpdate, Continue, Found, StatusOnRequest
    <3>. QED
      BY <3>1, <3>2, <3>3, <3>4, <3>5, <3>6 DEF TableType
  <2>2. RequestType'
    BY <1>5 DEF SubscribeUpdate, Continue, Found, StatusOnRequest
  <2>3. RecordType'
    BY <1>5 DEF SubscribeUpdate, Continue, Found, StatusOnRequest
  <2>. QED
    BY <2>1, <2>2, <2>3 DEF BaseType
<1>6. ASSUME NEW r \in Request, SubscribeCreate(r)
     PROVE  BaseType'
  <2>t. target[r] \in Address /\ drawn[r] \in Token
    BY <1>6 DEF SubscribeCreate, Continue, RequestsOK, Idle
  <2>1. TableType'
    <3>1. status' \in [Address -> Status]
      BY <1>6, <2>t DEF SubscribeCreate, Continue
    <3>2. id' \in [Address -> Nat]
      BY <1>6, <2>t DEF SubscribeCreate, Continue
    <3>3. hash' \in [Address -> 0..MaxTokens]
      BY <1>6, <2>t DEF SubscribeCreate, Continue
    <3>4. recent' \subseteq Address /\ rows' \in 0..MaxRows
      BY <1>6, <2>t DEF SubscribeCreate, Continue
    <3>5. tokens' \in 0..MaxTokens /\ expired' \subseteq Token
      BY <1>6, <2>t DEF SubscribeCreate, Continue
    <3>6. mailed' \subseteq Token
      BY <1>6, <2>t DEF SubscribeCreate, Continue
    <3>. QED
      BY <3>1, <3>2, <3>3, <3>4, <3>5, <3>6 DEF TableType
  <2>2. RequestType'
    BY <1>6 DEF SubscribeCreate, Continue
  <2>3. RecordType'
    BY <1>6 DEF SubscribeCreate, Continue
  <2>. QED
    BY <2>1, <2>2, <2>3 DEF BaseType
<1>7. ASSUME NEW r \in Request, SubscribeTooLate(r)
     PROVE  BaseType'
  <2>1. TableType'
    BY <1>7 DEF SubscribeTooLate, End, Begin
  <2>2. RequestType'
    BY <1>7 DEF SubscribeTooLate, End, Begin
  <2>3. RecordType'
    BY <1>7 DEF SubscribeTooLate, End, Begin
  <2>. QED
    BY <2>1, <2>2, <2>3 DEF BaseType
<1>8. ASSUME NEW r \in Request, SubscribeMail(r)
     PROVE  BaseType'
  <2>t. target[r] \in Address /\ drawn[r] \in Token
    BY <1>8 DEF SubscribeMail, End, Begin, RequestsOK, Idle
  <2>1. TableType'
    <3>1. status' \in [Address -> Status]
      BY <1>8, <2>t DEF SubscribeMail, End, Begin
    <3>2. id' \in [Address -> Nat]
      BY <1>8, <2>t DEF SubscribeMail, End, Begin
    <3>3. hash' \in [Address -> 0..MaxTokens]
      BY <1>8, <2>t DEF SubscribeMail, End, Begin
    <3>4. recent' \subseteq Address /\ rows' \in 0..MaxRows
      BY <1>8, <2>t DEF SubscribeMail, End, Begin
    <3>5. tokens' \in 0..MaxTokens /\ expired' \subseteq Token
      BY <1>8, <2>t DEF SubscribeMail, End, Begin
    <3>6. mailed' \subseteq Token
      BY <1>8, <2>t DEF SubscribeMail, End, Begin
    <3>. QED
      BY <3>1, <3>2, <3>3, <3>4, <3>5, <3>6 DEF TableType
  <2>2. RequestType'
    BY <1>8 DEF SubscribeMail, End, Begin
  <2>3. RecordType'
    <3>1. history' \in [Address -> Nat]
      BY <1>8, <2>t DEF SubscribeMail, End, Begin
    <3>2. notices' \in [Address -> Nat]
      BY <1>8, <2>t DEF SubscribeMail, End, Begin
    <3>3. burst' \in [Address -> Nat]
      BY <1>8, <2>t DEF SubscribeMail, End, Begin
    <3>4. consented' \subseteq Nat /\ erased' \subseteq Address
      BY <1>8, <2>t DEF SubscribeMail, End, Begin
    <3>5. confirms' \in [Token -> Nat]
      BY <1>8, <2>t DEF SubscribeMail, End, Begin
    <3>. QED
      BY <3>1, <3>2, <3>3, <3>4, <3>5 DEF RecordType
  <2>. QED
    BY <2>1, <2>2, <2>3 DEF BaseType
<1>9. ASSUME NEW r \in Request, ConfirmWrite(r)
     PROVE  BaseType'
  <2>t. target[r] \in Address /\ drawn[r] \in Token
    BY <1>9 DEF ConfirmWrite, Continue, Found, HashAfterConfirm, RequestsOK, Idle
  <2>1. TableType'
    <3>1. status' \in [Address -> Status]
      BY <1>9, <2>t DEF ConfirmWrite, Continue, Found, HashAfterConfirm
    <3>2. id' \in [Address -> Nat]
      BY <1>9, <2>t DEF ConfirmWrite, Continue, Found, HashAfterConfirm
    <3>3. hash' \in [Address -> 0..MaxTokens]
      BY <1>9, <2>t DEF ConfirmWrite, Continue, Found, HashAfterConfirm
    <3>4. recent' \subseteq Address /\ rows' \in 0..MaxRows
      BY <1>9, <2>t DEF ConfirmWrite, Continue, Found, HashAfterConfirm
    <3>5. tokens' \in 0..MaxTokens /\ expired' \subseteq Token
      BY <1>9, <2>t DEF ConfirmWrite, Continue, Found, HashAfterConfirm
    <3>6. mailed' \subseteq Token
      BY <1>9, <2>t DEF ConfirmWrite, Continue, Found, HashAfterConfirm
    <3>. QED
      BY <3>1, <3>2, <3>3, <3>4, <3>5, <3>6 DEF TableType
  <2>2. RequestType'
    BY <1>9 DEF ConfirmWrite, Continue, Found, HashAfterConfirm
  <2>3. RecordType'
    <3>1. history' \in [Address -> Nat]
      BY <1>9, <2>t DEF ConfirmWrite, Continue, Found, HashAfterConfirm
    <3>2. notices' \in [Address -> Nat]
      BY <1>9, <2>t DEF ConfirmWrite, Continue, Found, HashAfterConfirm
    <3>3. burst' \in [Address -> Nat]
      BY <1>9, <2>t DEF ConfirmWrite, Continue, Found, HashAfterConfirm
    <3>4. consented' \subseteq Nat /\ erased' \subseteq Address
      BY <1>9, <2>t DEF ConfirmWrite, Continue, Found, HashAfterConfirm
    <3>5. confirms' \in [Token -> Nat]
      BY <1>9, <2>t DEF ConfirmWrite, Continue, Found, HashAfterConfirm
    <3>. QED
      BY <3>1, <3>2, <3>3, <3>4, <3>5 DEF RecordType
  <2>. QED
    BY <2>1, <2>2, <2>3 DEF BaseType
<1>10. ASSUME NEW r \in Request, Welcome(r)
     PROVE  BaseType'
  <2>w. PICK w \in 0..1, n \in 0..1 :
           /\ history' = [history EXCEPT ![target[r]] = @ + w]
           /\ notices' = [notices EXCEPT ![target[r]] = @ + n]
    BY <1>10 DEF Welcome
  <2>t. target[r] \in Address
    BY <1>10 DEF Welcome, End, Begin, RequestsOK, Idle
  <2>1. TableType'
    BY <1>10 DEF Welcome, End, Begin
  <2>2. RequestType'
    BY <1>10 DEF Welcome, End, Begin
  <2>3. RecordType'
    <3>1. history' \in [Address -> Nat]
      BY <2>w, <2>t
    <3>2. notices' \in [Address -> Nat]
      BY <2>w, <2>t
    <3>3. burst' \in [Address -> Nat]
      BY <1>10, <2>t DEF Welcome, End, Begin
    <3>4. consented' \subseteq Nat /\ erased' \subseteq Address
      BY <1>10, <2>t DEF Welcome, End, Begin
    <3>5. confirms' \in [Token -> Nat]
      BY <1>10, <2>t DEF Welcome, End, Begin
    <3>. QED
      BY <3>1, <3>2, <3>3, <3>4, <3>5 DEF RecordType
  <2>. QED
    BY <2>1, <2>2, <2>3 DEF BaseType
<1>11. ASSUME NEW r \in Request, LeaveWrite(r)
     PROVE  BaseType'
  <2>t. target[r] \in Address
    BY <1>11 DEF LeaveWrite, End, Begin, Found, HashAfterLeave, RequestsOK, Idle
  <2>1. TableType'
    <3>1. status' \in [Address -> Status]
      BY <1>11, <2>t DEF LeaveWrite, End, Begin, Found, HashAfterLeave
    <3>2. id' \in [Address -> Nat]
      BY <1>11, <2>t DEF LeaveWrite, End, Begin, Found, HashAfterLeave
    <3>3. hash' \in [Address -> 0..MaxTokens]
      BY <1>11, <2>t DEF LeaveWrite, End, Begin, Found, HashAfterLeave
    <3>4. recent' \subseteq Address /\ rows' \in 0..MaxRows
      BY <1>11, <2>t DEF LeaveWrite, End, Begin, Found, HashAfterLeave
    <3>5. tokens' \in 0..MaxTokens /\ expired' \subseteq Token
      BY <1>11, <2>t DEF LeaveWrite, End, Begin, Found, HashAfterLeave
    <3>6. mailed' \subseteq Token
      BY <1>11, <2>t DEF LeaveWrite, End, Begin, Found, HashAfterLeave
    <3>. QED
      BY <3>1, <3>2, <3>3, <3>4, <3>5, <3>6 DEF TableType
  <2>2. RequestType'
    BY <1>11 DEF LeaveWrite, End, Begin, Found, HashAfterLeave
  <2>3. RecordType'
    BY <1>11 DEF LeaveWrite, End, Begin, Found, HashAfterLeave
  <2>. QED
    BY <2>1, <2>2, <2>3 DEF BaseType
<1>12. ASSUME NEW r \in Request, EraseWrite(r)
     PROVE  BaseType'
  <2>t. target[r] \in Address
    BY <1>12 DEF EraseWrite, End, Begin, Found, HistoryAfterErase, RequestsOK, Idle
  <2>1. TableType'
    <3>1. status' \in [Address -> Status]
      BY <1>12, <2>t DEF EraseWrite, End, Begin, Found, HistoryAfterErase
    <3>2. id' \in [Address -> Nat]
      BY <1>12, <2>t DEF EraseWrite, End, Begin, Found, HistoryAfterErase
    <3>3. hash' \in [Address -> 0..MaxTokens]
      BY <1>12, <2>t DEF EraseWrite, End, Begin, Found, HistoryAfterErase
    <3>4. recent' \subseteq Address /\ rows' \in 0..MaxRows
      BY <1>12, <2>t DEF EraseWrite, End, Begin, Found, HistoryAfterErase
    <3>5. tokens' \in 0..MaxTokens /\ expired' \subseteq Token
      BY <1>12, <2>t DEF EraseWrite, End, Begin, Found, HistoryAfterErase
    <3>6. mailed' \subseteq Token
      BY <1>12, <2>t DEF EraseWrite, End, Begin, Found, HistoryAfterErase
    <3>. QED
      BY <3>1, <3>2, <3>3, <3>4, <3>5, <3>6 DEF TableType
  <2>2. RequestType'
    BY <1>12 DEF EraseWrite, End, Begin, Found, HistoryAfterErase
  <2>3. RecordType'
    <3>1. history' \in [Address -> Nat]
      BY <1>12, <2>t DEF EraseWrite, End, Begin, Found, HistoryAfterErase
    <3>2. notices' \in [Address -> Nat]
      BY <1>12, <2>t DEF EraseWrite, End, Begin, Found, HistoryAfterErase
    <3>3. burst' \in [Address -> Nat]
      BY <1>12, <2>t DEF EraseWrite, End, Begin, Found, HistoryAfterErase
    <3>4. consented' \subseteq Nat /\ erased' \subseteq Address
      BY <1>12, <2>t DEF EraseWrite, End, Begin, Found, HistoryAfterErase
    <3>5. confirms' \in [Token -> Nat]
      BY <1>12, <2>t DEF EraseWrite, End, Begin, Found, HistoryAfterErase
    <3>. QED
      BY <3>1, <3>2, <3>3, <3>4, <3>5 DEF RecordType
  <2>. QED
    BY <2>1, <2>2, <2>3 DEF BaseType
<1>13. ASSUME NEW r \in Request, Abort(r)
     PROVE  BaseType'
  <2>1. TableType'
    BY <1>13 DEF Abort, End, Begin
  <2>2. RequestType'
    BY <1>13 DEF Abort, End, Begin
  <2>3. RecordType'
    BY <1>13 DEF Abort, End, Begin
  <2>. QED
    BY <2>1, <2>2, <2>3 DEF BaseType
<1>14. ASSUME NEW a \in Address, Import(a)
     PROVE  BaseType'
  <2>1. TableType'
    BY <1>14 DEF Import
  <2>2. RequestType'
    BY <1>14 DEF Import
  <2>3. RecordType'
    BY <1>14 DEF Import
  <2>. QED
    BY <2>1, <2>2, <2>3 DEF BaseType
<1>15. ASSUME NEW a \in Address, IntervalElapses(a)
     PROVE  BaseType'
  <2>1. TableType'
    BY <1>15 DEF IntervalElapses
  <2>2. RequestType'
    BY <1>15 DEF IntervalElapses
  <2>3. RecordType'
    BY <1>15 DEF IntervalElapses
  <2>. QED
    BY <2>1, <2>2, <2>3 DEF BaseType
<1>16. ASSUME NEW t \in Token, TokenExpires(t)
     PROVE  BaseType'
  <2>1. TableType'
    BY <1>16 DEF TokenExpires
  <2>2. RequestType'
    BY <1>16 DEF TokenExpires
  <2>3. RecordType'
    BY <1>16 DEF TokenExpires
  <2>. QED
    BY <2>1, <2>2, <2>3 DEF BaseType
<1>17. CASE UNCHANGED vars
  BY <1>17 DEF vars, Found, BaseType
<1>. QED
  BY <1>1, <1>2, <1>3, <1>4, <1>5, <1>6, <1>7, <1>8, <1>9, <1>10, <1>11, <1>12, <1>13, <1>14, <1>15, <1>16, <1>17 DEF Next, Serve

\* An id is given once, and every link was drawn.
LEMMA NextRows ==
  ASSUME TypeOK, RowsOK, RequestsOK, [Next]_vars
  PROVE  RowsOK'
<1> USE AddressAssumption, BoundsAssumption
    DEF TypeOK, BaseType, TableType, RequestType, RecordType, RowsOK, RequestsOK, Idle, table, request, ghost, crossed, About, LateBy, Token, Status, Step
<1>1. ASSUME NEW r \in Request, NEW a \in Address, SubscribeRead(r, a)
     PROVE  RowsOK'
  BY <1>1 DEF SubscribeRead, Begin, Idle, AnsweredAlready
<1>2. ASSUME NEW r \in Request, NEW a \in Address, LeaveRead(r, a)
     PROVE  RowsOK'
  BY <1>2 DEF LeaveRead, Begin, Idle
<1>3. ASSUME NEW r \in Request, NEW a \in Address, EraseRead(r, a)
     PROVE  RowsOK'
  BY <1>3 DEF EraseRead, Begin, Idle
<1>4. ASSUME NEW r \in Request, NEW a \in Address, NEW t \in Token, ConfirmRead(r, a, t)
     PROVE  RowsOK'
  BY <1>4 DEF ConfirmRead, Begin, Idle
<1>5. ASSUME NEW r \in Request, SubscribeUpdate(r)
     PROVE  RowsOK'
  BY <1>5 DEF SubscribeUpdate, Continue, Found, StatusOnRequest
<1>6. ASSUME NEW r \in Request, SubscribeCreate(r)
     PROVE  RowsOK'
  BY <1>6, SMTT(30) DEF SubscribeCreate, Continue
<1>7. ASSUME NEW r \in Request, SubscribeTooLate(r)
     PROVE  RowsOK'
  BY <1>7 DEF SubscribeTooLate, End, Begin
<1>8. ASSUME NEW r \in Request, SubscribeMail(r)
     PROVE  RowsOK'
  BY <1>8 DEF SubscribeMail, End, Begin
<1>9. ASSUME NEW r \in Request, ConfirmWrite(r)
     PROVE  RowsOK'
  BY <1>9 DEF ConfirmWrite, Continue, Found, HashAfterConfirm
<1>10. ASSUME NEW r \in Request, Welcome(r)
     PROVE  RowsOK'
  BY <1>10 DEF Welcome, End, Begin
<1>11. ASSUME NEW r \in Request, LeaveWrite(r)
     PROVE  RowsOK'
  BY <1>11 DEF LeaveWrite, End, Begin, Found, HashAfterLeave
<1>12. ASSUME NEW r \in Request, EraseWrite(r)
     PROVE  RowsOK'
  BY <1>12 DEF EraseWrite, End, Begin, Found, HistoryAfterErase
<1>13. ASSUME NEW r \in Request, Abort(r)
     PROVE  RowsOK'
  BY <1>13 DEF Abort, End, Begin
<1>14. ASSUME NEW a \in Address, Import(a)
     PROVE  RowsOK'
  BY <1>14 DEF Import
<1>15. ASSUME NEW a \in Address, IntervalElapses(a)
     PROVE  RowsOK'
  BY <1>15 DEF IntervalElapses
<1>16. ASSUME NEW t \in Token, TokenExpires(t)
     PROVE  RowsOK'
  BY <1>16 DEF TokenExpires
<1>17. CASE UNCHANGED vars
  BY <1>17 DEF vars, Found, TypeOK, BaseType
<1>. QED
  BY <1>1, <1>2, <1>3, <1>4, <1>5, <1>6, <1>7, <1>8, <1>9, <1>10, <1>11, <1>12, <1>13, <1>14, <1>15, <1>16, <1>17 DEF Next, Serve

\* A request in flight holds what its first step gave it.
LEMMA NextRequests ==
  ASSUME TypeOK, RowsOK, RequestsOK, LinkOnlyWhilePending, [Next]_vars
  PROVE  RequestsOK'
<1> USE AddressAssumption, BoundsAssumption
    DEF TypeOK, BaseType, TableType, RequestType, RecordType, RowsOK, RequestsOK, LinkOnlyWhilePending, Idle, table, request, ghost, crossed, About, LateBy, Token, Status, Step
<1>1. ASSUME NEW r \in Request, NEW a \in Address, SubscribeRead(r, a)
     PROVE  RequestsOK'
  BY <1>1 DEF SubscribeRead, Begin, Idle, AnsweredAlready
<1>2. ASSUME NEW r \in Request, NEW a \in Address, LeaveRead(r, a)
     PROVE  RequestsOK'
  BY <1>2 DEF LeaveRead, Begin, Idle
<1>3. ASSUME NEW r \in Request, NEW a \in Address, EraseRead(r, a)
     PROVE  RequestsOK'
  BY <1>3 DEF EraseRead, Begin, Idle
<1>4. ASSUME NEW r \in Request, NEW a \in Address, NEW t \in Token, ConfirmRead(r, a, t)
     PROVE  RequestsOK'
  BY <1>4 DEF ConfirmRead, Begin, Idle
<1>5. ASSUME NEW r \in Request, SubscribeUpdate(r)
     PROVE  RequestsOK'
  BY <1>5 DEF SubscribeUpdate, Continue, Found, StatusOnRequest
<1>6. ASSUME NEW r \in Request, SubscribeCreate(r)
     PROVE  RequestsOK'
  BY <1>6 DEF SubscribeCreate, Continue
<1>7. ASSUME NEW r \in Request, SubscribeTooLate(r)
     PROVE  RequestsOK'
  BY <1>7 DEF SubscribeTooLate, End, Begin
<1>8. ASSUME NEW r \in Request, SubscribeMail(r)
     PROVE  RequestsOK'
  BY <1>8 DEF SubscribeMail, End, Begin
<1>9. ASSUME NEW r \in Request, ConfirmWrite(r)
     PROVE  RequestsOK'
  BY <1>9 DEF ConfirmWrite, Continue, Found, HashAfterConfirm
<1>10. ASSUME NEW r \in Request, Welcome(r)
     PROVE  RequestsOK'
  BY <1>10 DEF Welcome, End, Begin
<1>11. ASSUME NEW r \in Request, LeaveWrite(r)
     PROVE  RequestsOK'
  BY <1>11 DEF LeaveWrite, End, Begin, Found, HashAfterLeave
<1>12. ASSUME NEW r \in Request, EraseWrite(r)
     PROVE  RequestsOK'
  BY <1>12 DEF EraseWrite, End, Begin, Found, HistoryAfterErase
<1>13. ASSUME NEW r \in Request, Abort(r)
     PROVE  RequestsOK'
  BY <1>13 DEF Abort, End, Begin
<1>14. ASSUME NEW a \in Address, Import(a)
     PROVE  RequestsOK'
  BY <1>14 DEF Import
<1>15. ASSUME NEW a \in Address, IntervalElapses(a)
     PROVE  RequestsOK'
  BY <1>15 DEF IntervalElapses
<1>16. ASSUME NEW t \in Token, TokenExpires(t)
     PROVE  RequestsOK'
  BY <1>16 DEF TokenExpires
<1>17. CASE UNCHANGED vars
  BY <1>17 DEF vars, Found, TypeOK, BaseType
<1>. QED
  BY <1>1, <1>2, <1>3, <1>4, <1>5, <1>6, <1>7, <1>8, <1>9, <1>10, <1>11, <1>12, <1>13, <1>14, <1>15, <1>16, <1>17 DEF Next, Serve

\* A link lives exactly as long as its row is pending.
LEMMA NextLink ==
  ASSUME TypeOK, RowsOK, RequestsOK, LinkOnlyWhilePending, [Next]_vars
  PROVE  LinkOnlyWhilePending'
<1> USE AddressAssumption, BoundsAssumption
    DEF TypeOK, BaseType, TableType, RequestType, RecordType, RowsOK, RequestsOK, LinkOnlyWhilePending, Idle, table, request, ghost, crossed, About, LateBy, Token, Status, Step
<1>1. ASSUME NEW r \in Request, NEW a \in Address, SubscribeRead(r, a)
     PROVE  LinkOnlyWhilePending'
  BY <1>1 DEF SubscribeRead, Begin, Idle, AnsweredAlready
<1>2. ASSUME NEW r \in Request, NEW a \in Address, LeaveRead(r, a)
     PROVE  LinkOnlyWhilePending'
  BY <1>2 DEF LeaveRead, Begin, Idle
<1>3. ASSUME NEW r \in Request, NEW a \in Address, EraseRead(r, a)
     PROVE  LinkOnlyWhilePending'
  BY <1>3 DEF EraseRead, Begin, Idle
<1>4. ASSUME NEW r \in Request, NEW a \in Address, NEW t \in Token, ConfirmRead(r, a, t)
     PROVE  LinkOnlyWhilePending'
  BY <1>4 DEF ConfirmRead, Begin, Idle
<1>5. ASSUME NEW r \in Request, SubscribeUpdate(r)
     PROVE  LinkOnlyWhilePending'
  BY <1>5 DEF SubscribeUpdate, Continue, Found, StatusOnRequest
<1>6. ASSUME NEW r \in Request, SubscribeCreate(r)
     PROVE  LinkOnlyWhilePending'
  BY <1>6 DEF SubscribeCreate, Continue
<1>7. ASSUME NEW r \in Request, SubscribeTooLate(r)
     PROVE  LinkOnlyWhilePending'
  BY <1>7 DEF SubscribeTooLate, End, Begin
<1>8. ASSUME NEW r \in Request, SubscribeMail(r)
     PROVE  LinkOnlyWhilePending'
  BY <1>8 DEF SubscribeMail, End, Begin
<1>9. ASSUME NEW r \in Request, ConfirmWrite(r)
     PROVE  LinkOnlyWhilePending'
  BY <1>9 DEF ConfirmWrite, Continue, Found, HashAfterConfirm
<1>10. ASSUME NEW r \in Request, Welcome(r)
     PROVE  LinkOnlyWhilePending'
  BY <1>10 DEF Welcome, End, Begin
<1>11. ASSUME NEW r \in Request, LeaveWrite(r)
     PROVE  LinkOnlyWhilePending'
  BY <1>11 DEF LeaveWrite, End, Begin, Found, HashAfterLeave
<1>12. ASSUME NEW r \in Request, EraseWrite(r)
     PROVE  LinkOnlyWhilePending'
  BY <1>12 DEF EraseWrite, End, Begin, Found, HistoryAfterErase
<1>13. ASSUME NEW r \in Request, Abort(r)
     PROVE  LinkOnlyWhilePending'
  BY <1>13 DEF Abort, End, Begin
<1>14. ASSUME NEW a \in Address, Import(a)
     PROVE  LinkOnlyWhilePending'
  BY <1>14 DEF Import
<1>15. ASSUME NEW a \in Address, IntervalElapses(a)
     PROVE  LinkOnlyWhilePending'
  BY <1>15 DEF IntervalElapses
<1>16. ASSUME NEW t \in Token, TokenExpires(t)
     PROVE  LinkOnlyWhilePending'
  BY <1>16 DEF TokenExpires
<1>17. CASE UNCHANGED vars
  BY <1>17 DEF vars, Found, TypeOK, BaseType
<1>. QED
  BY <1>1, <1>2, <1>3, <1>4, <1>5, <1>6, <1>7, <1>8, <1>9, <1>10, <1>11, <1>12, <1>13, <1>14, <1>15, <1>16, <1>17 DEF Next, Serve

\* A row becomes active with a consent behind it.
LEMMA NextActive ==
  ASSUME TypeOK, RowsOK, RequestsOK, ActiveConsented, [Next]_vars
  PROVE  ActiveConsented'
<1> USE AddressAssumption, BoundsAssumption
    DEF TypeOK, BaseType, TableType, RequestType, RecordType, RowsOK, RequestsOK, ActiveConsented, Idle, table, request, ghost, crossed, About, LateBy, Token, Status, Step
<1>1. ASSUME NEW r \in Request, NEW a \in Address, SubscribeRead(r, a)
     PROVE  ActiveConsented'
  BY <1>1 DEF SubscribeRead, Begin, Idle, AnsweredAlready
<1>2. ASSUME NEW r \in Request, NEW a \in Address, LeaveRead(r, a)
     PROVE  ActiveConsented'
  BY <1>2 DEF LeaveRead, Begin, Idle
<1>3. ASSUME NEW r \in Request, NEW a \in Address, EraseRead(r, a)
     PROVE  ActiveConsented'
  BY <1>3 DEF EraseRead, Begin, Idle
<1>4. ASSUME NEW r \in Request, NEW a \in Address, NEW t \in Token, ConfirmRead(r, a, t)
     PROVE  ActiveConsented'
  BY <1>4 DEF ConfirmRead, Begin, Idle
<1>5. ASSUME NEW r \in Request, SubscribeUpdate(r)
     PROVE  ActiveConsented'
  BY <1>5 DEF SubscribeUpdate, Continue, Found, StatusOnRequest
<1>6. ASSUME NEW r \in Request, SubscribeCreate(r)
     PROVE  ActiveConsented'
  BY <1>6 DEF SubscribeCreate, Continue
<1>7. ASSUME NEW r \in Request, SubscribeTooLate(r)
     PROVE  ActiveConsented'
  BY <1>7 DEF SubscribeTooLate, End, Begin
<1>8. ASSUME NEW r \in Request, SubscribeMail(r)
     PROVE  ActiveConsented'
  BY <1>8 DEF SubscribeMail, End, Begin
<1>9. ASSUME NEW r \in Request, ConfirmWrite(r)
     PROVE  ActiveConsented'
  BY <1>9 DEF ConfirmWrite, Continue, Found, HashAfterConfirm
<1>10. ASSUME NEW r \in Request, Welcome(r)
     PROVE  ActiveConsented'
  BY <1>10 DEF Welcome, End, Begin
<1>11. ASSUME NEW r \in Request, LeaveWrite(r)
     PROVE  ActiveConsented'
  BY <1>11 DEF LeaveWrite, End, Begin, Found, HashAfterLeave
<1>12. ASSUME NEW r \in Request, EraseWrite(r)
     PROVE  ActiveConsented'
  BY <1>12 DEF EraseWrite, End, Begin, Found, HistoryAfterErase
<1>13. ASSUME NEW r \in Request, Abort(r)
     PROVE  ActiveConsented'
  BY <1>13 DEF Abort, End, Begin
<1>14. ASSUME NEW a \in Address, Import(a)
     PROVE  ActiveConsented'
  BY <1>14 DEF Import
<1>15. ASSUME NEW a \in Address, IntervalElapses(a)
     PROVE  ActiveConsented'
  BY <1>15 DEF IntervalElapses
<1>16. ASSUME NEW t \in Token, TokenExpires(t)
     PROVE  ActiveConsented'
  BY <1>16 DEF TokenExpires
<1>17. CASE UNCHANGED vars
  BY <1>17 DEF vars, Found, TypeOK, BaseType
<1>. QED
  BY <1>1, <1>2, <1>3, <1>4, <1>5, <1>6, <1>7, <1>8, <1>9, <1>10, <1>11, <1>12, <1>13, <1>14, <1>15, <1>16, <1>17 DEF Next, Serve

\* Only requests in flight are overtaken.
LEMMA NextCrossed ==
  ASSUME BaseType, CrossedType, RequestsOK, [Next]_vars
  PROVE  CrossedType'
<1> USE AddressAssumption, BoundsAssumption
    DEF BaseType, CrossedType, TableType, RequestType, RecordType, RequestsOK, Idle, table, request, ghost, crossed, About, LateBy, Token, Status, Step
<1>1. ASSUME NEW r \in Request, NEW a \in Address, SubscribeRead(r, a)
     PROVE  CrossedType'
  BY <1>1 DEF SubscribeRead, Begin, Idle, AnsweredAlready
<1>2. ASSUME NEW r \in Request, NEW a \in Address, LeaveRead(r, a)
     PROVE  CrossedType'
  BY <1>2 DEF LeaveRead, Begin, Idle
<1>3. ASSUME NEW r \in Request, NEW a \in Address, EraseRead(r, a)
     PROVE  CrossedType'
  BY <1>3 DEF EraseRead, Begin, Idle
<1>4. ASSUME NEW r \in Request, NEW a \in Address, NEW t \in Token, ConfirmRead(r, a, t)
     PROVE  CrossedType'
  BY <1>4 DEF ConfirmRead, Begin, Idle
<1>5. ASSUME NEW r \in Request, SubscribeUpdate(r)
     PROVE  CrossedType'
  BY <1>5 DEF SubscribeUpdate, Continue, Found, StatusOnRequest
<1>6. ASSUME NEW r \in Request, SubscribeCreate(r)
     PROVE  CrossedType'
  BY <1>6 DEF SubscribeCreate, Continue
<1>7. ASSUME NEW r \in Request, SubscribeTooLate(r)
     PROVE  CrossedType'
  BY <1>7 DEF SubscribeTooLate, End, Begin
<1>8. ASSUME NEW r \in Request, SubscribeMail(r)
     PROVE  CrossedType'
  BY <1>8 DEF SubscribeMail, End, Begin
<1>9. ASSUME NEW r \in Request, ConfirmWrite(r)
     PROVE  CrossedType'
  BY <1>9 DEF ConfirmWrite, Continue, Found, HashAfterConfirm
<1>10. ASSUME NEW r \in Request, Welcome(r)
     PROVE  CrossedType'
  BY <1>10 DEF Welcome, End, Begin
<1>11. ASSUME NEW r \in Request, LeaveWrite(r)
     PROVE  CrossedType'
  BY <1>11 DEF LeaveWrite, End, Begin, Found, HashAfterLeave
<1>12. ASSUME NEW r \in Request, EraseWrite(r)
     PROVE  CrossedType'
  BY <1>12 DEF EraseWrite, End, Begin, Found, HistoryAfterErase
<1>13. ASSUME NEW r \in Request, Abort(r)
     PROVE  CrossedType'
  BY <1>13 DEF Abort, End, Begin
<1>14. ASSUME NEW a \in Address, Import(a)
     PROVE  CrossedType'
  BY <1>14 DEF Import
<1>15. ASSUME NEW a \in Address, IntervalElapses(a)
     PROVE  CrossedType'
  BY <1>15 DEF IntervalElapses
<1>16. ASSUME NEW t \in Token, TokenExpires(t)
     PROVE  CrossedType'
  BY <1>16 DEF TokenExpires
<1>17. CASE UNCHANGED vars
  BY <1>17 DEF vars, Found, TypeOK
<1>. QED
  BY <1>1, <1>2, <1>3, <1>4, <1>5, <1>6, <1>7, <1>8, <1>9, <1>10, <1>11, <1>12, <1>13, <1>14, <1>15, <1>16, <1>17 DEF Next, Serve

LEMMA NextIInv == ASSUME IInv, [Next]_vars PROVE IInv'
BY NextType, NextCrossed, NextRows, NextRequests, NextLink, NextActive DEF IInv, TypeOK, BaseType

\* Types, ids, links and consents, however many requests overlap.
THEOREM Invariance == Spec => []IInv
<1>. QED
  BY InitIInv, NextIInv, PTL DEF Spec

\* No link outlives a confirmation or a departure (confirm, leave).
THEOREM LinksHold == Spec => []LinkOnlyWhilePending
<1>1. IInv => LinkOnlyWhilePending
  BY DEF IInv
<1>. QED
  BY <1>1, Invariance, PTL

\* Nobody is on the list without a consent (confirm, import).
THEOREM ConsentHolds == Spec => []ActiveConsented
<1>1. IInv => ActiveConsented
  BY DEF IInv
<1>. QED
  BY <1>1, Invariance, PTL

-----------------------------------------------------------------------------
(* A request that nobody overtook writes over what it read. *)

LEMMA InitCurrent == Init => CurrentInv
<1>1. Init => IInv
  BY InitIInv
<1>. QED
  BY <1>1, BoundsAssumption
     DEF Init, CurrentInv, ReadsCurrent, TokensOK, Unused, SingleRow, Undrawn, Fresh,
         Followed, ErasedAbsent, ErasedForgotten

\* Nothing changes under a request that is not overtaken.
LEMMA NextReads ==
  ASSUME IInv, ReadsCurrent, TokensOK, ErasedAbsent, [Next]_vars
  PROVE  ReadsCurrent'
<1> USE AddressAssumption, BoundsAssumption
    DEF IInv, TypeOK, BaseType, CrossedType, TableType, RequestType, RecordType, RowsOK, RequestsOK, LinkOnlyWhilePending, ReadsCurrent, TokensOK, Unused, SingleRow, Undrawn, Fresh, Followed, ErasedAbsent, Idle, Found, table, request, ghost, crossed, About, LateBy, Token, Status, Step
<1>1. ASSUME NEW r \in Request, NEW a \in Address, SubscribeRead(r, a)
     PROVE  ReadsCurrent'
  BY <1>1 DEF SubscribeRead, Begin, Idle, AnsweredAlready
<1>2. ASSUME NEW r \in Request, NEW a \in Address, LeaveRead(r, a)
     PROVE  ReadsCurrent'
  BY <1>2 DEF LeaveRead, Begin, Idle
<1>3. ASSUME NEW r \in Request, NEW a \in Address, EraseRead(r, a)
     PROVE  ReadsCurrent'
  BY <1>3 DEF EraseRead, Begin, Idle
<1>4. ASSUME NEW r \in Request, NEW a \in Address, NEW t \in Token, ConfirmRead(r, a, t)
     PROVE  ReadsCurrent'
  BY <1>4 DEF ConfirmRead, Begin, Idle
<1>5. ASSUME NEW r \in Request, SubscribeUpdate(r)
     PROVE  ReadsCurrent'
  BY <1>5 DEF SubscribeUpdate, Continue, Found, StatusOnRequest
<1>6. ASSUME NEW r \in Request, SubscribeCreate(r)
     PROVE  ReadsCurrent'
  BY <1>6 DEF SubscribeCreate, Continue
<1>7. ASSUME NEW r \in Request, SubscribeTooLate(r)
     PROVE  ReadsCurrent'
  BY <1>7 DEF SubscribeTooLate, End, Begin
<1>8. ASSUME NEW r \in Request, SubscribeMail(r)
     PROVE  ReadsCurrent'
  BY <1>8 DEF SubscribeMail, End, Begin
<1>9. ASSUME NEW r \in Request, ConfirmWrite(r)
     PROVE  ReadsCurrent'
  <2>1. target[r] \in Address /\ rowRead[r] # 0 /\ id[target[r]] = rowRead[r]
    BY <1>9 DEF ConfirmWrite
  <2>2. target[r] \notin erased \ late
    BY <2>1
  <2>3. /\ \A q \in Request \ overtaken' : q # r => q \notin overtaken /\ (step[q] # "none" => target[q] # target[r])
        /\ UNCHANGED <<target, rowRead, drawn, erased, late, id>>
        /\ \A q \in Request : q # r => step'[q] = step[q]
        /\ step'[r] = "welcome"
    BY <1>9 DEF ConfirmWrite, Continue
  <2>4. \A b \in Address : b # target[r] => status'[b] = status[b] /\ hash'[b] = hash[b]
    BY <1>9, <2>1 DEF ConfirmWrite
  <2>5. ASSUME NEW q \in Request \ overtaken', q # r
        PROVE  /\ step[q] = "confirm" =>
                    status'[target[q]] = "PENDING" /\ hash'[target[q]] = drawn[q]
               /\ step[q] = "subscribe" /\ rowRead[q] # 0 /\ id[target[q]] = rowRead[q]
                    => status'[target[q]] # "ACTIVE"
               /\ step[q] \in {"subscribe", "mail", "welcome"} => target[q] \notin erased \ late
    BY <2>3, <2>4, <2>5
  <2>. QED
    BY <2>2, <2>3, <2>5
<1>10. ASSUME NEW r \in Request, Welcome(r)
     PROVE  ReadsCurrent'
  BY <1>10 DEF Welcome, End, Begin
<1>11. ASSUME NEW r \in Request, LeaveWrite(r)
     PROVE  ReadsCurrent'
  BY <1>11 DEF LeaveWrite, End, Begin, Found, HashAfterLeave
<1>12. ASSUME NEW r \in Request, EraseWrite(r)
     PROVE  ReadsCurrent'
  BY <1>12 DEF EraseWrite, End, Begin, Found, HistoryAfterErase
<1>13. ASSUME NEW r \in Request, Abort(r)
     PROVE  ReadsCurrent'
  BY <1>13 DEF Abort, End, Begin
<1>14. ASSUME NEW a \in Address, Import(a)
     PROVE  ReadsCurrent'
  BY <1>14 DEF Import
<1>15. ASSUME NEW a \in Address, IntervalElapses(a)
     PROVE  ReadsCurrent'
  BY <1>15 DEF IntervalElapses
<1>16. ASSUME NEW t \in Token, TokenExpires(t)
     PROVE  ReadsCurrent'
  BY <1>16 DEF TokenExpires
<1>17. CASE UNCHANGED vars
  BY <1>17 DEF vars, Found, TypeOK
<1>. QED
  BY <1>1, <1>2, <1>3, <1>4, <1>5, <1>6, <1>7, <1>8, <1>9, <1>10, <1>11, <1>12, <1>13, <1>14, <1>15, <1>16, <1>17 DEF Next, Serve

\* A token that was used is behind no row.
LEMMA NextUnused ==
  ASSUME IInv, TokensOK, [Next]_vars
  PROVE  Unused'
<1> USE AddressAssumption, BoundsAssumption
    DEF IInv, TypeOK, BaseType, CrossedType, TableType, RequestType, RecordType, RowsOK, RequestsOK, TokensOK, Unused, SingleRow, Undrawn, Fresh, Followed, Idle, Found, table, request, ghost, crossed, About, LateBy, Token, Status, Step
<1>1. ASSUME NEW r \in Request, NEW a \in Address, SubscribeRead(r, a)
     PROVE  Unused'
  BY <1>1 DEF SubscribeRead, Begin, Idle, AnsweredAlready
<1>2. ASSUME NEW r \in Request, NEW a \in Address, LeaveRead(r, a)
     PROVE  Unused'
  BY <1>2 DEF LeaveRead, Begin, Idle
<1>3. ASSUME NEW r \in Request, NEW a \in Address, EraseRead(r, a)
     PROVE  Unused'
  BY <1>3 DEF EraseRead, Begin, Idle
<1>4. ASSUME NEW r \in Request, NEW a \in Address, NEW t \in Token, ConfirmRead(r, a, t)
     PROVE  Unused'
  BY <1>4 DEF ConfirmRead, Begin, Idle
<1>5. ASSUME NEW r \in Request, SubscribeUpdate(r)
     PROVE  Unused'
  BY <1>5 DEF SubscribeUpdate, Continue, Found, StatusOnRequest
<1>6. ASSUME NEW r \in Request, SubscribeCreate(r)
     PROVE  Unused'
  BY <1>6 DEF SubscribeCreate, Continue
<1>7. ASSUME NEW r \in Request, SubscribeTooLate(r)
     PROVE  Unused'
  BY <1>7 DEF SubscribeTooLate, End, Begin
<1>8. ASSUME NEW r \in Request, SubscribeMail(r)
     PROVE  Unused'
  BY <1>8 DEF SubscribeMail, End, Begin
<1>9. ASSUME NEW r \in Request, ConfirmWrite(r)
     PROVE  Unused'
  BY <1>9 DEF ConfirmWrite, Continue, Found, HashAfterConfirm
<1>10. ASSUME NEW r \in Request, Welcome(r)
     PROVE  Unused'
  BY <1>10 DEF Welcome, End, Begin
<1>11. ASSUME NEW r \in Request, LeaveWrite(r)
     PROVE  Unused'
  BY <1>11 DEF LeaveWrite, End, Begin, Found, HashAfterLeave
<1>12. ASSUME NEW r \in Request, EraseWrite(r)
     PROVE  Unused'
  BY <1>12 DEF EraseWrite, End, Begin, Found, HistoryAfterErase
<1>13. ASSUME NEW r \in Request, Abort(r)
     PROVE  Unused'
  BY <1>13 DEF Abort, End, Begin
<1>14. ASSUME NEW a \in Address, Import(a)
     PROVE  Unused'
  BY <1>14 DEF Import
<1>15. ASSUME NEW a \in Address, IntervalElapses(a)
     PROVE  Unused'
  BY <1>15 DEF IntervalElapses
<1>16. ASSUME NEW t \in Token, TokenExpires(t)
     PROVE  Unused'
  BY <1>16 DEF TokenExpires
<1>17. CASE UNCHANGED vars
  BY <1>17 DEF vars, Found, TypeOK
<1>. QED
  BY <1>1, <1>2, <1>3, <1>4, <1>5, <1>6, <1>7, <1>8, <1>9, <1>10, <1>11, <1>12, <1>13, <1>14, <1>15, <1>16, <1>17 DEF Next, Serve

\* A token is behind one row.
LEMMA NextSingleRow ==
  ASSUME IInv, TokensOK, [Next]_vars
  PROVE  SingleRow'
<1> USE AddressAssumption, BoundsAssumption
    DEF IInv, TypeOK, BaseType, CrossedType, TableType, RequestType, RecordType, RowsOK, RequestsOK, TokensOK, Unused, SingleRow, Undrawn, Fresh, Followed, Idle, Found, table, request, ghost, crossed, About, LateBy, Token, Status, Step
<1>1. ASSUME NEW r \in Request, NEW a \in Address, SubscribeRead(r, a)
     PROVE  SingleRow'
  BY <1>1 DEF SubscribeRead, Begin, Idle, AnsweredAlready
<1>2. ASSUME NEW r \in Request, NEW a \in Address, LeaveRead(r, a)
     PROVE  SingleRow'
  BY <1>2 DEF LeaveRead, Begin, Idle
<1>3. ASSUME NEW r \in Request, NEW a \in Address, EraseRead(r, a)
     PROVE  SingleRow'
  BY <1>3 DEF EraseRead, Begin, Idle
<1>4. ASSUME NEW r \in Request, NEW a \in Address, NEW t \in Token, ConfirmRead(r, a, t)
     PROVE  SingleRow'
  BY <1>4 DEF ConfirmRead, Begin, Idle
<1>5. ASSUME NEW r \in Request, SubscribeUpdate(r)
     PROVE  SingleRow'
  BY <1>5 DEF SubscribeUpdate, Continue, Found, StatusOnRequest
<1>6. ASSUME NEW r \in Request, SubscribeCreate(r)
     PROVE  SingleRow'
  BY <1>6 DEF SubscribeCreate, Continue
<1>7. ASSUME NEW r \in Request, SubscribeTooLate(r)
     PROVE  SingleRow'
  BY <1>7 DEF SubscribeTooLate, End, Begin
<1>8. ASSUME NEW r \in Request, SubscribeMail(r)
     PROVE  SingleRow'
  BY <1>8 DEF SubscribeMail, End, Begin
<1>9. ASSUME NEW r \in Request, ConfirmWrite(r)
     PROVE  SingleRow'
  BY <1>9 DEF ConfirmWrite, Continue, Found, HashAfterConfirm
<1>10. ASSUME NEW r \in Request, Welcome(r)
     PROVE  SingleRow'
  BY <1>10 DEF Welcome, End, Begin
<1>11. ASSUME NEW r \in Request, LeaveWrite(r)
     PROVE  SingleRow'
  BY <1>11 DEF LeaveWrite, End, Begin, Found, HashAfterLeave
<1>12. ASSUME NEW r \in Request, EraseWrite(r)
     PROVE  SingleRow'
  BY <1>12 DEF EraseWrite, End, Begin, Found, HistoryAfterErase
<1>13. ASSUME NEW r \in Request, Abort(r)
     PROVE  SingleRow'
  BY <1>13 DEF Abort, End, Begin
<1>14. ASSUME NEW a \in Address, Import(a)
     PROVE  SingleRow'
  BY <1>14 DEF Import
<1>15. ASSUME NEW a \in Address, IntervalElapses(a)
     PROVE  SingleRow'
  BY <1>15 DEF IntervalElapses
<1>16. ASSUME NEW t \in Token, TokenExpires(t)
     PROVE  SingleRow'
  BY <1>16 DEF TokenExpires
<1>17. CASE UNCHANGED vars
  BY <1>17 DEF vars, Found, TypeOK
<1>. QED
  BY <1>1, <1>2, <1>3, <1>4, <1>5, <1>6, <1>7, <1>8, <1>9, <1>10, <1>11, <1>12, <1>13, <1>14, <1>15, <1>16, <1>17 DEF Next, Serve

\* A link that is mailed was drawn.
LEMMA NextUndrawn ==
  ASSUME IInv, TokensOK, [Next]_vars
  PROVE  Undrawn'
<1> USE AddressAssumption, BoundsAssumption
    DEF IInv, TypeOK, BaseType, CrossedType, TableType, RequestType, RecordType, RowsOK, RequestsOK, TokensOK, Unused, SingleRow, Undrawn, Fresh, Followed, Idle, Found, table, request, ghost, crossed, About, LateBy, Token, Status, Step
<1>1. ASSUME NEW r \in Request, NEW a \in Address, SubscribeRead(r, a)
     PROVE  Undrawn'
  BY <1>1 DEF SubscribeRead, Begin, Idle, AnsweredAlready
<1>2. ASSUME NEW r \in Request, NEW a \in Address, LeaveRead(r, a)
     PROVE  Undrawn'
  BY <1>2 DEF LeaveRead, Begin, Idle
<1>3. ASSUME NEW r \in Request, NEW a \in Address, EraseRead(r, a)
     PROVE  Undrawn'
  BY <1>3 DEF EraseRead, Begin, Idle
<1>4. ASSUME NEW r \in Request, NEW a \in Address, NEW t \in Token, ConfirmRead(r, a, t)
     PROVE  Undrawn'
  BY <1>4 DEF ConfirmRead, Begin, Idle
<1>5. ASSUME NEW r \in Request, SubscribeUpdate(r)
     PROVE  Undrawn'
  BY <1>5 DEF SubscribeUpdate, Continue, Found, StatusOnRequest
<1>6. ASSUME NEW r \in Request, SubscribeCreate(r)
     PROVE  Undrawn'
  BY <1>6 DEF SubscribeCreate, Continue
<1>7. ASSUME NEW r \in Request, SubscribeTooLate(r)
     PROVE  Undrawn'
  BY <1>7 DEF SubscribeTooLate, End, Begin
<1>8. ASSUME NEW r \in Request, SubscribeMail(r)
     PROVE  Undrawn'
  BY <1>8 DEF SubscribeMail, End, Begin
<1>9. ASSUME NEW r \in Request, ConfirmWrite(r)
     PROVE  Undrawn'
  BY <1>9 DEF ConfirmWrite, Continue, Found, HashAfterConfirm
<1>10. ASSUME NEW r \in Request, Welcome(r)
     PROVE  Undrawn'
  BY <1>10 DEF Welcome, End, Begin
<1>11. ASSUME NEW r \in Request, LeaveWrite(r)
     PROVE  Undrawn'
  BY <1>11 DEF LeaveWrite, End, Begin, Found, HashAfterLeave
<1>12. ASSUME NEW r \in Request, EraseWrite(r)
     PROVE  Undrawn'
  BY <1>12 DEF EraseWrite, End, Begin, Found, HistoryAfterErase
<1>13. ASSUME NEW r \in Request, Abort(r)
     PROVE  Undrawn'
  BY <1>13 DEF Abort, End, Begin
<1>14. ASSUME NEW a \in Address, Import(a)
     PROVE  Undrawn'
  BY <1>14 DEF Import
<1>15. ASSUME NEW a \in Address, IntervalElapses(a)
     PROVE  Undrawn'
  BY <1>15 DEF IntervalElapses
<1>16. ASSUME NEW t \in Token, TokenExpires(t)
     PROVE  Undrawn'
  BY <1>16 DEF TokenExpires
<1>17. CASE UNCHANGED vars
  BY <1>17 DEF vars, Found, TypeOK
<1>. QED
  BY <1>1, <1>2, <1>3, <1>4, <1>5, <1>6, <1>7, <1>8, <1>9, <1>10, <1>11, <1>12, <1>13, <1>14, <1>15, <1>16, <1>17 DEF Next, Serve

\* A token is its request's alone until it is written.
LEMMA NextFresh ==
  ASSUME IInv, TokensOK, [Next]_vars
  PROVE  Fresh'
<1> USE AddressAssumption, BoundsAssumption
    DEF IInv, TypeOK, BaseType, CrossedType, TableType, RequestType, RecordType, RowsOK, RequestsOK, TokensOK, Unused, SingleRow, Undrawn, Fresh, Followed, Idle, Found, table, request, ghost, crossed, About, LateBy, Token, Status, Step
<1>1. ASSUME NEW r \in Request, NEW a \in Address, SubscribeRead(r, a)
     PROVE  Fresh'
  BY <1>1 DEF SubscribeRead, Begin, Idle, AnsweredAlready
<1>2. ASSUME NEW r \in Request, NEW a \in Address, LeaveRead(r, a)
     PROVE  Fresh'
  BY <1>2 DEF LeaveRead, Begin, Idle
<1>3. ASSUME NEW r \in Request, NEW a \in Address, EraseRead(r, a)
     PROVE  Fresh'
  BY <1>3 DEF EraseRead, Begin, Idle
<1>4. ASSUME NEW r \in Request, NEW a \in Address, NEW t \in Token, ConfirmRead(r, a, t)
     PROVE  Fresh'
  BY <1>4 DEF ConfirmRead, Begin, Idle
<1>5. ASSUME NEW r \in Request, SubscribeUpdate(r)
     PROVE  Fresh'
  BY <1>5 DEF SubscribeUpdate, Continue, Found, StatusOnRequest
<1>6. ASSUME NEW r \in Request, SubscribeCreate(r)
     PROVE  Fresh'
  BY <1>6 DEF SubscribeCreate, Continue
<1>7. ASSUME NEW r \in Request, SubscribeTooLate(r)
     PROVE  Fresh'
  BY <1>7 DEF SubscribeTooLate, End, Begin
<1>8. ASSUME NEW r \in Request, SubscribeMail(r)
     PROVE  Fresh'
  BY <1>8 DEF SubscribeMail, End, Begin
<1>9. ASSUME NEW r \in Request, ConfirmWrite(r)
     PROVE  Fresh'
  BY <1>9 DEF ConfirmWrite, Continue, Found, HashAfterConfirm
<1>10. ASSUME NEW r \in Request, Welcome(r)
     PROVE  Fresh'
  BY <1>10 DEF Welcome, End, Begin
<1>11. ASSUME NEW r \in Request, LeaveWrite(r)
     PROVE  Fresh'
  BY <1>11 DEF LeaveWrite, End, Begin, Found, HashAfterLeave
<1>12. ASSUME NEW r \in Request, EraseWrite(r)
     PROVE  Fresh'
  BY <1>12 DEF EraseWrite, End, Begin, Found, HistoryAfterErase
<1>13. ASSUME NEW r \in Request, Abort(r)
     PROVE  Fresh'
  BY <1>13 DEF Abort, End, Begin
<1>14. ASSUME NEW a \in Address, Import(a)
     PROVE  Fresh'
  BY <1>14 DEF Import
<1>15. ASSUME NEW a \in Address, IntervalElapses(a)
     PROVE  Fresh'
  BY <1>15 DEF IntervalElapses
<1>16. ASSUME NEW t \in Token, TokenExpires(t)
     PROVE  Fresh'
  BY <1>16 DEF TokenExpires
<1>17. CASE UNCHANGED vars
  BY <1>17 DEF vars, Found, TypeOK
<1>. QED
  BY <1>1, <1>2, <1>3, <1>4, <1>5, <1>6, <1>7, <1>8, <1>9, <1>10, <1>11, <1>12, <1>13, <1>14, <1>15, <1>16, <1>17 DEF Next, Serve

\* The link that is followed was mailed, and is that of one address.
LEMMA NextFollowed ==
  ASSUME IInv, TokensOK, [Next]_vars
  PROVE  Followed'
<1> USE AddressAssumption, BoundsAssumption
    DEF IInv, TypeOK, BaseType, CrossedType, TableType, RequestType, RecordType, RowsOK, RequestsOK, TokensOK, Unused, SingleRow, Undrawn, Fresh, Followed, Idle, Found, table, request, ghost, crossed, About, LateBy, Token, Status, Step
<1>1. ASSUME NEW r \in Request, NEW a \in Address, SubscribeRead(r, a)
     PROVE  Followed'
  BY <1>1 DEF SubscribeRead, Begin, Idle, AnsweredAlready
<1>2. ASSUME NEW r \in Request, NEW a \in Address, LeaveRead(r, a)
     PROVE  Followed'
  BY <1>2 DEF LeaveRead, Begin, Idle
<1>3. ASSUME NEW r \in Request, NEW a \in Address, EraseRead(r, a)
     PROVE  Followed'
  BY <1>3 DEF EraseRead, Begin, Idle
<1>4. ASSUME NEW r \in Request, NEW a \in Address, NEW t \in Token, ConfirmRead(r, a, t)
     PROVE  Followed'
  BY <1>4 DEF ConfirmRead, Begin, Idle
<1>5. ASSUME NEW r \in Request, SubscribeUpdate(r)
     PROVE  Followed'
  BY <1>5 DEF SubscribeUpdate, Continue, Found, StatusOnRequest
<1>6. ASSUME NEW r \in Request, SubscribeCreate(r)
     PROVE  Followed'
  BY <1>6 DEF SubscribeCreate, Continue
<1>7. ASSUME NEW r \in Request, SubscribeTooLate(r)
     PROVE  Followed'
  BY <1>7 DEF SubscribeTooLate, End, Begin
<1>8. ASSUME NEW r \in Request, SubscribeMail(r)
     PROVE  Followed'
  BY <1>8 DEF SubscribeMail, End, Begin
<1>9. ASSUME NEW r \in Request, ConfirmWrite(r)
     PROVE  Followed'
  BY <1>9 DEF ConfirmWrite, Continue, Found, HashAfterConfirm
<1>10. ASSUME NEW r \in Request, Welcome(r)
     PROVE  Followed'
  BY <1>10 DEF Welcome, End, Begin
<1>11. ASSUME NEW r \in Request, LeaveWrite(r)
     PROVE  Followed'
  BY <1>11 DEF LeaveWrite, End, Begin, Found, HashAfterLeave
<1>12. ASSUME NEW r \in Request, EraseWrite(r)
     PROVE  Followed'
  BY <1>12 DEF EraseWrite, End, Begin, Found, HistoryAfterErase
<1>13. ASSUME NEW r \in Request, Abort(r)
     PROVE  Followed'
  BY <1>13 DEF Abort, End, Begin
<1>14. ASSUME NEW a \in Address, Import(a)
     PROVE  Followed'
  BY <1>14 DEF Import
<1>15. ASSUME NEW a \in Address, IntervalElapses(a)
     PROVE  Followed'
  BY <1>15 DEF IntervalElapses
<1>16. ASSUME NEW t \in Token, TokenExpires(t)
     PROVE  Followed'
  BY <1>16 DEF TokenExpires
<1>17. CASE UNCHANGED vars
  BY <1>17 DEF vars, Found, TypeOK
<1>. QED
  BY <1>1, <1>2, <1>3, <1>4, <1>5, <1>6, <1>7, <1>8, <1>9, <1>10, <1>11, <1>12, <1>13, <1>14, <1>15, <1>16, <1>17 DEF Next, Serve

\* An erased address has no row.
LEMMA NextErased ==
  ASSUME IInv, ReadsCurrent, TokensOK, ErasedAbsent, [Next]_vars
  PROVE  ErasedAbsent'
<1> USE AddressAssumption, BoundsAssumption
    DEF IInv, TypeOK, BaseType, CrossedType, TableType, RequestType, RecordType, RowsOK, RequestsOK, LinkOnlyWhilePending, ReadsCurrent, TokensOK, Unused, SingleRow, Undrawn, Fresh, Followed, ErasedAbsent, Idle, Found, table, request, ghost, crossed, About, LateBy, Token, Status, Step
<1>1. ASSUME NEW r \in Request, NEW a \in Address, SubscribeRead(r, a)
     PROVE  ErasedAbsent'
  BY <1>1 DEF SubscribeRead, Begin, Idle, AnsweredAlready
<1>2. ASSUME NEW r \in Request, NEW a \in Address, LeaveRead(r, a)
     PROVE  ErasedAbsent'
  BY <1>2 DEF LeaveRead, Begin, Idle
<1>3. ASSUME NEW r \in Request, NEW a \in Address, EraseRead(r, a)
     PROVE  ErasedAbsent'
  BY <1>3 DEF EraseRead, Begin, Idle
<1>4. ASSUME NEW r \in Request, NEW a \in Address, NEW t \in Token, ConfirmRead(r, a, t)
     PROVE  ErasedAbsent'
  BY <1>4 DEF ConfirmRead, Begin, Idle
<1>5. ASSUME NEW r \in Request, SubscribeUpdate(r)
     PROVE  ErasedAbsent'
  BY <1>5 DEF SubscribeUpdate, Continue, Found, StatusOnRequest
<1>6. ASSUME NEW r \in Request, SubscribeCreate(r)
     PROVE  ErasedAbsent'
  BY <1>6 DEF SubscribeCreate, Continue
<1>7. ASSUME NEW r \in Request, SubscribeTooLate(r)
     PROVE  ErasedAbsent'
  BY <1>7 DEF SubscribeTooLate, End, Begin
<1>8. ASSUME NEW r \in Request, SubscribeMail(r)
     PROVE  ErasedAbsent'
  BY <1>8 DEF SubscribeMail, End, Begin
<1>9. ASSUME NEW r \in Request, ConfirmWrite(r)
     PROVE  ErasedAbsent'
  BY <1>9 DEF ConfirmWrite, Continue, Found, HashAfterConfirm
<1>10. ASSUME NEW r \in Request, Welcome(r)
     PROVE  ErasedAbsent'
  BY <1>10 DEF Welcome, End, Begin
<1>11. ASSUME NEW r \in Request, LeaveWrite(r)
     PROVE  ErasedAbsent'
  BY <1>11 DEF LeaveWrite, End, Begin, Found, HashAfterLeave
<1>12. ASSUME NEW r \in Request, EraseWrite(r)
     PROVE  ErasedAbsent'
  BY <1>12 DEF EraseWrite, End, Begin, Found, HistoryAfterErase
<1>13. ASSUME NEW r \in Request, Abort(r)
     PROVE  ErasedAbsent'
  BY <1>13 DEF Abort, End, Begin
<1>14. ASSUME NEW a \in Address, Import(a)
     PROVE  ErasedAbsent'
  BY <1>14 DEF Import
<1>15. ASSUME NEW a \in Address, IntervalElapses(a)
     PROVE  ErasedAbsent'
  BY <1>15 DEF IntervalElapses
<1>16. ASSUME NEW t \in Token, TokenExpires(t)
     PROVE  ErasedAbsent'
  BY <1>16 DEF TokenExpires
<1>17. CASE UNCHANGED vars
  BY <1>17 DEF vars, Found, TypeOK
<1>. QED
  BY <1>1, <1>2, <1>3, <1>4, <1>5, <1>6, <1>7, <1>8, <1>9, <1>10, <1>11, <1>12, <1>13, <1>14, <1>15, <1>16, <1>17 DEF Next, Serve

\* Nothing is sent to an erased address.
LEMMA NextForgotten ==
  ASSUME IInv, ReadsCurrent, TokensOK, ErasedAbsent, ErasedForgotten, [Next]_vars
  PROVE  ErasedForgotten'
<1> USE AddressAssumption, BoundsAssumption
    DEF IInv, TypeOK, BaseType, CrossedType, TableType, RequestType, RecordType, RowsOK, RequestsOK, LinkOnlyWhilePending, ReadsCurrent, TokensOK, Unused, SingleRow, Undrawn, Fresh, Followed, ErasedAbsent, Idle, Found, ErasedForgotten, table, request, ghost, crossed, About, LateBy, Token, Status, Step
<1>1. ASSUME NEW r \in Request, NEW a \in Address, SubscribeRead(r, a)
     PROVE  ErasedForgotten'
  BY <1>1 DEF SubscribeRead, Begin, Idle, AnsweredAlready
<1>2. ASSUME NEW r \in Request, NEW a \in Address, LeaveRead(r, a)
     PROVE  ErasedForgotten'
  BY <1>2 DEF LeaveRead, Begin, Idle
<1>3. ASSUME NEW r \in Request, NEW a \in Address, EraseRead(r, a)
     PROVE  ErasedForgotten'
  BY <1>3 DEF EraseRead, Begin, Idle
<1>4. ASSUME NEW r \in Request, NEW a \in Address, NEW t \in Token, ConfirmRead(r, a, t)
     PROVE  ErasedForgotten'
  BY <1>4 DEF ConfirmRead, Begin, Idle
<1>5. ASSUME NEW r \in Request, SubscribeUpdate(r)
     PROVE  ErasedForgotten'
  BY <1>5 DEF SubscribeUpdate, Continue, Found, StatusOnRequest
<1>6. ASSUME NEW r \in Request, SubscribeCreate(r)
     PROVE  ErasedForgotten'
  BY <1>6 DEF SubscribeCreate, Continue
<1>7. ASSUME NEW r \in Request, SubscribeTooLate(r)
     PROVE  ErasedForgotten'
  BY <1>7 DEF SubscribeTooLate, End, Begin
<1>8. ASSUME NEW r \in Request, SubscribeMail(r)
     PROVE  ErasedForgotten'
  BY <1>8 DEF SubscribeMail, End, Begin
<1>9. ASSUME NEW r \in Request, ConfirmWrite(r)
     PROVE  ErasedForgotten'
  BY <1>9 DEF ConfirmWrite, Continue, Found, HashAfterConfirm
<1>10. ASSUME NEW r \in Request, Welcome(r)
     PROVE  ErasedForgotten'
  BY <1>10 DEF Welcome, End, Begin
<1>11. ASSUME NEW r \in Request, LeaveWrite(r)
     PROVE  ErasedForgotten'
  BY <1>11 DEF LeaveWrite, End, Begin, Found, HashAfterLeave
<1>12. ASSUME NEW r \in Request, EraseWrite(r)
     PROVE  ErasedForgotten'
  BY <1>12 DEF EraseWrite, End, Begin, Found, HistoryAfterErase
<1>13. ASSUME NEW r \in Request, Abort(r)
     PROVE  ErasedForgotten'
  BY <1>13 DEF Abort, End, Begin
<1>14. ASSUME NEW a \in Address, Import(a)
     PROVE  ErasedForgotten'
  BY <1>14 DEF Import
<1>15. ASSUME NEW a \in Address, IntervalElapses(a)
     PROVE  ErasedForgotten'
  BY <1>15 DEF IntervalElapses
<1>16. ASSUME NEW t \in Token, TokenExpires(t)
     PROVE  ErasedForgotten'
  BY <1>16 DEF TokenExpires
<1>17. CASE UNCHANGED vars
  BY <1>17 DEF vars, Found, TypeOK
<1>. QED
  BY <1>1, <1>2, <1>3, <1>4, <1>5, <1>6, <1>7, <1>8, <1>9, <1>10, <1>11, <1>12, <1>13, <1>14, <1>15, <1>16, <1>17 DEF Next, Serve

\* The steps of SingleUse and of StatusOrder.
UseStep ==
  \A t \in Token :
    confirms[t] > 0 /\ confirms'[t] > confirms[t] =>
      \E r \in overtaken : step[r] = "confirm" /\ drawn[r] = t /\ step'[r] # "confirm"

OrderStep ==
  \A a \in Address :
    /\ status[a] = "UNSUBSCRIBED" /\ status'[a] = "ACTIVE" => WroteOver("confirm", a)
    /\ status[a] = "ACTIVE" /\ status'[a] = "PENDING" => WroteOver("subscribe", a)

\* Only an overtaken request confirms by a link that has confirmed.
LEMMA StepUse ==
  ASSUME IInv, ReadsCurrent, TokensOK, [Next]_vars
  PROVE  UseStep
<1> USE AddressAssumption, BoundsAssumption
    DEF IInv, TypeOK, BaseType, CrossedType, TableType, RequestType, RecordType, RowsOK, RequestsOK, LinkOnlyWhilePending, ReadsCurrent, TokensOK, Unused, SingleRow, Undrawn, Fresh, Followed, Idle, Found, UseStep, table, request, ghost, crossed, About, LateBy, Token, Status, Step
<1>1. ASSUME NEW r \in Request, NEW a \in Address, SubscribeRead(r, a)
     PROVE  UseStep
  BY <1>1 DEF SubscribeRead, Begin, Idle, AnsweredAlready
<1>2. ASSUME NEW r \in Request, NEW a \in Address, LeaveRead(r, a)
     PROVE  UseStep
  BY <1>2 DEF LeaveRead, Begin, Idle
<1>3. ASSUME NEW r \in Request, NEW a \in Address, EraseRead(r, a)
     PROVE  UseStep
  BY <1>3 DEF EraseRead, Begin, Idle
<1>4. ASSUME NEW r \in Request, NEW a \in Address, NEW t \in Token, ConfirmRead(r, a, t)
     PROVE  UseStep
  BY <1>4 DEF ConfirmRead, Begin, Idle
<1>5. ASSUME NEW r \in Request, SubscribeUpdate(r)
     PROVE  UseStep
  BY <1>5 DEF SubscribeUpdate, Continue, Found, StatusOnRequest
<1>6. ASSUME NEW r \in Request, SubscribeCreate(r)
     PROVE  UseStep
  BY <1>6 DEF SubscribeCreate, Continue
<1>7. ASSUME NEW r \in Request, SubscribeTooLate(r)
     PROVE  UseStep
  BY <1>7 DEF SubscribeTooLate, End, Begin
<1>8. ASSUME NEW r \in Request, SubscribeMail(r)
     PROVE  UseStep
  BY <1>8 DEF SubscribeMail, End, Begin
<1>9. ASSUME NEW r \in Request, ConfirmWrite(r)
     PROVE  UseStep
  BY <1>9 DEF ConfirmWrite, Continue, Found, HashAfterConfirm
<1>10. ASSUME NEW r \in Request, Welcome(r)
     PROVE  UseStep
  BY <1>10 DEF Welcome, End, Begin
<1>11. ASSUME NEW r \in Request, LeaveWrite(r)
     PROVE  UseStep
  BY <1>11 DEF LeaveWrite, End, Begin, Found, HashAfterLeave
<1>12. ASSUME NEW r \in Request, EraseWrite(r)
     PROVE  UseStep
  BY <1>12 DEF EraseWrite, End, Begin, Found, HistoryAfterErase
<1>13. ASSUME NEW r \in Request, Abort(r)
     PROVE  UseStep
  BY <1>13 DEF Abort, End, Begin
<1>14. ASSUME NEW a \in Address, Import(a)
     PROVE  UseStep
  BY <1>14 DEF Import
<1>15. ASSUME NEW a \in Address, IntervalElapses(a)
     PROVE  UseStep
  BY <1>15 DEF IntervalElapses
<1>16. ASSUME NEW t \in Token, TokenExpires(t)
     PROVE  UseStep
  BY <1>16 DEF TokenExpires
<1>17. CASE UNCHANGED vars
  BY <1>17 DEF vars, Found, TypeOK
<1>. QED
  BY <1>1, <1>2, <1>3, <1>4, <1>5, <1>6, <1>7, <1>8, <1>9, <1>10, <1>11, <1>12, <1>13, <1>14, <1>15, <1>16, <1>17 DEF Next, Serve

\* Only an overtaken request takes a status against its order.
LEMMA StepOrder ==
  ASSUME IInv, ReadsCurrent, TokensOK, [Next]_vars
  PROVE  OrderStep
<1> USE AddressAssumption, BoundsAssumption
    DEF IInv, TypeOK, BaseType, CrossedType, TableType, RequestType, RecordType, RowsOK, RequestsOK, LinkOnlyWhilePending, ReadsCurrent, TokensOK, Unused, SingleRow, Undrawn, Fresh, Followed, Idle, Found, OrderStep, WroteOver, table, request, ghost, crossed, About, LateBy, Token, Status, Step
<1>1. ASSUME NEW r \in Request, NEW a \in Address, SubscribeRead(r, a)
     PROVE  OrderStep
  BY <1>1 DEF SubscribeRead, Begin, Idle, AnsweredAlready
<1>2. ASSUME NEW r \in Request, NEW a \in Address, LeaveRead(r, a)
     PROVE  OrderStep
  BY <1>2 DEF LeaveRead, Begin, Idle
<1>3. ASSUME NEW r \in Request, NEW a \in Address, EraseRead(r, a)
     PROVE  OrderStep
  BY <1>3 DEF EraseRead, Begin, Idle
<1>4. ASSUME NEW r \in Request, NEW a \in Address, NEW t \in Token, ConfirmRead(r, a, t)
     PROVE  OrderStep
  BY <1>4 DEF ConfirmRead, Begin, Idle
<1>5. ASSUME NEW r \in Request, SubscribeUpdate(r)
     PROVE  OrderStep
  BY <1>5 DEF SubscribeUpdate, Continue, Found, StatusOnRequest
<1>6. ASSUME NEW r \in Request, SubscribeCreate(r)
     PROVE  OrderStep
  BY <1>6 DEF SubscribeCreate, Continue
<1>7. ASSUME NEW r \in Request, SubscribeTooLate(r)
     PROVE  OrderStep
  BY <1>7 DEF SubscribeTooLate, End, Begin
<1>8. ASSUME NEW r \in Request, SubscribeMail(r)
     PROVE  OrderStep
  BY <1>8 DEF SubscribeMail, End, Begin
<1>9. ASSUME NEW r \in Request, ConfirmWrite(r)
     PROVE  OrderStep
  BY <1>9 DEF ConfirmWrite, Continue, Found, HashAfterConfirm
<1>10. ASSUME NEW r \in Request, Welcome(r)
     PROVE  OrderStep
  BY <1>10 DEF Welcome, End, Begin
<1>11. ASSUME NEW r \in Request, LeaveWrite(r)
     PROVE  OrderStep
  BY <1>11 DEF LeaveWrite, End, Begin, Found, HashAfterLeave
<1>12. ASSUME NEW r \in Request, EraseWrite(r)
     PROVE  OrderStep
  BY <1>12 DEF EraseWrite, End, Begin, Found, HistoryAfterErase
<1>13. ASSUME NEW r \in Request, Abort(r)
     PROVE  OrderStep
  BY <1>13 DEF Abort, End, Begin
<1>14. ASSUME NEW a \in Address, Import(a)
     PROVE  OrderStep
  BY <1>14 DEF Import
<1>15. ASSUME NEW a \in Address, IntervalElapses(a)
     PROVE  OrderStep
  BY <1>15 DEF IntervalElapses
<1>16. ASSUME NEW t \in Token, TokenExpires(t)
     PROVE  OrderStep
  BY <1>16 DEF TokenExpires
<1>17. CASE UNCHANGED vars
  BY <1>17 DEF vars, Found, TypeOK
<1>. QED
  BY <1>1, <1>2, <1>3, <1>4, <1>5, <1>6, <1>7, <1>8, <1>9, <1>10, <1>11, <1>12, <1>13, <1>14, <1>15, <1>16, <1>17 DEF Next, Serve

LEMMA NextCurrent == ASSUME CurrentInv, [Next]_vars PROVE CurrentInv'
BY NextIInv, NextReads, NextUnused, NextSingleRow, NextUndrawn, NextFresh, NextFollowed,
   NextErased, NextForgotten
   DEF CurrentInv, TokensOK

\* However requests overlap, one that nobody overtook writes over what it read.
THEOREM CurrentInvariance == Spec => []CurrentInv
<1>. QED
  BY InitCurrent, NextCurrent, PTL DEF Spec

\* Nothing is addressed to an erased address, but by a request the erasure
\* overtook (erase, sendConfirmation, welcome).
THEOREM ErasureHolds == Spec => []ErasedForgotten
<1>1. CurrentInv => ErasedForgotten
  BY DEF CurrentInv
<1>. QED
  BY <1>1, CurrentInvariance, PTL

\* A link confirms once, but in a request that another confirmation overtook
\* (confirm clears its hash).
THEOREM SingleUseHolds == Spec => SingleUse
<1>1. ASSUME CurrentInv, [Next]_vars
      PROVE  [UseStep]_vars
  BY <1>1, StepUse DEF CurrentInv
<1>. QED
  BY <1>1, CurrentInvariance, PTL DEF Spec, SingleUse, UseStep

\* A status moves the way the list allows, but by a request that was overtaken
\* (subscribe, confirm, leave, import).
THEOREM OrderHolds == Spec => StatusOrder
<1>1. ASSUME CurrentInv, [Next]_vars
      PROVE  [OrderStep]_vars
  BY <1>1, StepOrder DEF CurrentInv
<1>. QED
  BY <1>1, CurrentInvariance, PTL DEF Spec, StatusOrder, OrderStep
=============================================================================
