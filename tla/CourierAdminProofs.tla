------------------------- MODULE CourierAdminProofs -------------------------
(***************************************************************************)
(* Proofs about CourierAdmin, for every id space, every set of phone      *)
(* numbers and every clock bound: no two registered couriers ever share a *)
(* phone number, whatever creations, partial updates and engine          *)
(* transactions interleave.                                                *)
(*                                                                         *)
(* PhoneUnique needs the directory's shape to be inductive: the phone     *)
(* column is a function over the id space, and an insertion takes an id   *)
(* not yet registered, so the row it writes is compared, by the unique   *)
(* index, with every registered row.  The engine's transactions do not    *)
(* touch the directory.                                                    *)
(***************************************************************************)
EXTENDS CourierAdmin, TLAPS

\* The directory's rows: registered ids have a valid phone number, and no
\* two of them the same.
DirectoryInv ==
    /\ registered \subseteq Couriers
    /\ phone \in [Couriers -> Phones \cup {"none"}]
    /\ \A c \in registered : phone[c] \in Phones
    /\ PhoneUnique

LEMMA DirectoryInitInv == AdminInit => DirectoryInv
BY DEF AdminInit, DirectoryInv, PhoneUnique

\* A request refused before or by the database leaves the directory as it
\* was.
LEMMA AnswerInv ==
    ASSUME DirectoryInv, NEW code, Answer(code)
    PROVE  DirectoryInv'
BY DEF Answer, DirectoryInv, PhoneUnique

\* INSERT takes an unused id; the unique index refuses a phone number some
\* registered courier already has.
LEMMA InsertInv ==
    ASSUME DirectoryInv, NEW s, NEW p \in Phones, NEW t, InsertCourier(s, p, t)
    PROVE  DirectoryInv'
<1>1. CASE PhoneTaken({}, p) /\ Answer("409")
  BY <1>1, AnswerInv
<1>2. CASE ~PhoneTaken({}, p)
  <2>1. PICK c \in Couriers \ registered :
            /\ registered' = registered \cup {c}
            /\ phone' = [phone EXCEPT ![c] = p]
    BY <1>2 DEF InsertCourier
  <2>2. \A d \in registered : phone[d] # p
    BY <1>2 DEF PhoneTaken
  <2>. QED
    BY <2>1, <2>2 DEF DirectoryInv, PhoneUnique
<1>. QED
  BY <1>1, <1>2 DEF InsertCourier

\* UPDATE ... WHERE id = c changes one registered row; the unique index
\* refuses a phone number another courier has.
LEMMA UpdateRowInv ==
    ASSUME DirectoryInv, NEW c \in Couriers, NEW s, NEW p \in Phones \cup {"none"},
           NEW t, UpdateRow(c, s, p, t)
    PROVE  DirectoryInv'
<1>1. CASE c \notin registered /\ Answer("404")
  BY <1>1, AnswerInv
<1>2. CASE c \in registered /\ p # "none" /\ PhoneTaken({c}, p) /\ Answer("409")
  BY <1>2, AnswerInv
<1>3. CASE /\ c \in registered
           /\ p = "none" \/ ~PhoneTaken({c}, p)
           /\ phone' = IF p = "none" THEN phone ELSE [phone EXCEPT ![c] = p]
           /\ UNCHANGED registered
  <2>1. CASE p = "none"
    BY <1>3, <2>1 DEF DirectoryInv, PhoneUnique
  <2>2. CASE p # "none"
    <3>1. \A d \in registered \ {c} : phone[d] # p
      BY <1>3, <2>2 DEF PhoneTaken
    <3>. QED
      BY <1>3, <2>2, <3>1 DEF DirectoryInv, PhoneUnique
  <2>. QED
    BY <2>1, <2>2
<1>. QED
  BY <1>1, <1>2, <1>3 DEF UpdateRow

\* Every courier request, every engine transaction and the clock keep the
\* directory's invariant.
LEMMA DirectoryStep == DirectoryInv /\ [AdminNext]_adminVars => DirectoryInv'
<1> SUFFICES ASSUME DirectoryInv, [AdminNext]_adminVars
             PROVE  DirectoryInv'
  OBVIOUS
<1>1. CASE \E s \in StatusInputs \ {"none"}, p \in PhoneInputs \ {"none"},
              t \in TransportInputs \ {"none"} : CreateCourier(s, p, t)
  <2>1. PICK s \in StatusInputs \ {"none"}, p \in PhoneInputs \ {"none"},
             t \in TransportInputs \ {"none"} : CreateCourier(s, p, t)
    BY <1>1
  <2>2. CASE ~Valid(s, p, t) /\ Answer("400")
    BY <2>2, AnswerInv
  <2>3. CASE Valid(s, p, t) /\ InsertCourier(s, p, t)
    <3>1. p \in Phones
      BY <2>3 DEF Valid, PhoneInputs
    <3>. QED
      BY <2>3, <3>1, InsertInv
  <2>. QED
    BY <2>1, <2>2, <2>3 DEF CreateCourier
<1>2. CASE \E c \in Couriers, s \in StatusInputs, p \in PhoneInputs,
              t \in TransportInputs : UpdateCourier(c, s, p, t)
  <2>1. PICK c \in Couriers, s \in StatusInputs, p \in PhoneInputs,
             t \in TransportInputs : UpdateCourier(c, s, p, t)
    BY <1>2
  <2>2. CASE Answer("400")
    BY <2>2, AnswerInv
  <2>3. CASE Valid(s, p, t) /\ UpdateRow(c, s, p, t)
    <3>1. p \in Phones \cup {"none"}
      BY <2>3 DEF Valid, PhoneInputs
    <3>. QED
      BY <2>3, <3>1, UpdateRowInv
  <2>. QED
    BY <2>1, <2>2, <2>3 DEF UpdateCourier
<1>3. CASE EngineStep \/ Clock
  BY <1>3 DEF EngineStep, Clock, directoryVars, DirectoryInv, PhoneUnique
<1>4. CASE UNCHANGED adminVars
  BY <1>4 DEF adminVars, directoryVars, DirectoryInv, PhoneUnique
<1>. QED
  BY <1>1, <1>2, <1>3, <1>4 DEF AdminNext

\* The unique index on couriers.phone is never bypassed: no two registered
\* couriers share a phone number, through any sequence of POST and PUT
\* /courier requests interleaved with the engine's transactions.
THEOREM PhoneUniqueHolds == AdminSpec => []PhoneUnique
<1>1. DirectoryInv => PhoneUnique
  BY DEF DirectoryInv
<1>. QED
  BY <1>1, DirectoryInitInv, DirectoryStep, PTL DEF AdminSpec

-----------------------------------------------------------------------------
(***************************************************************************)
(* Type correctness.  AdminTypeOK is inductive as it stands: the engine   *)
(* computes a deadline from whatever transport column it reads, and the  *)
(* directory writes only validated fields.                                 *)
(***************************************************************************)

LEMMA AdminInitType == AdminInit => AdminTypeOK
<1> SUFFICES ASSUME AdminInit PROVE AdminTypeOK
  OBVIOUS
<1>1. Static!TypeOK
  BY DEF AdminInit, Static!TypeOK, Static!CourierStatuses, Static!Results
<1>2. /\ registered \subseteq Couriers
      /\ phone \in [Couriers -> Phones \cup {"none"}]
      /\ transport \in [Couriers -> Transports]
      /\ response \in {"none", "200", "201", "400", "404", "409"}
  BY DEF AdminInit, Transports
<1>. QED
  BY <1>1, <1>2 DEF AdminTypeOK

\* The deadline CalculateDeadline computes from any transport is a clock
\* value.
LEMMA AdminDeadlineType ==
    ASSUME AdminTypeOK, NEW tr, NEW c \in Couriers
    PROVE  Eng(tr)!Deadline(c) \in Nat
BY DEF AdminTypeOK, Static!TypeOK, Eng!Deadline, Eng!DeliveryOffset

\* DeliveryAssign, on the transport column it reads, keeps the engine's
\* tables well typed.
LEMMA AdminAssignType ==
    ASSUME AdminTypeOK, NEW o \in Orders, NEW tr, Eng(tr)!DeliveryAssign(o)
    PROVE  Static!TypeOK'
<1> USE DEF AdminTypeOK, Static!TypeOK, Static!Results, Static!CourierStatuses
<1>1. CASE Eng(tr)!Fail("ErrNoAvailableCouriers") \/ Eng(tr)!Fail("ErrOrderAlreadyAssigned")
  BY <1>1 DEF Eng!Fail
<1>2. CASE \E c \in Eng(tr)!AvailableCouriers :
              /\ Eng(tr)!CreateDelivery(o, c)
              /\ status' = [status EXCEPT ![c] = "busy"]
              /\ result' = "ok"
              /\ UNCHANGED now
  <2>1. PICK c \in Eng(tr)!AvailableCouriers :
              /\ Eng(tr)!CreateDelivery(o, c)
              /\ status' = [status EXCEPT ![c] = "busy"]
              /\ result' = "ok"
              /\ UNCHANGED now
    BY <1>2
  <2>2. c \in Couriers
    BY DEF Eng!AvailableCouriers
  <2>3. [order |-> o, courier |-> c, deadline |-> Eng(tr)!Deadline(c)] \in Static!Row
    BY <2>2, AdminDeadlineType DEF Static!Row
  <2>. QED
    BY <2>1, <2>2, <2>3 DEF Eng!CreateDelivery, Static!Row
<1>. QED
  BY <1>1, <1>2 DEF Eng!DeliveryAssign

\* DeliveryUnassign and FreeCourierByOrderID release the courier of a row.
LEMMA AdminReleaseType ==
    ASSUME AdminTypeOK, NEW o \in Orders,
           Static!DeliveryUnassign(o) \/ Static!FreeCourierByOrderID(o)
    PROVE  Static!TypeOK'
<1> USE DEF AdminTypeOK, Static!TypeOK, Static!Results, Static!CourierStatuses
<1>1. CASE Static!Fail("ErrDeliveryNotFound") \/ Static!Fail("ErrCourierHasActiveDeliveries")
  BY <1>1 DEF Static!Fail
<1>2. CASE \E r \in Static!RowsOf(o) :
              /\ deliveries' \subseteq deliveries
              /\ status' = [status EXCEPT ![r.courier] = "available"]
              /\ result' = "ok"
              /\ UNCHANGED now
  <2>1. PICK r \in Static!RowsOf(o) :
              /\ deliveries' \subseteq deliveries
              /\ status' = [status EXCEPT ![r.courier] = "available"]
              /\ result' = "ok"
              /\ UNCHANGED now
    BY <1>2
  <2>2. r.courier \in Couriers
    BY DEF Static!RowsOf, Static!Row
  <2>. QED
    BY <2>1, <2>2
<1>. QED
  BY <1>1, <1>2 DEF Static!DeliveryUnassign, Static!FreeCourierByOrderID

LEMMA AdminEngineType ==
    ASSUME AdminTypeOK, EngineStep \/ Clock
    PROVE  AdminTypeOK'
<1>1. Static!TypeOK'
  <2>1. CASE \E o \in Orders : \E tr \in {transport} : Eng(tr)!DeliveryAssign(o)
    BY <2>1, AdminAssignType
  <2>2. CASE \E o \in Orders : Static!DeliveryUnassign(o) \/ Static!FreeCourierByOrderID(o)
    BY <2>2, AdminReleaseType
  <2>3. CASE Static!CleanupExpiredDeliveries
    BY <2>3 DEF AdminTypeOK, Static!TypeOK, Static!Results, Static!CourierStatuses,
                Static!CleanupExpiredDeliveries
  <2>4. CASE Static!Tick
    BY <2>4, AdminAssumption DEF AdminTypeOK, Static!TypeOK, Static!Tick
  <2>. QED
    BY <2>1, <2>2, <2>3, <2>4 DEF EngineStep, Clock
<1>2. UNCHANGED directoryVars
  BY DEF EngineStep, Clock
<1>. QED
  BY <1>1, <1>2 DEF AdminTypeOK, directoryVars

\* POST /courier writes only the validated fields of a fresh row.
LEMMA AdminCreateType ==
    ASSUME AdminTypeOK, NEW s \in StatusInputs \ {"none"},
           NEW p \in PhoneInputs \ {"none"}, NEW t \in TransportInputs \ {"none"},
           CreateCourier(s, p, t)
    PROVE  AdminTypeOK'
<1> USE DEF AdminTypeOK, Static!TypeOK
<1>1. CASE Answer("400") \/ Answer("409")
  BY <1>1 DEF Answer, engineVars
<1>2. CASE /\ Valid(s, p, t)
           /\ \E c \in Couriers \ registered :
                 /\ registered' = registered \cup {c}
                 /\ status' = [status EXCEPT ![c] = s]
                 /\ phone' = [phone EXCEPT ![c] = p]
                 /\ transport' = [transport EXCEPT ![c] = t]
           /\ response' = "201"
           /\ UNCHANGED <<deliveries, now, result>>
  <2>1. s \in Static!CourierStatuses /\ p \in Phones /\ t \in Transports
    BY <1>2 DEF Valid, StatusInputs, PhoneInputs, TransportInputs
  <2>. QED
    BY <1>2, <2>1
<1>. QED
  BY <1>1, <1>2 DEF CreateCourier, InsertCourier

\* PUT /courier overwrites only the validated fields the request carries.
LEMMA AdminUpdateType ==
    ASSUME AdminTypeOK, NEW c \in Couriers, NEW s \in StatusInputs,
           NEW p \in PhoneInputs, NEW t \in TransportInputs,
           UpdateCourier(c, s, p, t)
    PROVE  AdminTypeOK'
<1> USE DEF AdminTypeOK, Static!TypeOK
<1>1. CASE Answer("400") \/ Answer("404") \/ Answer("409")
  BY <1>1 DEF Answer, engineVars
<1>2. CASE /\ Valid(s, p, t)
           /\ status' = IF s = "none" THEN status ELSE [status EXCEPT ![c] = s]
           /\ phone' = IF p = "none" THEN phone ELSE [phone EXCEPT ![c] = p]
           /\ transport' = IF t = "none" THEN transport ELSE [transport EXCEPT ![c] = t]
           /\ response' = "200"
           /\ UNCHANGED <<deliveries, now, result, registered>>
  <2>1. /\ s \in Static!CourierStatuses \cup {"none"}
        /\ p \in Phones \cup {"none"}
        /\ t \in Transports \cup {"none"}
    BY <1>2 DEF Valid, StatusInputs, PhoneInputs, TransportInputs
  <2>2. status' \in [Couriers -> Static!CourierStatuses]
    BY <1>2, <2>1
  <2>3. phone' \in [Couriers -> Phones \cup {"none"}]
    BY <1>2, <2>1
  <2>4. transport' \in [Couriers -> Transports]
    BY <1>2, <2>1
  <2>. QED
    BY <1>2, <2>2, <2>3, <2>4
<1>. QED
  BY <1>1, <1>2 DEF UpdateCourier, UpdateRow

\* Type correctness of the courier directory composed with the engine:
\* every state is well typed, for every id space, set of phone numbers
\* and clock bound.
THEOREM AdminTypeCorrect == AdminSpec => []AdminTypeOK
<1>1. AdminTypeOK /\ [AdminNext]_adminVars => AdminTypeOK'
  <2> SUFFICES ASSUME AdminTypeOK, [AdminNext]_adminVars PROVE AdminTypeOK'
    OBVIOUS
  <2>1. CASE \E s \in StatusInputs \ {"none"}, p \in PhoneInputs \ {"none"},
                t \in TransportInputs \ {"none"} : CreateCourier(s, p, t)
    BY <2>1, AdminCreateType
  <2>2. CASE \E c \in Couriers, s \in StatusInputs, p \in PhoneInputs,
                t \in TransportInputs : UpdateCourier(c, s, p, t)
    BY <2>2, AdminUpdateType
  <2>3. CASE EngineStep \/ Clock
    BY <2>3, AdminEngineType
  <2>4. CASE UNCHANGED adminVars
    BY <2>4 DEF adminVars, engineVars, directoryVars, AdminTypeOK, Static!TypeOK
  <2>. QED
    BY <2>1, <2>2, <2>3, <2>4 DEF AdminNext
<1>. QED
  BY <1>1, AdminInitType, PTL DEF AdminSpec

=============================================================================
