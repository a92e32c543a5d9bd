---------------------------- MODULE CourierAdmin ----------------------------
(***************************************************************************)
(* The courier directory of the HTTP service (POST /courier, PUT          *)
(* /courier: service/courier and repository/courier) sharing the courier  *)
(* table with the delivery engine.                                         *)
(*                                                                         *)
(* CreateCourier inserts a row and UpdateCourier is one UPDATE ... SET     *)
(* RETURNING over the fields the request carries; both run outside a      *)
(* transaction, as single statements.  Each engine transaction is          *)
(* Serializable, so an UPDATE on a row it read makes it abort: every      *)
(* operation is one atomic step.  A row's transport type can change, so   *)
(* the engine is instantiated with the transport column as a variable.    *)
(*                                                                         *)
(* Couriers is the id space of the BIGSERIAL; an id not yet registered is *)
(* kept at status "paused" in the engine's status map, where the engine's  *)
(* queries never select it, release it or find a row of it.                *)
(***************************************************************************)
EXTENDS Naturals, FiniteSets

CONSTANTS
    Couriers,       \* the ids the couriers table may hand out
    Orders,         \* order ids the engine may be called with
    TickMinutes,    \* how far the clock moves in one Tick
    MaxClock,       \* bound on the clock, in minutes
    Phones          \* the valid phone numbers requests carry

ASSUME AdminAssumption ==
    /\ Couriers \subseteq Nat
    /\ TickMinutes \in Nat \ {0}
    /\ MaxClock \in Nat
    /\ Phones # {}

VARIABLES
    status, deliveries, now, result,   \* the engine's tables and clock
    registered,     \* the ids with a row in the couriers table
    phone,          \* couriers.phone (UNIQUE)
    transport,      \* couriers.transport_type
    response        \* the status code of the last courier request

engineVars == <<status, deliveries, now, result>>
directoryVars == <<registered, phone, transport, response>>
adminVars == <<engineVars, directoryVars>>

\* CourierTransportType; isValidTransport accepts exactly these.
Transports == {"on_foot", "scooter", "car"}

\* The engine reading the transport column tr.  Only DeliveryAssign reads
\* it (through Deadline); it is applied to the current column through a
\* bound name, which the instance requires to be constant.
Eng(tr) == INSTANCE DeliveryEngine WITH Transport <- tr

\* The engine's definitions that do not read the transport column.
Static == INSTANCE DeliveryEngine WITH Transport <- [c \in Couriers |-> "on_foot"]

\* A request field: absent ("none"), a value the validators reject
\* ("invalid"), or a valid value.
StatusInputs == Static!CourierStatuses \cup {"none", "invalid"}
PhoneInputs == Phones \cup {"none", "invalid"}
TransportInputs == Transports \cup {"none", "invalid"}

AdminTypeOK ==
    /\ Static!TypeOK
    /\ registered \subseteq Couriers
    /\ phone \in [Couriers -> Phones \cup {"none"}]
    /\ transport \in [Couriers -> Transports]
    /\ response \in {"none", "200", "201", "400", "404", "409"}

-----------------------------------------------------------------------------

\* The UNIQUE index on phone: a courier other than those of the row being
\* written already holds p.
PhoneTaken(own, p) == \E d \in registered \ own : phone[d] = p

\* Bug variant: the status left unvalidated.
ValidNoStatusCheck(s, p, t) == "invalid" \notin {p, t}

\* The validators of service/courier: every field the request carries is
\* well formed.
Valid(s, p, t) == "invalid" \notin {s, p, t}

Answer(code) ==
    /\ response' = code
    /\ UNCHANGED <<engineVars, registered, phone, transport>>

\* Repository.Create: INSERT ... RETURNING id takes the next id, refused
\* by the unique index on a duplicate phone.
InsertCourier(s, p, t) ==
    \/ /\ PhoneTaken({}, p)
       /\ Answer("409")
    \/ /\ ~PhoneTaken({}, p)
       /\ \E c \in Couriers \ registered :
             /\ registered' = registered \cup {c}
             /\ status' = [status EXCEPT ![c] = s]
             /\ phone' = [phone EXCEPT ![c] = p]
             /\ transport' = [transport EXCEPT ![c] = t]
       /\ response' = "201"
       /\ UNCHANGED <<deliveries, now, result>>

\* POST /courier: CreateCourier validates every field, then inserts.
CreateCourier(s, p, t) ==
    \/ /\ ~Valid(s, p, t)
       /\ Answer("400")
    \/ /\ Valid(s, p, t)
       /\ InsertCourier(s, p, t)

\* Repository.Update: one UPDATE ... SET over the fields present, WHERE
\* id = c, RETURNING the row: no row gives 404, a duplicate phone 409.
UpdateRow(c, s, p, t) ==
    \/ /\ c \notin registered
       /\ Answer("404")
    \/ /\ c \in registered
       /\ p # "none" /\ PhoneTaken({c}, p)
       /\ Answer("409")
    \/ /\ c \in registered
       /\ p = "none" \/ ~PhoneTaken({c}, p)
       /\ status' = IF s = "none" THEN status ELSE [status EXCEPT ![c] = s]
       /\ phone' = IF p = "none" THEN phone ELSE [phone EXCEPT ![c] = p]
       /\ transport' = IF t = "none" THEN transport ELSE [transport EXCEPT ![c] = t]
       /\ response' = "200"
       /\ UNCHANGED <<deliveries, now, result, registered>>

\* PUT /courier: UpdateCourier refuses an empty or malformed request, then
\* updates row c.
UpdateCourier(c, s, p, t) ==
    \/ /\ s = "none" /\ p = "none" /\ t = "none"
       /\ Answer("400")
    \/ /\ ~Valid(s, p, t)
       /\ Answer("400")
    \/ /\ {s, p, t} # {"none"} /\ Valid(s, p, t)
       /\ UpdateRow(c, s, p, t)

\* One transaction of the engine (HTTP delivery endpoints, the status
\* worker, the reaper), or the clock.
EngineStep ==
    /\ \/ \E o \in Orders :
             \/ \E tr \in {transport} : Eng(tr)!DeliveryAssign(o)
             \/ Static!DeliveryUnassign(o)
             \/ Static!FreeCourierByOrderID(o)
       \/ Static!CleanupExpiredDeliveries
    /\ UNCHANGED directoryVars

Clock ==
    /\ Static!Tick
    /\ UNCHANGED directoryVars

AdminInit ==
    /\ status = [c \in Couriers |-> "paused"]
    /\ deliveries = {}
    /\ now = 0
    /\ result = "none"
    /\ registered = {}
    /\ phone = [c \in Couriers |-> "none"]
    /\ transport = [c \in Couriers |-> "on_foot"]
    /\ response = "none"

AdminNext ==
    \/ \E s \in StatusInputs \ {"none"}, p \in PhoneInputs \ {"none"},
          t \in TransportInputs \ {"none"} :
          CreateCourier(s, p, t)
    \/ \E c \in Couriers, s \in StatusInputs, p \in PhoneInputs, t \in TransportInputs :
          UpdateCourier(c, s, p, t)
    \/ EngineStep
    \/ Clock

AdminSpec == AdminInit /\ [][AdminNext]_adminVars

-----------------------------------------------------------------------------
(***************************************************************************)
(* Properties                                                              *)
(***************************************************************************)

\* No two couriers share a phone number, however creations and partial
\* updates interleave: what the unique index on couriers.phone keeps.
PhoneUnique ==
    \A c, d \in registered : c # d => phone[c] # phone[d]

\* Spec section 3: a busy courier owns at least one delivery, since its
\* status is changed only by assignment, unassignment and the reaper.
AdminBusyHasDelivery == Static!BusyHasDelivery

\* Spec section 3: an engine transaction moves couriers between available
\* and busy only; a courier the administrator paused stays paused until
\* the administrator changes it.
PauseRespected ==
    [][EngineStep => \A c \in Couriers :
                        status[c] = "paused" => status'[c] = "paused"]_adminVars

=============================================================================
