--------------------------- MODULE JsonRpcMessages ---------------------------
(***************************************************************************)
(* json-rpc/src/messages.rs: the message constructors, their serde         *)
(* serialization, and the deserialization of an `IncomingMessage` (what a  *)
(* client receives: a response or a notification).  A JSON object is a    *)
(* function from its keys to JSON values; a value is [t |-> type, v |->    *)
(* payload], and an object payload (a call's input or result) is only its  *)
(* type.  The connection is one message slot: what the transport does is   *)
(* not part of this code.                                                  *)
(*                                                                         *)
(* Serialization follows the serde attributes: Message adds "jsonrpc";     *)
(* Request, Response and MethodCall are flattened into it; Notification is *)
(* a newtype (transparent); `Result` is untagged, so Success contributes   *)
(* "result" and Error its fields "code", "message", "data" directly; a     *)
(* `None` data is written as null.                                         *)
(***************************************************************************)
EXTENDS Integers, TLC

CONSTANTS
    Ids,        \* request ids this side uses (Id(i64))
    Codes,      \* error codes
    Methods,    \* method names
    PeerIds,    \* ids a JSON-RPC 2.0 peer may use: numbers, strings, null
    ErrorData   \* the Option<Value> data new_error is given: <<>> is None

Int_(i)  == [t |-> "int", v |-> i]
Str(s)   == [t |-> "str", v |-> s]
Null     == [t |-> "null", v |-> 0]
Obj      == [t |-> "obj", v |-> 0]

\* Values a call's input, a result or error data can be.
Payloads == {Obj, Null}

Version2 == Str("2.0")

(***************************************************************************)
(* The `new` functions of Message (messages.rs:43-83), serialized.         *)
(***************************************************************************)
\* A faulty serialization without `#[serde(flatten)]` on Request::call:
\* the method call is written as a nested "call" object.
NewRequestNested(id, method, input) ==
    [k \in {"jsonrpc", "id", "call"} |->
        CASE k = "jsonrpc" -> Version2 [] k = "id" -> Int_(id) [] k = "call" -> Obj]

NewRequest(id, method, input) ==
    [k \in {"jsonrpc", "id", "method", "input"} |->
        CASE k = "jsonrpc" -> Version2 [] k = "id" -> Int_(id)
          [] k = "method"  -> Str(method) [] k = "input" -> input]

NewSuccess(id, result) ==
    [k \in {"jsonrpc", "id", "result"} |->
        CASE k = "jsonrpc" -> Version2 [] k = "id" -> Int_(id) [] k = "result" -> result]

\* A faulty serialization nesting the error fields under "error".
NewErrorNested(id, code, message, data) ==
    [k \in {"jsonrpc", "id", "error"} |->
        CASE k = "jsonrpc" -> Version2 [] k = "id" -> Int_(id) [] k = "error" -> Obj]

\* data : Option<Value>; <<>> is None, written as null.
NewError(id, code, message, data) ==
    [k \in {"jsonrpc", "id", "code", "message", "data"} |->
        CASE k = "jsonrpc" -> Version2 [] k = "id" -> Int_(id)
          [] k = "code"    -> Int_(code) [] k = "message" -> Str(message)
          [] k = "data"    -> IF data = <<>> THEN Null ELSE data[1]]

NewNotification(method, input) ==
    [k \in {"jsonrpc", "method", "input"} |->
        CASE k = "jsonrpc" -> Version2 [] k = "method" -> Str(method) [] k = "input" -> input]

(***************************************************************************)
(* Deserialize for IncomingMessage (messages.rs:184-193), untagged: the    *)
(* Response variant is tried first, then Notification; unknown keys are    *)
(* ignored.  Response needs an integer "id" (Id is i64) and its flattened  *)
(* untagged Result: Success if "result" is present (a null included),      *)
(* else Error, which needs an integer "code" and a string "message"; a     *)
(* missing or null "data" is None.  Notification is                        *)
(* Notification<serde_json::Value>, a newtype around any JSON value: it    *)
(* takes whatever object Response did not, whole.                          *)
(***************************************************************************)
Has(j, k, t) == k \in DOMAIN j /\ j[k].t = t

DecodeResponse(j) ==
    CASE ~Has(j, "id", "int") -> [ok |-> FALSE]
      [] "result" \in DOMAIN j ->
           [ok |-> TRUE, variant |-> "Success", id |-> j["id"].v, result |-> j["result"]]
      [] Has(j, "code", "int") /\ Has(j, "message", "str") ->
           [ok |-> TRUE, variant |-> "Error", id |-> j["id"].v, code |-> j["code"].v,
            message |-> j["message"].v,
            data |-> IF "data" \notin DOMAIN j \/ j["data"] = Null THEN <<>> ELSE <<j["data"]>>]
      [] OTHER -> [ok |-> FALSE]

DecodeNotification(j) == [ok |-> TRUE, variant |-> "Notification", value |-> j]

DecodeIncoming(j) ==
    IF DecodeResponse(j).ok THEN DecodeResponse(j) ELSE DecodeNotification(j)

(***************************************************************************)
(* What a JSON-RPC 2.0 peer sends a client: a success response, an error  *)
(* response with its fields in an "error" object (id null when the request *)
(* could not be read), and a notification with optional "params".          *)
(***************************************************************************)
PeerSuccess(id, result) ==
    [k \in {"jsonrpc", "id", "result"} |->
        CASE k = "jsonrpc" -> Version2 [] k = "id" -> id [] k = "result" -> result]
PeerError(id) ==
    [k \in {"jsonrpc", "id", "error"} |->
        CASE k = "jsonrpc" -> Version2 [] k = "id" -> id [] k = "error" -> Obj]
PeerNotification(method, params) ==
    [k \in {"jsonrpc", "method"} \cup (IF params = <<>> THEN {} ELSE {"params"}) |->
        CASE k = "jsonrpc" -> Version2 [] k = "method" -> Str(method) [] k = "params" -> params[1]]

-----------------------------------------------------------------------------

VARIABLES
    slot,       \* <<>>, or << [json, from, meant] >>: the message in flight
    last,       \* the last message received: who sent it, what was meant, and
                \* what was decoded
    outgoing    \* <<>>, or <<json>>: the last request this side serialized

vars == <<slot, last, outgoing>>

ErrorMessage == "error"

Init ==
    /\ slot = <<>>
    /\ last = [from |-> "none", meant |-> [ok |-> FALSE], got |-> [ok |-> FALSE]]
    /\ outgoing = <<>>

Put(json, from, meant) ==
    /\ slot = <<>>
    /\ slot' = << [json |-> json, from |-> from, meant |-> meant] >>
    /\ UNCHANGED <<last, outgoing>>

\* Message::new_request, serialized for the server.
SendRequest(id, method, input) ==
    /\ outgoing' = <<NewRequest(id, method, input)>>
    /\ UNCHANGED <<slot, last>>

\* Message::new_success, serialized.
SendSuccess(id, result) ==
    Put(NewSuccess(id, result), "own",
        [ok |-> TRUE, variant |-> "Success", id |-> id, result |-> result])

\* Message::new_error, serialized.
SendError(id, code, data) ==
    Put(NewError(id, code, ErrorMessage, data), "own",
        [ok |-> TRUE, variant |-> "Error", id |-> id, code |-> code,
         message |-> ErrorMessage, data |-> data])

\* Message::new_notification, serialized; the client reads it as the
\* whole object.
SendNotification(method, input) ==
    Put(NewNotification(method, input), "own",
        [ok |-> TRUE, variant |-> "Notification", value |-> NewNotification(method, input)])

\* A JSON-RPC 2.0 peer's response or notification.
PeerSend(json, kind) ==
    Put(json, "peer", [ok |-> TRUE, variant |-> kind])

\* serde_json::from_str::<IncomingMessage> on the message in flight.
Receive ==
    /\ slot # <<>>
    /\ last' = [from |-> slot[1].from, meant |-> slot[1].meant, got |-> DecodeIncoming(slot[1].json)]
    /\ slot' = <<>>
    /\ UNCHANGED outgoing

Next ==
    \/ \E id \in Ids, m \in Methods, i \in Payloads : SendRequest(id, m, i)
    \/ \E id \in Ids, r \in Payloads : SendSuccess(id, r)
    \/ \E id \in Ids, c \in Codes, d \in ErrorData : SendError(id, c, d)
    \/ \E m \in Methods, i \in Payloads : SendNotification(m, i)
    \/ \E id \in PeerIds, r \in Payloads : PeerSend(PeerSuccess(id, r), "Response")
    \/ \E id \in PeerIds \cup {Null} : PeerSend(PeerError(id), "Response")
    \/ \E m \in Methods, p \in {<<>>, <<Obj>>} : PeerSend(PeerNotification(m, p), "Notification")
    \/ Receive

Spec == Init /\ [][Next]_vars

-----------------------------------------------------------------------------

Keys == {"jsonrpc", "id", "method", "input", "params", "result", "error", "code", "message", "data"}
JsonValues ==
    {Version2, Null, Obj} \cup {Int_(i) : i \in Ids \cup Codes}
    \cup {Str(m) : m \in Methods \cup {ErrorMessage}} \cup PeerIds

TypeOK ==
    /\ \A i \in DOMAIN slot :
          /\ DOMAIN slot[i].json \subseteq Keys
          /\ \A k \in DOMAIN slot[i].json : slot[i].json[k] \in JsonValues
          /\ slot[i].from \in {"own", "peer"}
    /\ DOMAIN slot \subseteq {1}
    /\ \A i \in DOMAIN outgoing : DOMAIN outgoing[i] \subseteq Keys
    /\ last.from \in {"none", "own", "peer"}

(***************************************************************************)
(* Every response and notification this code builds and serializes is read *)
(* back by the client as the same variant with the same id, result, error  *)
(* code, message and data, or (a notification) the object that was sent.   *)
(***************************************************************************)
OwnMessagesRoundTrip == last.from = "own" => last.got = last.meant

(***************************************************************************)
(* The module comment (messages.rs:1-3): serialization is compatible with  *)
(* JSON-RPC compliant peers.  Every response and notification such a peer  *)
(* sends is read as a Response or Notification respectively: a response   *)
(* the client reads as a Notification is one its caller never gets.       *)
(***************************************************************************)
PeerMessagesUnderstood ==
    last.from = "peer" => last.got.ok /\ last.got.variant \in
        (IF last.meant.variant = "Response" THEN {"Success", "Error"} ELSE {"Notification"})

=============================================================================
