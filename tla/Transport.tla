----------------------------- MODULE Transport ------------------------------
(***************************************************************************)
(* The way of a request to the wire: GetReqID draws its number from a      *)
(* counter the reader may raise (UpdateReqID), Send waits for the throttle *)
(* (module Throttle), BuildMessage encodes its fields, and SendMessage     *)
(* writes a frame in two writes under the connection's mutex, while        *)
(* Disconnect and Connect change the socket under it.                      *)
(***************************************************************************)
EXTENDS Throttle, SequencesExt, FiniteSets

CONSTANTS
    MaxSends,      \* bound: requests made in a behaviour
    ValidIDs,      \* the ids nextValidId messages carry
    MaxFields,     \* bound: arguments of Send in the check of the codec
    DialOutlasts   \* assumption: a frame under way when its socket broke is
                   \* over before Connect has dialled the next one

ASSUME TransportAssumption ==
    /\ MaxSends \in Nat /\ MaxFields \in Nat \ {0}
    /\ ValidIDs \subseteq Nat
    /\ DialOutlasts \in BOOLEAN

VARIABLES
    reqIDSeq,  \* Client.reqIDSeq
    ids,       \* the ids drawn: history
    upc,       \* where the reader is in UpdateReqID
    minReqID,  \* its argument
    current,   \* what it loaded
    floor,     \* the largest argument of an UpdateReqID that returned: history
    spc,       \* spc[p]: where p is in Client.Send
    reqID,     \* reqID[p]: the id of the request p is sending
    mutex,     \* the holder of Connection.mu, if any
    sock,      \* Connection.conn: "nil", "open", or "broken" once writes fail
    wire       \* what has been written to the last socket dialled

idVars   == <<reqIDSeq, ids, upc, minReqID, current, floor>>
sendVars == <<spc, reqID, mutex>>
sockVars == <<sock, wire>>
transportVars == <<idVars, sendVars, sockVars>>
allVars  == <<vars, transportVars>>

Nobody == "nobody"
ASSUME NobodyAssumption == Nobody \notin Procs

Hello  == [part |-> "hello", id |-> 0]
Header(r)  == [part |-> "header", id |-> r]
Payload(r) == [part |-> "payload", id |-> r]

TransportInit ==
    /\ Init
    /\ reqIDSeq = 0
    /\ ids = {}
    /\ upc = "idle"
    /\ minReqID = 0
    /\ current = 0
    /\ floor = 0
    /\ spc = [p \in Procs |-> "idle"]
    /\ reqID = [p \in Procs |-> 0]
    /\ mutex = Nobody
    /\ sock = "open"
    /\ wire = <<Hello>>

-----------------------------------------------------------------------------
(* Request ids *)

\* GetReqID is one atomic add; Send then calls throttle.Wait.
GetReqID(p) ==
    /\ spc[p] = "idle"
    /\ Cardinality(ids) < MaxSends
    /\ Call(p)
    /\ spc' = [spc EXCEPT ![p] = "throttle"]
    /\ reqID' = [reqID EXCEPT ![p] = reqIDSeq]
    /\ ids' = ids \cup {reqIDSeq}
    /\ reqIDSeq' = reqIDSeq + 1
    /\ UNCHANGED <<upc, minReqID, current, floor, mutex, sockVars>>

\* The reader has read a nextValidId; the loop of UpdateReqID starts.
UpdateReqID(v) ==
    /\ upc = "idle"
    /\ v > floor
    /\ upc' = "load"
    /\ minReqID' = v
    /\ UNCHANGED <<vars, reqIDSeq, ids, current, floor, sendVars, sockVars>>

UpdateReturns == upc' = "idle" /\ floor' = minReqID /\ current' = 0

Load ==
    /\ upc = "load"
    /\ IF reqIDSeq >= minReqID
       THEN UpdateReturns
       ELSE current' = reqIDSeq /\ upc' = "swap" /\ UNCHANGED floor
    /\ UNCHANGED <<vars, reqIDSeq, ids, minReqID, sendVars, sockVars>>

\* Mutant: stores without comparing.
StoreReqID ==
    /\ upc = "swap"
    /\ reqIDSeq' = minReqID
    /\ UpdateReturns
    /\ UNCHANGED <<vars, ids, minReqID, sendVars, sockVars>>

CompareAndSwap ==
    /\ upc = "swap"
    /\ IF reqIDSeq = current
       THEN reqIDSeq' = minReqID /\ UpdateReturns
       ELSE upc' = "load" /\ UNCHANGED <<reqIDSeq, current, floor>>
    /\ UNCHANGED <<vars, ids, minReqID, sendVars, sockVars>>

-----------------------------------------------------------------------------
(* Send *)

\* throttle.Wait has returned.
Throttled(p) ==
    /\ spc[p] = "throttle"
    /\ WaitReturns(p)
    /\ spc' = [spc EXCEPT ![p] = "send"]
    /\ UNCHANGED <<idVars, reqID, mutex, sockVars>>

Write(chunk) == wire' = Append(wire, chunk)

\* Mutant: lets go of the mutex between the two writes.
SendHeaderUnlocks(p) ==
    /\ spc[p] = "send"
    /\ mutex = Nobody
    /\ sock = "open"
    /\ Write(Header(reqID[p]))
    /\ spc' = [spc EXCEPT ![p] = "payload"]
    /\ UNCHANGED <<vars, idVars, reqID, mutex, sock>>

\* SendMessage: the lock and the first write.
SendHeader(p) ==
    /\ spc[p] = "send"
    /\ mutex = Nobody
    /\ sock = "open"
    /\ mutex' = p
    /\ Write(Header(reqID[p]))
    /\ spc' = [spc EXCEPT ![p] = "payload"]
    /\ UNCHANGED <<vars, idVars, reqID, sock>>

\* The second write, the counters and the unlock.
SendPayload(p) ==
    /\ spc[p] = "payload"
    /\ sock = "open"
    /\ Write(Payload(reqID[p]))
    /\ mutex' = Nobody
    /\ spc' = [spc EXCEPT ![p] = "idle"]
    /\ UNCHANGED <<vars, idVars, reqID, sock>>

\* p reads c.conn for its second write while Connect, which takes no lock,
\* replaces it, and may still see the socket its header went to.
SeesOldSocket(p) == ~Contains(wire, Header(reqID[p]))

\* No socket, or a write fails; what was written stays on the wire.
SendFails(p) ==
    /\ \/ spc[p] = "send" /\ mutex = Nobody /\ sock # "open"
       \/ spc[p] = "payload" /\ (sock = "broken" \/ SeesOldSocket(p))
    /\ mutex' = IF mutex = p THEN Nobody ELSE mutex
    /\ spc' = [spc EXCEPT ![p] = "idle"]
    /\ UNCHANGED <<vars, idVars, reqID, sockVars>>

\* Wait's sleeps, and the callers of TryNow.
ThrottleStep(p) ==
    /\ \/ WaitSleeps(p) \/ Wake(p)
       \/ spc[p] = "idle" /\ Len(granted) < MaxSends /\ TryNow(p)
    /\ UNCHANGED transportVars

-----------------------------------------------------------------------------
(* The socket *)

\* The peer has closed: every write from now on fails.
Breaks ==
    /\ sock = "open"
    /\ sock' = "broken"
    /\ UNCHANGED <<vars, idVars, sendVars, wire>>

\* Connection.Disconnect, under the mutex.
Disconnect ==
    /\ mutex = Nobody
    /\ sock' = "nil"
    /\ UNCHANGED <<vars, idVars, sendVars, wire>>

\* Connection.Connect takes no lock: without DialOutlasts the socket changes
\* between the two writes of a frame.
Dial ==
    /\ sock # "open"
    /\ DialOutlasts => mutex = Nobody
    /\ sock' = "open"
    /\ wire' = <<>>
    /\ UNCHANGED <<vars, idVars, sendVars>>

\* SendRaw, under the mutex: other goroutines may have sent requests by now.
SendRaw ==
    /\ mutex = Nobody
    /\ sock = "open"
    /\ ~Contains(wire, Hello)
    /\ Write(Hello)
    /\ UNCHANGED <<vars, idVars, sendVars, sock>>

-----------------------------------------------------------------------------
TransportNext ==
    \/ \E p \in Procs :
          \/ GetReqID(p) \/ Throttled(p) \/ ThrottleStep(p)
          \/ SendHeader(p) \/ SendPayload(p) \/ SendFails(p)
    \/ \E v \in ValidIDs : UpdateReqID(v)
    \/ Load \/ CompareAndSwap
    \/ Breaks \/ Disconnect \/ Dial \/ SendRaw
    \/ Tick /\ UNCHANGED transportVars

TransportSpec == TransportInit /\ [][TransportNext]_allVars

-----------------------------------------------------------------------------
(* The codec.  A text that is not empty is one token; NUL ends a field.    *)

NUL   == "NUL"
Empty == <<>>
Text  == <<"text">>

\* The arguments of Send: values of the Go types EncodeField knows, where unset
\* is the MaxFloat64 and the MaxInt32 of numbers without a value, and contracts.
Values ==
    [type : {"int64", "float64"}, val : {"text", "unset"}]
    \cup [type : {"float64"}, val : {"Infinite"}]
    \cup [type : {"bool"}, val : {"1", "0"}]
    \cup [type : {"string"}, val : {"text", "empty"}]
Fields == Values \cup [type : {"contract"}, val : {"full", "bare"}]

EncodeField(f) == IF f.val \in {"unset", "empty"} THEN Empty ELSE <<f.val>>

\* Twelve texts, of which only the conId and the strike are sure not to be empty.
EncodeContract(f) ==
    [i \in 1 .. 12 |-> IF f.val = "full" \/ i \in {1, 5} THEN Text ELSE Empty]

Texts(f) == IF f.type = "contract" THEN EncodeContract(f) ELSE <<EncodeField(f)>>

AllTexts(fields) == Joined([i \in 1 .. Len(fields) |-> Texts(fields[i])])

\* Mutant: separates the texts instead of ending each.
BuildMessageJoined(fields) ==
    LET texts == AllTexts(fields) IN
    Tail(Joined([i \in 1 .. Len(texts) |-> <<NUL>> \o texts[i]]))

\* NUL is written after every text, within a contract and after a field.
BuildMessage(fields) ==
    LET texts == AllTexts(fields) IN
    Joined([i \in 1 .. Len(texts) |-> Append(texts[i], NUL)])

\* ReadMessage: strings.Split at NUL, less a last element that is empty.
Split(bytes) ==
    LET texts == Pieces(bytes, NUL)
    IN IF Last(texts) = Empty THEN Front(texts) ELSE texts

\* FieldReader: the text after the first pos; none past the end.
ReadString(texts, pos) == IF pos >= Len(texts) THEN Empty ELSE texts[pos + 1]

\* ReadString, ReadInt, ReadFloat and ReadBool of the text after the first pos.
Read(type, texts, pos) ==
    LET s == ReadString(texts, pos) IN
    CASE type = "bool"   -> IF s = <<"1">> THEN "1" ELSE "0"
      [] type = "string" -> IF s = Empty THEN "empty" ELSE Head(s)
      [] OTHER           -> IF s = Empty THEN "zero" ELSE Head(s)

-----------------------------------------------------------------------------
(* Properties *)

\* What Split finds in a message are the texts of its fields, and each value is
\* read in its place as what it was, or as zero if it was a number not set.
ReadsBack(fields) ==
    LET texts == Split(BuildMessage(fields)) IN
    /\ texts = AllTexts(fields)
    /\ \A i \in 1 .. Len(fields) : fields[i] \in Values =>
          Read(fields[i].type, texts, Len(AllTexts(SubSeq(fields, 1, i - 1))))
            = IF fields[i].val = "unset" THEN "zero" ELSE fields[i].val

AllReadBack ==
    \A n \in 1 .. MaxFields : \A fields \in [1 .. n -> Fields] : ReadsBack(fields)

\* A request that has been written reads back, whatever its arguments were, on
\* which nothing else here depends: empty texts, also at the end of the message,
\* and contracts do not shift the values around them (encoder.go:18-91,
\* connection.go:137-142, field.go:25-61).
CodecRoundTrip ==
    (\E i \in 1 .. Len(wire) : wire[i].part = "payload") => AllReadBack

\* No two requests share an id, although the reader moves the counter while
\* callers draw from it, and a request that starts after a nextValidId has been
\* processed has an id from there on (client.go:179-195).
IdsFresh == reqIDSeq \notin ids /\ reqIDSeq >= floor

\* On a socket a header is followed at once by the payload it belongs to; the
\* last one may be waiting for it, or be cut off by the end of the socket
\* (connection.go:84-103).  This rests on DialOutlasts: the mutex keeps other
\* frames away, not a Connect (connection.go:35).
FramesIntact ==
    \A i \in 1 .. Len(wire) :
        LET c == wire[i] IN
        /\ c.part = "header" => i = Len(wire) \/ wire[i + 1] = Payload(c.id)
        /\ c.part = "payload" => i > 1 /\ wire[i - 1] = Header(c.id)
=============================================================================
