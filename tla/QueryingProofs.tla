--------------------------- MODULE QueryingProofs ----------------------------
(***************************************************************************)
(* Theorems about Querying and the reading machine it uses: for any schema *)
(* and service tables, any bytes that are whole or cut, and any number of  *)
(* calls, no call is early, its path and codecs are those of its method,   *)
(* no nested reader passes its end, and no cut goes unnoticed.             *)
(***************************************************************************)
EXTENDS Querying, SequenceTheorems, TLAPS

-----------------------------------------------------------------------------
(* Creation.                                                                 *)

\* A call needs a client, and a client all of its imports.
CreationInv ==
  /\ DOMAIN calls = Calls
  /\ loaded \in 0..Len(Loads)
  /\ creation \in {"pending", "resolved", "rejected"}
  /\ creation = "resolved" => loaded = Len(Loads)
  /\ \A c \in Calls : calls[c] # None => creation = "resolved"

LEMMA LoadsAreASequence == Loads \in Seq(Range(Loads)) /\ Len(Loads) \in Nat
<1> DEFINE files == [i \in DOMAIN Clients |-> ClientFile(Clients[i])]
           more == <<<<"cosmos.bank.v1beta1", "tx">>, <<"cosmos.authz.v1beta1", "tx">>>>
           S == {files[i] : i \in DOMAIN Clients} \cup {more[1], more[2]}
<1>1. Clients \in Seq(Range(Clients))
  BY TablesType
<1>2. Len(Clients) \in Nat /\ DOMAIN Clients = 1..Len(Clients)
  BY <1>1, LenProperties
<1>3. files \in Seq(S)
  <2>1. files \in [1..Len(Clients) -> S]
    BY <1>2
  <2> QED BY <1>2, <2>1, SeqDef
<1>4. more \in Seq(S)
  OBVIOUS
<1>5. files \o more \in Seq(S)
  BY <1>3, <1>4, ConcatProperties
<1>6. Loads = files \o more
  BY DEF Loads
<1> QED BY <1>5, <1>6, SeqOfRange, LenProperties

LEMMA CreationBegins == Init => CreationInv
BY LoadsAreASequence DEF Init, CreationInv

LEMMA CreationStep == CreationInv /\ [Next]_queryVars => CreationInv'
<1> SUFFICES ASSUME CreationInv, [Next]_queryVars PROVE CreationInv'
  OBVIOUS
<1> USE LoadsAreASequence DEF CreationInv
<1>1. CASE Load
  BY <1>1 DEF Load, CreationAfter
<1>2. CASE LoadFails
  BY <1>2 DEF LoadFails
<1>3. ASSUME NEW c \in Calls, Ask(c) PROVE CreationInv'
  BY <1>3 DEF Ask
<1>4. ASSUME NEW c \in Calls, Answer(c) \/ Take(c) \/ Fail(c) \/ Return(c)
      PROVE  CreationInv'
  <2>1. UNCHANGED <<loaded, creation>>
    BY <1>4 DEF Answer, Take, Fail, Return
  <2>2. \E call : calls' = [calls EXCEPT ![c] = call] /\ calls[c] # None
    BY <1>4 DEF Answer, Take, Fail, Return
  <2> QED BY <2>1, <2>2
<1>5. CASE Read \/ UNCHANGED queryVars
  BY <1>5 DEF Read, queryVars
<1> QED BY <1>1, <1>2, <1>3, <1>4, <1>5 DEF Next, Calling

\* create hands out no client before every import is there, and no call is made
\* without one (MerlionClient.create).
THEOREM NoCallIsEarly == Spec => []NothingIsCalledEarly
<1>1. CreationInv => NothingIsCalledEarly
  <2> SUFFICES ASSUME CreationInv, NEW c \in Calls, calls[c] # None,
                      NEW i \in DOMAIN Loads
               PROVE  i <= loaded
    BY DEF NothingIsCalledEarly
  <2>1. i \in 1..Len(Loads)
    BY LoadsAreASequence, LenProperties
  <2> QED BY <2>1, LoadsAreASequence DEF CreationInv
<1> QED BY CreationBegins, CreationStep, <1>1, PTL DEF Spec

-----------------------------------------------------------------------------
(* The readers that are active: what a step does to them, but for messages.  *)

IsSequence(s) == s \in Seq(Range(s))

\* Two calls of internalBinaryRead that differ in their messages only.
SameCall(call, other) ==
  /\ call.fields = other.fields
  /\ call.field = other.field
  /\ call.end = other.end

LEMMA WithLastKeeps ==
  ASSUME NEW s, IsSequence(s), s # <<>>, NEW message
  PROVE  /\ IsSequence(WithLast(s, message))
         /\ Len(s) \in Nat \ {0} /\ Len(WithLast(s, message)) = Len(s)
         /\ \A i \in 1..Len(s) : SameCall(WithLast(s, message)[i], s[i])
         /\ \A i \in 1..Len(s) - 1 : WithLast(s, message)[i] = s[i]
         /\ WithLast(s, message)[Len(s)].message = message
<1> DEFINE call == WithMessage(Last(s), message)
           S == Range(s) \cup {call}
<1>1. s \in Seq(S) /\ Len(s) \in Nat \ {0}
  BY SeqMonotonic, EmptySeq DEF IsSequence
<1>2. Len(s) \in 1..Len(s) /\ call \in S
  BY <1>1
<1>3. WithLast(s, message) = [s EXCEPT ![Len(s)] = call]
  BY DEF WithLast
<1> HIDE DEF call, S
<1>4. /\ WithLast(s, message) \in Seq(S)
      /\ Len(WithLast(s, message)) = Len(s)
      /\ \A j \in 1..Len(s) :
           WithLast(s, message)[j] = IF j = Len(s) THEN call ELSE s[j]
  BY <1>1, <1>2, <1>3, ExceptSeq
<1>5. IsSequence(WithLast(s, message))
  BY <1>4, SeqOfRange DEF IsSequence
<1>6. SameCall(call, s[Len(s)]) /\ call.message = message
  BY DEF call, WithMessage, Last, SameCall
<1>7. ASSUME NEW i \in 1..Len(s) PROVE SameCall(WithLast(s, message)[i], s[i])
  BY <1>4, <1>6 DEF SameCall
<1> QED BY <1>1, <1>2, <1>4, <1>5, <1>6, <1>7

LEMMA FrontKeeps ==
  ASSUME NEW s, IsSequence(s), Len(s) > 1
  PROVE  /\ IsSequence(Front(s)) /\ Front(s) # <<>>
         /\ Len(Front(s)) = Len(s) - 1
         /\ \A i \in 1..Len(s) - 1 : Front(s)[i] = s[i]
<1>1. Len(s) \in Nat /\ \A i \in 1..Len(s) - 1 : s[i] \in Range(s)
  BY LenProperties, ElementOfSeq DEF IsSequence
<1>2. /\ Front(s) \in Seq(Range(s))
      /\ Len(Front(s)) = Len(s) - 1
      /\ \A i \in 1..Len(s) - 1 : Front(s)[i] = s[i]
  <2>1. /\ SubSeq(s, 1, Len(s) - 1) \in Seq(Range(s))
        /\ Len(SubSeq(s, 1, Len(s) - 1)) = Len(s) - 1
        /\ \A i \in 1..(Len(s) - 1) - 1 + 1 : SubSeq(s, 1, Len(s) - 1)[i] = s[1 + i - 1]
    BY <1>1, SubSeqProperties
  <2> QED BY <1>1, <2>1 DEF Front
<1> QED BY <1>1, <1>2, SeqOfRange, EmptySeq DEF IsSequence

LEMMA AppendKeeps ==
  ASSUME NEW s, IsSequence(s), NEW call
  PROVE  /\ IsSequence(Append(s, call)) /\ Append(s, call) # <<>>
         /\ Len(s) \in Nat /\ Len(Append(s, call)) = Len(s) + 1
         /\ \A i \in 1..Len(s) : Append(s, call)[i] = s[i]
         /\ Append(s, call)[Len(s) + 1] = call
<1> DEFINE S == Range(s) \cup {call}
<1>1. s \in Seq(S) /\ call \in S
  BY SeqMonotonic DEF IsSequence
<1> HIDE DEF S
<1>2. /\ Append(s, call) \in Seq(S) /\ Append(s, call) # <<>>
      /\ Len(Append(s, call)) = Len(s) + 1
      /\ \A i \in 1..Len(s) : Append(s, call)[i] = s[i]
      /\ Append(s, call)[Len(s) + 1] = call
  BY <1>1, AppendProperties
<1>3. IsSequence(Append(s, call)) /\ Len(s) \in Nat
  BY <1>1, <1>2, SeqOfRange, LenProperties DEF IsSequence
<1> QED BY <1>2, <1>3

\* Bytes are consumed by the last call, which goes on.
Consumes ==
  /\ InLoop /\ Here.token = "tag"
  /\ \/ After.token = "number" /\ pos' = pos + 2
     \/ IsDelimited /\ pos' = EndOfValue
  /\ outcome' = "reading"
  /\ Len(frames') = Len(frames)
  /\ \A i \in 1..Len(frames) : SameCall(frames'[i], frames[i])

\* A call begins.
Enters ==
  /\ InLoop /\ Here.token = "tag" /\ After.token = "length" /\ pos' = pos + 2
  /\ outcome' = "reading"
  /\ Len(frames') = Len(frames) + 1
  /\ \A i \in 1..Len(frames) : frames'[i] = frames[i]
  /\ \E field \in Top.fields :
       /\ field.no = Here.no /\ field.message \in DOMAIN Schema
       /\ frames'[Len(frames) + 1].fields = FieldsOf(field.message)
       /\ frames'[Len(frames) + 1].end = EndOfValue

\* A call returns to another one.
Returns ==
  /\ AtEnd /\ pos' = pos
  /\ outcome' = "reading"
  /\ Len(frames) > 1 /\ Len(frames') = Len(frames) - 1
  /\ \A i \in 1..Len(frames) - 1 : SameCall(frames'[i], frames[i])

\* Or all is over.
Stops ==
  /\ UNCHANGED <<pos, frames>>
  /\ outcome' = "done" => AtEnd /\ Len(frames) = 1
  /\ outcome' \in {"done", "garbled"}

LEMMA StepShape ==
  ASSUME ReadStep, IsSequence(frames), frames # <<>>
  PROVE  /\ outcome = "reading" /\ reading' = reading
         /\ IsSequence(frames') /\ frames' # <<>>
         /\ Consumes \/ Enters \/ Returns \/ Stops
<1>1. Len(frames) \in Nat \ {0}
  BY EmptySeq DEF IsSequence
<1>2. ASSUME NEW message, frames' = WithLast(frames, message)
      PROVE  /\ IsSequence(frames') /\ frames' # <<>>
             /\ Len(frames') = Len(frames)
             /\ \A i \in 1..Len(frames) : SameCall(frames'[i], frames[i])
  BY <1>1, <1>2, WithLastKeeps, EmptySeq
<1>3. CASE ReadContent
  <2>1. PICK field \in Known : CanReadContent(field) /\ PutOnTop(field, Content)
    BY <1>3 DEF ReadContent
  <2>2. Here.token = "tag" /\ IsDelimited
    BY <2>1 DEF Known, CanReadContent
  <2> QED BY <1>2, <1>3, <2>1, <2>2 DEF ReadContent, PutOnTop, Consumes, InLoop
<1>4. CASE ReadNumber
  <2> DEFINE AsList(field) == IsList(field) /\ Here.wireType = "LengthDelimited"
  <2>1. PICK field \in Known :
          /\ CanReadNumber(field)
          /\ IF AsList(field)
             THEN /\ frames' = WithLast(frames,
                       [Top.message EXCEPT ![Slot(field)] =
                         @ \o [i \in DOMAIN Content |-> Content[i].value]])
                  /\ pos' = EndOfValue
             ELSE PutOnTop(field, After.value) /\ pos' = pos + 2
    BY <1>4 DEF ReadNumber
  <2>2. Here.token = "tag"
    BY <2>1 DEF Known
  <2>3. \E message : frames' = WithLast(frames, message)
    BY <2>1 DEF PutOnTop
  <2>4. \/ After.token = "number" /\ pos' = pos + 2
        \/ IsDelimited /\ pos' = EndOfValue
    BY <2>1 DEF CanReadNumber
  <2> QED BY <1>2, <1>4, <2>2, <2>3, <2>4 DEF ReadNumber, Consumes, InLoop
<1>5. CASE Enter
  <2>1. PICK field \in Known :
          /\ CanEnter(field)
          /\ frames' = Append(frames,
               Called(FieldsOf(field.message), field, EndOfValue,
                      Target(Top.message, field)))
    BY <1>5 DEF Enter
  <2> DEFINE call == Called(FieldsOf(field.message), field, EndOfValue,
                            Target(Top.message, field))
  <2>2. call.fields = FieldsOf(field.message) /\ call.end = EndOfValue
    BY DEF Called
  <2>3. field \in Top.fields /\ field.no = Here.no /\ Here.token = "tag"
    BY DEF Known
  <2> HIDE DEF call
  <2>4. /\ IsSequence(frames') /\ frames' # <<>>
        /\ Len(frames') = Len(frames) + 1
        /\ \A i \in 1..Len(frames) : frames'[i] = frames[i]
        /\ frames'[Len(frames) + 1] = call
    BY <2>1, AppendKeeps DEF call
  <2> QED BY <1>5, <2>1, <2>2, <2>3, <2>4 DEF Enter, Enters, CanEnter, InLoop
<1>6. CASE Leave
  <2> DEFINE message == Put(Last(Front(frames)).message, Top.field, Top.message)
  <2>1. frames' = WithLast(Front(frames), message) /\ Len(frames) > 1
    BY <1>6 DEF Leave
  <2> HIDE DEF message
  <2>2. /\ IsSequence(Front(frames)) /\ Front(frames) # <<>>
        /\ Len(Front(frames)) = Len(frames) - 1
        /\ \A i \in 1..Len(frames) - 1 : Front(frames)[i] = frames[i]
    BY <2>1, FrontKeeps
  <2>3. /\ IsSequence(frames') /\ Len(frames') = Len(frames) - 1
        /\ \A i \in 1..Len(frames) - 1 : SameCall(frames'[i], Front(frames)[i])
    BY <2>1, <2>2, WithLastKeeps
  <2>4. \A i \in 1..Len(frames) - 1 : SameCall(frames'[i], frames[i])
    BY <2>2, <2>3
  <2>5. frames' # <<>>
    BY <1>1, <2>1, <2>3, EmptySeq
  <2> QED BY <1>6, <2>1, <2>3, <2>4, <2>5 DEF Leave, Returns
<1>7. CASE Skip
  <2>1. \E message : frames' = WithLast(frames, message)
    BY <1>7 DEF Skip
  <2>2. /\ Here.token = "tag"
        /\ \/ After.token = "number" /\ pos' = pos + 2
           \/ IsDelimited /\ pos' = EndOfValue
    BY <1>7 DEF Skip, CanSkip
  <2> QED BY <1>2, <1>7, <2>1, <2>2 DEF Skip, Consumes, InLoop
<1>8. CASE Finish
  BY <1>8 DEF Finish, Stops
<1>9. CASE Garble
  BY <1>9 DEF Garble, Stops, InLoop
<1> QED BY <1>3, <1>4, <1>5, <1>6, <1>7, <1>8, <1>9 DEF ReadStep

-----------------------------------------------------------------------------
(* Calls: their paths, their codecs and the one that has the reader.         *)

Statuses == {"sent", "answered", "resolved", "rejected"}

CallOf(client, method, status, answer) ==
  LET rpc == client.service.rpcs[method.index + 1] IN
  [client |-> client.key, method |-> method,
   path |-> <<ClientFile(client), rpc.name>>,
   writtenAs |-> rpc.input, readAs |-> rpc.output,
   status |-> status, answer |-> answer]

IsCall(call) ==
  \E client \in AllClients : \E method \in Range(client.methods) :
    \E status \in Statuses : \E answer : call = CallOf(client, method, status, answer)

IsAnswered(c) == calls[c] # None /\ calls[c].status = "answered"

\* Only one call at a time waits for the reader, and for bytes that are whole.
CallInv ==
  /\ DOMAIN calls = Calls
  /\ \A c \in Calls : calls[c] # None => IsCall(calls[c])
  /\ \A c \in Calls : IsAnswered(c) => outcome # "idle" /\ reading.message # None
  /\ \A c, d \in Calls : IsAnswered(c) /\ IsAnswered(d) => c = d

\* What is at the path of a call is the procedure it was made for.
LEMMA PathsLeadBack ==
  ASSUME NEW client \in AllClients, NEW method \in Range(client.methods),
         NEW status, NEW answer
  PROVE  LET call == CallOf(client, method, status, answer)
             rpc == client.service.rpcs[method.index + 1] IN
         /\ Served(call.path) = rpc
         /\ call.writtenAs = rpc.input /\ call.readAs = rpc.output
         /\ call.path[1][1] = client.service.package
         /\ call.method = method /\ call.status = status /\ call.answer = answer
         /\ Qualified(client.service.package, rpc.output) \in DOMAIN Schema
<1> DEFINE rpc == client.service.rpcs[method.index + 1]
           file == ClientFile(client)
           found == CHOOSE o \in AllClients : ClientFile(o) = file
<1>1. rpc \in Range(client.service.rpcs)
  BY TablesType DEF Range
<1>2. found \in AllClients /\ ClientFile(found) = file
  OBVIOUS
<1>3. found.service = client.service
  BY <1>2, TablesType
<1>4. (CHOOSE p \in Range(client.service.rpcs) : p.name = rpc.name) = rpc
  BY <1>1, TablesType
<1>5. Served(<<file, rpc.name>>) = rpc
  BY <1>3, <1>4 DEF Served
<1>6. Qualified(client.service.package, rpc.output) \in DOMAIN Schema
  BY <1>1, TablesType
<1>7. file[1] = client.service.package
  BY DEF ClientFile
<1> HIDE DEF rpc, file
<1>8. CallOf(client, method, status, answer) =
        [client |-> client.key, method |-> method, path |-> <<file, rpc.name>>,
         writtenAs |-> rpc.input, readAs |-> rpc.output,
         status |-> status, answer |-> answer]
  BY DEF CallOf, rpc, file
<1>9. CallOf(client, method, status, answer).path = <<file, rpc.name>>
  BY <1>8
<1> QED BY <1>5, <1>6, <1>7, <1>8, <1>9 DEF rpc

ResolvedWith(call, answer) == [call EXCEPT !.status = "resolved", !.answer = answer]

\* The updates of a call leave it one.
LEMMA CallsStayCalls ==
  ASSUME NEW call, IsCall(call), NEW status \in Statuses, NEW answer
  PROVE  /\ IsCall([call EXCEPT !.status = status])
         /\ [call EXCEPT !.status = status].status = status
         /\ [call EXCEPT !.status = status].answer = call.answer
         /\ IsCall(ResolvedWith(call, answer))
         /\ ResolvedWith(call, answer).status = "resolved"
         /\ ResolvedWith(call, answer).answer = answer
<1>1. PICK client \in AllClients :
        \E method \in Range(client.methods) : \E was \in Statuses : \E had :
          call = CallOf(client, method, was, had)
  BY DEF IsCall
<1>2. PICK method \in Range(client.methods), was \in Statuses :
        \E had : call = CallOf(client, method, was, had)
  BY <1>1
<1>3. PICK had : call = CallOf(client, method, was, had)
  BY <1>2
<1>4. [call EXCEPT !.status = status] = CallOf(client, method, status, had)
  BY <1>3 DEF CallOf
<1>5. ResolvedWith(call, answer) = CallOf(client, method, "resolved", answer)
  <2>1. [call EXCEPT !.status = "resolved"] = CallOf(client, method, "resolved", had)
    BY <1>3 DEF CallOf
  <2>2. ResolvedWith(call, answer)
          = [[call EXCEPT !.status = "resolved"] EXCEPT !.answer = answer]
    BY DEF ResolvedWith
  <2>3. [CallOf(client, method, "resolved", had) EXCEPT !.answer = answer]
          = CallOf(client, method, "resolved", answer)
    BY DEF CallOf
  <2> QED BY <2>1, <2>2, <2>3
<1>6. IsCall(CallOf(client, method, status, had))
  BY DEF IsCall
<1>7. IsCall(CallOf(client, method, "resolved", answer))
  BY DEF IsCall, Statuses
<1>8. /\ CallOf(client, method, status, had).status = status
      /\ CallOf(client, method, status, had).answer = had /\ call.answer = had
      /\ CallOf(client, method, "resolved", answer).status = "resolved"
      /\ CallOf(client, method, "resolved", answer).answer = answer
  BY <1>3 DEF CallOf
<1> QED BY <1>4, <1>5, <1>6, <1>7, <1>8

LEMMA CallsResolve ==
  ASSUME NEW call, IsCall(call), NEW answer
  PROVE  /\ ResolvedWith(call, answer).status = "resolved"
         /\ ResolvedWith(call, answer).answer = answer
<1>1. "resolved" \in Statuses
  BY DEF Statuses
<1> QED BY <1>1, CallsStayCalls

LEMMA ReadStepKeepsReading ==
  ReadStep => reading' = reading /\ outcome = "reading" /\ outcome' # "idle"
BY DEF ReadStep, ReadContent, ReadNumber, Enter, Leave, Skip, Finish, Garble, InLoop

LEMMA CallsBegin == Init => CallInv
BY DEF Init, CallInv, IsAnswered

LEMMA CallStep == CallInv /\ [Next]_queryVars => CallInv'
<1> SUFFICES ASSUME CallInv, [Next]_queryVars PROVE CallInv'
  OBVIOUS
<1> USE DEF CallInv, IsAnswered
<1>1. CASE Load \/ LoadFails \/ UNCHANGED queryVars
  <2>1. UNCHANGED <<calls, reading, outcome>>
    BY <1>1 DEF Load, LoadFails, queryVars, codecVars
  <2> QED BY <2>1 DEF IsCall
<1>2. ASSUME NEW c \in Calls, Ask(c) PROVE CallInv'
  <2>1. PICK client \in AllClients :
          \E method \in Range(client.methods) :
            calls' = [calls EXCEPT ![c] = CallOf(client, method, "sent", None)]
    BY <1>2 DEF Ask, CallOf, Procedure
  <2>2. PICK method \in Range(client.methods) :
          calls' = [calls EXCEPT ![c] = CallOf(client, method, "sent", None)]
    BY <2>1
  <2>3. IsCall(CallOf(client, method, "sent", None))
    BY DEF IsCall, Statuses
  <2>4. CallOf(client, method, "sent", None).status = "sent"
    BY DEF CallOf
  <2>5. UNCHANGED <<reading, outcome>>
    BY <1>2 DEF Ask, codecVars
  <2> QED BY <2>2, <2>3, <2>4, <2>5
<1>3. ASSUME NEW c \in Calls, Answer(c) PROVE CallInv'
  <2>1. /\ calls[c] # None /\ outcome = "idle" /\ outcome' = "reading"
        /\ calls' = [calls EXCEPT ![c] = [calls[c] EXCEPT !.status = "answered"]]
    BY <1>3 DEF Answer, Begin
  <2>2. reading'.message # None
    <3> DEFINE type == Qualified(calls[c].path[1][1], Served(calls[c].path).output)
    <3>1. PICK answer \in AnswersOf(type) :
            reading' = [type |-> Qualified(calls[c].path[1][1], calls[c].readAs),
                        wire |-> answer.wire, message |-> answer.message]
      BY <1>3 DEF Answer, Begin
    <3>2. type \in DOMAIN Schema
      BY <2>1, PathsLeadBack DEF IsCall
    <3>3. answer.message # None
      BY <3>2, AnswersType
    <3> QED BY <3>1, <3>3
  <2>3. IsCall([calls[c] EXCEPT !.status = "answered"])
    BY <2>1, CallsStayCalls DEF Statuses
  <2>4. \A d \in Calls : ~IsAnswered(d)
    BY <2>1
  <2> QED BY <2>1, <2>2, <2>3, <2>4
<1>4. ASSUME NEW c \in Calls, Take(c) PROVE CallInv'
  <2>1. IsAnswered(c)
    BY <1>4 DEF Take
  <2>2. IsCall(calls[c]) /\ "rejected" \in Statuses
    BY <2>1 DEF Statuses
  <2>3. /\ IsCall([calls[c] EXCEPT !.status = "rejected"])
        /\ [calls[c] EXCEPT !.status = "rejected"].status = "rejected"
        /\ IsCall(ResolvedWith(calls[c], frames[1].message))
        /\ ResolvedWith(calls[c], frames[1].message).status = "resolved"
    BY <2>2, CallsStayCalls
  <2>4. \/ calls' = [calls EXCEPT ![c] = [calls[c] EXCEPT !.status = "rejected"]]
        \/ calls' = [calls EXCEPT ![c] = ResolvedWith(calls[c], frames[1].message)]
    BY <1>4 DEF Take, ResolvedWith
  <2>5. PICK call : /\ calls' = [calls EXCEPT ![c] = call]
                    /\ IsCall(call) /\ call.status # "answered"
    BY <2>3, <2>4
  <2> QED BY <2>1, <2>5
<1>5. ASSUME NEW c \in Calls, Fail(c) PROVE CallInv'
  <2>1. /\ calls[c] # None
        /\ calls' = [calls EXCEPT ![c] = [calls[c] EXCEPT !.status = "rejected"]]
        /\ UNCHANGED <<reading, outcome>>
    BY <1>5 DEF Fail, codecVars
  <2>2. /\ IsCall([calls[c] EXCEPT !.status = "rejected"])
        /\ [calls[c] EXCEPT !.status = "rejected"].status = "rejected"
    BY <2>1, CallsStayCalls DEF Statuses
  <2> QED BY <2>1, <2>2
<1>6. ASSUME NEW c \in Calls, Return(c) PROVE CallInv'
  BY <1>6 DEF Return, codecVars
<1>7. CASE Read
  BY <1>7, ReadStepKeepsReading DEF Read
<1> QED BY <1>1, <1>2, <1>3, <1>4, <1>5, <1>6, <1>7 DEF Next, Calling

LEMMA CallsAreCalls == Spec => []CallInv
BY CallsBegin, CallStep, PTL DEF Spec

-----------------------------------------------------------------------------
(* Readers: their ends and their position.                                   *)

\* What may be read: bytes that are whole, or were cut.
Readable(r) ==
  /\ r.type \in DOMAIN Schema /\ IsWire(r.wire)
  /\ IF r.message = None THEN IsCut(r.type, r.wire) ELSE IsWhole(r.wire)

\* The first reader is that of the type, to the end of the bytes, and none gets
\* past that.
BytesInv ==
  outcome # "idle" =>
    /\ Readable(reading)
    /\ IsSequence(frames) /\ frames # <<>>
    /\ frames[1].fields = FieldsOf(reading.type)
    /\ frames[1].end = Len(reading.wire)
    /\ \A i \in 1..Len(frames) : frames[i].end \in Nat
    /\ pos \in 0..Len(reading.wire)

\* The end of a nested reader is that of a length it is behind of.
EndsInv ==
  outcome # "idle" /\ reading.message # None =>
    /\ pos <= Top.end
    /\ \A i \in 2..Len(frames) :
         /\ frames[i].end <= frames[i - 1].end
         /\ \E j \in Lengths(reading.wire) :
              j <= pos /\ frames[i].end = EndOf(reading.wire, j)

\* Bytes are cut after t.  Either the fields before t are read, or the reader of
\* the field at t waits for an end that does not come.
ReadsTo(t) ==
  \/ pos < t /\ \A i \in 2..Len(frames) : frames[i].end < t
  \/ /\ Len(frames) >= 2 /\ frames[2].end > Len(reading.wire)
     /\ frames[2].fields # {}

CutInv ==
  outcome # "idle" /\ reading.message = None =>
    /\ outcome # "done"
    /\ \E t \in DOMAIN reading.wire :
         IsCutAt(reading.type, reading.wire, t) /\ ReadsTo(t)

ReaderInv == BytesInv /\ EndsInv /\ CutInv

LEMMA WireIs ==
  ASSUME NEW wire, IsWire(wire)
  PROVE  /\ Len(wire) \in Nat /\ DOMAIN wire = 1..Len(wire)
         /\ \A i \in Lengths(wire) : i \in 1..Len(wire) /\ EndOf(wire, i) \in Nat
         /\ \A i \in Lengths(wire) : i <= EndOf(wire, i)
<1>1. Len(wire) \in Nat /\ DOMAIN wire = 1..Len(wire)
  BY LenProperties DEF IsWire
<1> QED BY <1>1 DEF IsWire, Lengths, EndOf

\* The first call of a reader, and nothing read yet.
Begun == outcome = "reading" /\ \E r : Readable(r) /\ Reading(r)

LEMMA ReadingBegins ==
  ASSUME Begun
  PROVE  ReaderInv
<1>0. PICK r : Readable(r) /\ Reading(r)
  BY DEF Begun
<1>1. /\ reading = r /\ pos = 0 /\ frames = <<FirstCall(r)>>
      /\ Len(frames) = 1 /\ frames # <<>> /\ Top = frames[1]
  BY <1>0 DEF Reading, Top, Last
<1>2. /\ frames[1].fields = FieldsOf(r.type) /\ frames[1].end = Len(r.wire)
      /\ IsSequence(frames)
  <2>1. FirstCall(r).fields = FieldsOf(r.type) /\ FirstCall(r).end = Len(r.wire)
    BY DEF FirstCall, Called
  <2> HIDE DEF FirstCall
  <2>2. frames \in Seq({FirstCall(r)})
    BY <1>1
  <2> QED BY <1>1, <2>1, <2>2, SeqOfRange DEF IsSequence
<1>3. Len(r.wire) \in Nat /\ DOMAIN r.wire = 1..Len(r.wire)
  BY <1>0, WireIs DEF Readable
<1>4. BytesInv /\ EndsInv
  BY <1>0, <1>1, <1>2, <1>3 DEF BytesInv, EndsInv
<1>5. CutInv
  BY <1>0, <1>1, <1>3 DEF CutInv, Begun, Readable, IsCut, ReadsTo
<1> QED BY <1>4, <1>5 DEF ReaderInv

\* What a step of the reader finds after its position.
LEMMA TokensAhead ==
  ASSUME BytesInv, outcome = "reading"
  PROVE  LET wire == reading.wire IN
         /\ Here.token = "tag" =>
              pos + 1 \in DOMAIN wire /\ wire[pos + 1].token = "tag" /\ Here = wire[pos + 1]
         /\ After.token = "number" =>
              pos + 2 \in DOMAIN wire /\ wire[pos + 2].token = "number"
         /\ After.token = "length" =>
              pos + 2 \in Lengths(wire) /\ EndOfValue = EndOf(wire, pos + 2)
BY DEF Here, After, Token, TokenAt, Lengths, EndOfValue, EndOf

LEMMA BytesStep == BytesInv /\ ReadStep => BytesInv'
<1> SUFFICES ASSUME BytesInv, ReadStep PROVE BytesInv'
  OBVIOUS
<1>1. outcome = "reading" /\ reading' = reading
  BY ReadStepKeepsReading
<1>2. /\ Readable(reading) /\ IsSequence(frames) /\ frames # <<>>
      /\ frames[1].fields = FieldsOf(reading.type)
      /\ frames[1].end = Len(reading.wire)
      /\ pos \in 0..Len(reading.wire)
  BY <1>1 DEF BytesInv
<1>3. /\ IsSequence(frames') /\ frames' # <<>>
      /\ Consumes \/ Enters \/ Returns \/ Stops
  BY <1>2, StepShape
<1>4. SameCall(frames'[1], frames[1])
  <2>1. Len(frames) \in Nat \ {0}
    BY <1>2, EmptySeq DEF IsSequence
  <2> QED BY <1>3, <2>1 DEF Consumes, Enters, Returns, Stops, SameCall
<1>5. /\ Len(reading.wire) \in Nat /\ DOMAIN reading.wire = 1..Len(reading.wire)
      /\ \A i \in Lengths(reading.wire) :
           i \in 1..Len(reading.wire) /\ EndOf(reading.wire, i) \in Nat
  BY <1>2, WireIs DEF Readable
<1>6. pos' \in 0..Len(reading.wire)
  <2>1. CASE Consumes
    BY <1>1, <1>5, <2>1, TokensAhead DEF Consumes, IsDelimited
  <2>2. CASE Enters
    BY <1>1, <1>5, <2>2, TokensAhead DEF Enters
  <2>3. CASE Returns \/ Stops
    BY <1>2, <2>3 DEF Returns, Stops
  <2> QED BY <1>3, <2>1, <2>2, <2>3
<1>7. \A i \in 1..Len(frames') : frames'[i].end \in Nat
  <2>1. Len(frames) \in Nat /\ \A i \in 1..Len(frames) : frames[i].end \in Nat
    BY <1>1, <1>2 DEF BytesInv, IsSequence
  <2>2. CASE Consumes
    BY <2>1, <2>2 DEF Consumes, SameCall
  <2>3. CASE Enters
    <3>1. EndOfValue \in Nat
      BY <1>1, <1>5, <2>3, TokensAhead DEF Enters
    <3>2. \A i \in 1..Len(frames) + 1 : i \in 1..Len(frames) \/ i = Len(frames) + 1
      BY <2>1
    <3> QED BY <2>1, <2>3, <3>1, <3>2 DEF Enters
  <2>4. CASE Returns
    <3>1. \A i \in 1..Len(frames) - 1 : i \in 1..Len(frames)
      BY <2>1
    <3> QED BY <2>1, <2>4, <3>1 DEF Returns, SameCall
  <2>5. CASE Stops
    BY <2>1, <2>5 DEF Stops
  <2> QED BY <1>3, <2>2, <2>3, <2>4, <2>5
<1> QED BY <1>1, <1>2, <1>3, <1>4, <1>6, <1>7 DEF BytesInv, SameCall

\* In bytes that are whole the value behind a tag is inside of its reader's end.
LEMMA ValuesAreInside ==
  ASSUME BytesInv, EndsInv, outcome = "reading", reading.message # None,
         InLoop, Here.token = "tag"
  PROVE  /\ pos + 2 <= Top.end
         /\ pos + 2 \in Lengths(reading.wire) => EndOf(reading.wire, pos + 2) <= Top.end
<1> DEFINE wire == reading.wire
<1>1. IsWire(wire) /\ IsWhole(wire) /\ pos \in 0..Len(wire)
  BY DEF BytesInv, Readable
<1>2. /\ Len(wire) \in Nat /\ DOMAIN wire = 1..Len(wire)
      /\ \A i \in Lengths(wire) : i \in 1..Len(wire) /\ EndOf(wire, i) \in Nat
  BY <1>1, WireIs
<1>3. pos + 1 \in DOMAIN wire /\ wire[pos + 1].token = "tag"
  BY TokensAhead
<1>4. Len(frames) \in Nat \ {0} /\ Top = frames[Len(frames)]
  BY EmptySeq DEF BytesInv, IsSequence, Top, Last
<1>5. \/ Top.end = Len(wire)
      \/ \E j \in Lengths(wire) : j <= pos /\ Top.end = EndOf(wire, j)
  <2>1. CASE Len(frames) = 1
    BY <1>4, <2>1 DEF BytesInv
  <2>2. CASE Len(frames) > 1
    <3>1. Len(frames) \in 2..Len(frames)
      BY <1>4, <2>2
    <3> QED BY <1>4, <3>1 DEF EndsInv
  <2>3. \A n \in Nat \ {0} : n = 1 \/ n > 1
    OBVIOUS
  <2>4. Len(frames) = 1 \/ Len(frames) > 1
    BY <1>4, <2>3
  <2> QED BY <2>1, <2>2, <2>4
<1>6. pos < Top.end
  BY <1>1, <1>2, <1>5 DEF InLoop, AtEnd
<1> HIDE DEF wire
<1>7. CASE Top.end = Len(wire)
  <2>1. wire # <<>> /\ Last(wire) = wire[Len(wire)]
    BY <1>2, <1>3, EmptySeq DEF Last
  <2>2. pos + 1 # Len(wire)
    BY <1>1, <1>3, <2>1 DEF IsWhole
  <2>3. \A i \in Lengths(wire) : EndOf(wire, i) <= Len(wire)
    BY <1>1 DEF IsWhole
  <2> QED BY <1>1, <1>2, <1>6, <1>7, <2>2, <2>3 DEF wire
<1>8. ASSUME NEW j \in Lengths(wire), j <= pos, Top.end = EndOf(wire, j)
      PROVE  /\ pos + 2 <= Top.end
             /\ pos + 2 \in Lengths(wire) => EndOf(wire, pos + 2) <= Top.end
  <2>1. wire[Top.end].token # "tag"
    BY <1>1, <1>8 DEF IsWhole
  <2>2. pos + 1 # Top.end
    BY <1>3, <2>1
  <2>3. pos + 2 <= Top.end
    BY <1>1, <1>2, <1>6, <1>8, <2>2
  <2>4. j < pos + 2
    BY <1>1, <1>2, <1>8
  <2>5. pos + 2 \in Lengths(wire) => EndOf(wire, pos + 2) <= EndOf(wire, j)
    BY <1>1, <1>8, <2>3, <2>4 DEF IsWhole
  <2> QED BY <1>8, <2>3, <2>5
<1> QED BY <1>5, <1>7, <1>8 DEF wire

LEMMA EndsStep == BytesInv /\ EndsInv /\ ReadStep => EndsInv'
<1> SUFFICES ASSUME BytesInv, EndsInv, ReadStep, reading.message # None
             PROVE  EndsInv'
  BY ReadStepKeepsReading DEF EndsInv
<1> DEFINE wire == reading.wire
           HasLengthTo(end, p) == \E j \in Lengths(wire) : j <= p /\ end = EndOf(wire, j)
<1>1. outcome = "reading" /\ reading' = reading
  BY ReadStepKeepsReading
<1>2. IsSequence(frames) /\ frames # <<>> /\ pos \in Nat /\ Readable(reading)
  BY <1>1 DEF BytesInv
<1>3. /\ IsSequence(frames') /\ frames' # <<>>
      /\ Consumes \/ Enters \/ Returns \/ Stops
  BY <1>2, StepShape
<1>4. /\ Len(frames) \in Nat \ {0} /\ Top = frames[Len(frames)]
      /\ Len(frames') \in Nat \ {0} /\ Top' = frames'[Len(frames')]
  BY <1>2, <1>3, EmptySeq DEF IsSequence, Top, Last
<1>5. /\ pos <= Top.end
      /\ \A i \in 2..Len(frames) :
           frames[i].end <= frames[i - 1].end /\ HasLengthTo(frames[i].end, pos)
  BY <1>1 DEF EndsInv
<1>6. \A i \in Lengths(wire) : i \in Nat /\ EndOf(wire, i) \in Nat /\ i <= EndOf(wire, i)
  BY <1>2, WireIs DEF Readable
<1>7. \A i \in 1..Len(frames) : frames[i].end \in Nat
  BY <1>1 DEF BytesInv
<1> SUFFICES /\ pos' <= Top'.end
             /\ \A i \in 2..Len(frames') :
                  frames'[i].end <= frames'[i - 1].end /\ HasLengthTo(frames'[i].end, pos')
  BY <1>1 DEF EndsInv
<1>8. CASE Consumes
  <2>1. pos' >= pos /\ pos' <= Top.end /\ pos' \in Nat
    BY <1>1, <1>2, <1>6, <1>8, ValuesAreInside, TokensAhead DEF Consumes, IsDelimited
  <2>2. /\ Len(frames') = Len(frames)
        /\ \A i \in 1..Len(frames) : frames'[i].end = frames[i].end
    BY <1>8 DEF Consumes, SameCall
  <2>3. \A i \in 2..Len(frames) : HasLengthTo(frames[i].end, pos')
    BY <1>2, <1>5, <1>6, <2>1
  <2> HIDE DEF HasLengthTo
  <2> QED BY <1>4, <1>5, <2>1, <2>2, <2>3
<1>9. CASE Enters
  <2>1. /\ pos + 2 \in Lengths(wire) /\ EndOfValue = EndOf(wire, pos + 2)
        /\ EndOf(wire, pos + 2) <= Top.end /\ pos' = pos + 2
    BY <1>1, <1>9, ValuesAreInside, TokensAhead DEF Enters
  <2>2. /\ Len(frames') = Len(frames) + 1
        /\ \A i \in 1..Len(frames) : frames'[i] = frames[i]
        /\ frames'[Len(frames) + 1].end = EndOf(wire, pos + 2)
    BY <1>9, <2>1 DEF Enters
  <2>3. \A i \in 2..Len(frames) : HasLengthTo(frames[i].end, pos')
    BY <1>2, <1>5, <1>6, <2>1
  <2>4. HasLengthTo(EndOf(wire, pos + 2), pos')
    BY <2>1, <1>2
  <2>5. pos' <= Top'.end
    BY <1>4, <1>6, <2>1, <2>2
  <2> HIDE DEF HasLengthTo
  <2>6. ASSUME NEW i \in 2..Len(frames')
        PROVE  frames'[i].end <= frames'[i - 1].end /\ HasLengthTo(frames'[i].end, pos')
    <3>1. CASE i = Len(frames) + 1
      BY <1>4, <2>1, <2>2, <2>4, <3>1
    <3>2. CASE i # Len(frames) + 1
      <4>1. i \in 2..Len(frames) /\ i - 1 \in 1..Len(frames) /\ i \in 1..Len(frames)
        BY <1>4, <2>2, <3>2
      <4> QED BY <1>5, <2>2, <2>3, <4>1
    <3> QED BY <3>1, <3>2
  <2> QED BY <2>5, <2>6
<1>10. CASE Returns
  <2>1. /\ Len(frames) > 1 /\ Len(frames') = Len(frames) - 1 /\ pos' = pos
        /\ \A i \in 1..Len(frames) - 1 : frames'[i].end = frames[i].end
    BY <1>10 DEF Returns, SameCall
  <2> HIDE DEF HasLengthTo
  <2>2. pos' <= Top'.end
    <3>1. Len(frames) \in 2..Len(frames) /\ Len(frames) - 1 \in 1..Len(frames) - 1
      BY <1>4, <2>1
    <3> QED BY <1>2, <1>4, <1>5, <1>7, <2>1, <3>1
  <2>3. ASSUME NEW i \in 2..Len(frames')
        PROVE  frames'[i].end <= frames'[i - 1].end /\ HasLengthTo(frames'[i].end, pos')
    <3>1. /\ i \in 2..Len(frames)
          /\ i \in 1..Len(frames) - 1 /\ i - 1 \in 1..Len(frames) - 1
      BY <1>4, <2>1
    <3> QED BY <1>5, <2>1, <3>1
  <2> QED BY <2>2, <2>3
<1>11. CASE Stops
  BY <1>4, <1>5, <1>11 DEF Stops
<1> QED BY <1>3, <1>8, <1>9, <1>10, <1>11

\* What is read before a cut ends before it.
LEMMA ValuesBeforeCut ==
  ASSUME BytesInv, outcome = "reading", NEW t \in DOMAIN reading.wire,
         IsCutAt(reading.type, reading.wire, t), pos < t
  PROVE  /\ Consumes => pos' \in Nat /\ pos' < t
         /\ Enters /\ pos + 1 # t =>
              pos + 2 \in Nat /\ pos + 2 < t /\ EndOf(reading.wire, pos + 2) < t
<1> DEFINE wire == reading.wire
<1>1. IsWire(wire) /\ pos \in 0..Len(wire)
  BY DEF BytesInv, Readable
<1>2. /\ Len(wire) \in Nat /\ DOMAIN wire = 1..Len(wire)
      /\ \A i \in Lengths(wire) : i \in 1..Len(wire) /\ EndOf(wire, i) \in Nat
  BY <1>1, WireIs
<1>3. wire[t].token = "tag" /\ t \in 1..Len(wire)
  BY <1>2 DEF IsCutAt
<1>4. \A i \in Lengths(wire) : wire[i].token = "length"
  BY DEF Lengths
<1>5. \/ t = Len(wire)
      \/ t + 1 \in Lengths(wire) /\ EndOf(wire, t + 1) > Len(wire)
  BY DEF IsCutAt
<1>6. \A i \in Lengths(wire) : i < t => EndOf(wire, i) < t
  BY DEF IsCutAt
<1> HIDE DEF wire
<1>7. ASSUME Consumes PROVE pos' \in Nat /\ pos' < t
  <2>1. CASE After.token = "number" /\ pos' = pos + 2
    <3>1. pos + 2 \in DOMAIN wire /\ wire[pos + 2].token = "number"
      BY <2>1, TokensAhead DEF wire
    <3>2. pos + 2 # t
      BY <1>3, <3>1
    <3>3. pos + 1 # t
      <4>1. ASSUME pos + 1 = t PROVE FALSE
        <5>1. t + 1 = pos + 2
          BY <1>1, <4>1
        <5> QED BY <1>2, <1>3, <1>4, <1>5, <3>1, <5>1
      <4> QED BY <4>1
    <3> QED BY <1>1, <1>3, <2>1, <3>2, <3>3
  <2>2. CASE IsDelimited /\ pos' = EndOfValue
    <3>1. /\ pos + 2 \in Lengths(wire) /\ EndOfValue = EndOf(wire, pos + 2)
          /\ EndOf(wire, pos + 2) <= Len(wire)
      BY <2>2, TokensAhead DEF IsDelimited, wire
    <3>2. pos + 2 # t
      BY <1>3, <1>4, <3>1
    <3>3. pos + 1 # t
      <4>1. ASSUME pos + 1 = t PROVE FALSE
        <5>1. t + 1 = pos + 2
          BY <1>1, <4>1
        <5> QED BY <1>2, <1>3, <1>5, <3>1, <5>1
      <4> QED BY <4>1
    <3>4. pos + 2 < t
      BY <1>1, <1>3, <3>2, <3>3
    <3> QED BY <1>2, <1>6, <2>2, <3>1, <3>4
  <2> QED BY <1>7, <2>1, <2>2 DEF Consumes
<1>8. ASSUME Enters, pos + 1 # t
      PROVE  pos + 2 \in Nat /\ pos + 2 < t /\ EndOf(wire, pos + 2) < t
  <2>1. pos + 2 \in Lengths(wire)
    BY <1>8, TokensAhead DEF Enters, wire
  <2>2. pos + 2 # t
    BY <1>3, <1>4, <2>1
  <2>3. pos + 2 \in Nat /\ pos + 2 < t
    BY <1>1, <1>3, <1>8, <2>2
  <2> QED BY <1>6, <2>1, <2>3
<1> QED BY <1>7, <1>8 DEF wire

LEMMA CutStep == BytesInv /\ CutInv /\ ReadStep => CutInv'
<1> SUFFICES ASSUME BytesInv, CutInv, ReadStep, reading.message = None
             PROVE  CutInv'
  BY ReadStepKeepsReading DEF CutInv
<1> DEFINE wire == reading.wire
<1>1. outcome = "reading" /\ reading' = reading
  BY ReadStepKeepsReading
<1>2. /\ IsSequence(frames) /\ frames # <<>> /\ Readable(reading)
      /\ frames[1].fields = FieldsOf(reading.type) /\ frames[1].end = Len(wire)
      /\ pos \in 0..Len(wire)
  BY <1>1 DEF BytesInv
<1>3. Consumes \/ Enters \/ Returns \/ Stops
  BY <1>2, StepShape
<1>4. /\ Len(frames) \in Nat \ {0} /\ Top = frames[Len(frames)]
      /\ \A i \in 1..Len(frames) : frames[i].end \in Nat
  BY <1>1, <1>2, EmptySeq DEF BytesInv, IsSequence, Top, Last
<1>5. PICK t \in DOMAIN wire : IsCutAt(reading.type, wire, t) /\ ReadsTo(t)
  BY <1>1 DEF CutInv
<1>6. FieldsOf(reading.type) # {} /\ Len(wire) \in Nat /\ t \in 1..Len(wire)
  BY <1>2, WireIs DEF Readable, IsCut
<1> SUFFICES outcome' # "done" /\ ReadsTo(t)'
  BY <1>1, <1>5 DEF CutInv
<1>7. CASE pos < t /\ \A i \in 2..Len(frames) : frames[i].end < t
  <2>1. CASE Consumes
    <3>1. pos' < t
      BY <1>1, <1>5, <1>7, <2>1, ValuesBeforeCut
    <3> QED BY <1>4, <1>7, <2>1, <3>1 DEF Consumes, SameCall, ReadsTo
  <2>2. CASE Enters /\ pos + 1 = t
    <3>1. Len(frames) = 1
      <4>1. ASSUME Len(frames) > 1 PROVE FALSE
        <5>1. Top.end < t /\ Top.end \in Nat
          BY <1>4, <1>7, <4>1
        <5>2. pos >= Top.end
          BY <1>2, <1>6, <2>2, <5>1
        <5> QED BY <2>2, <5>2 DEF Enters, InLoop, AtEnd
      <4>2. \A n \in Nat \ {0} : n = 1 \/ n > 1
        OBVIOUS
      <4> QED BY <1>4, <4>1, <4>2
    <3>2. Here = wire[t] /\ EndOfValue = EndOf(wire, t + 1) /\ t + 1 \in Lengths(wire)
      <4>1. t + 1 = pos + 2
        BY <1>2, <2>2
      <4> QED BY <1>1, <2>2, <4>1, TokensAhead DEF Enters
    <3>3. /\ EndOf(wire, t + 1) > Len(wire)
          /\ \A field \in FieldsOf(reading.type) :
               field.no = wire[t].no /\ field.message \in DOMAIN Schema =>
                 FieldsOf(field.message) # {}
      <4>1. t + 1 \in 1..Len(wire)
        BY <1>2, <3>2, WireIs DEF Readable
      <4>2. t # Len(wire)
        BY <1>6, <4>1
      <4> QED BY <1>5, <4>2 DEF IsCutAt
    <3>4. Top.fields = FieldsOf(reading.type)
      BY <1>2, <1>4, <3>1
    <3>5. PICK field \in Top.fields :
            /\ field.no = Here.no /\ field.message \in DOMAIN Schema
            /\ frames'[Len(frames) + 1].fields = FieldsOf(field.message)
            /\ frames'[Len(frames) + 1].end = EndOfValue
      BY <2>2 DEF Enters
    <3>6. frames'[2].fields # {} /\ frames'[2].end > Len(wire)
      BY <3>1, <3>2, <3>3, <3>4, <3>5
    <3> QED BY <1>1, <2>2, <3>1, <3>6 DEF Enters, ReadsTo
  <2>3. CASE Enters /\ pos + 1 # t
    <3>1. pos + 2 < t /\ EndOf(wire, pos + 2) < t
      BY <1>1, <1>5, <1>7, <2>3, ValuesBeforeCut
    <3>2. EndOfValue < t
      BY <1>1, <2>3, <3>1, TokensAhead DEF Enters
    <3>3. ASSUME NEW i \in 2..Len(frames') PROVE frames'[i].end < t
      <4>1. CASE i = Len(frames) + 1
        BY <2>3, <3>2, <4>1 DEF Enters
      <4>2. CASE i # Len(frames) + 1
        <5>1. i \in 2..Len(frames) /\ i \in 1..Len(frames)
          BY <1>4, <2>3, <4>2 DEF Enters
        <5> QED BY <1>7, <2>3, <5>1 DEF Enters
      <4> QED BY <4>1, <4>2
    <3> QED BY <2>3, <3>1, <3>3 DEF Enters, ReadsTo
  <2>4. CASE Returns
    <3>1. \A i \in 2..Len(frames') :
            i \in 2..Len(frames) /\ frames'[i].end = frames[i].end
      BY <1>4, <2>4 DEF Returns, SameCall
    <3> QED BY <1>7, <2>4, <3>1 DEF Returns, ReadsTo
  <2>5. CASE Stops
    <3>1. outcome' # "done"
      <4>1. ASSUME AtEnd, Len(frames) = 1 PROVE FALSE
        BY <1>2, <1>4, <1>6, <1>7, <4>1 DEF AtEnd
      <4> QED BY <2>5, <4>1 DEF Stops
    <3> QED BY <1>7, <2>5, <3>1 DEF Stops, ReadsTo
  <2> QED BY <1>3, <2>1, <2>2, <2>3, <2>4, <2>5
<1>8. CASE Len(frames) >= 2 /\ frames[2].end > Len(wire) /\ frames[2].fields # {}
  <2>1. CASE Consumes
    BY <1>1, <1>8, <2>1, <1>4 DEF Consumes, SameCall, ReadsTo
  <2>2. CASE Enters
    BY <1>1, <1>8, <2>2, <1>4 DEF Enters, ReadsTo
  <2>3. CASE Returns
    <3>1. ASSUME Len(frames) = 2 PROVE FALSE
      <4>1. pos < frames[2].end /\ frames[2].end \in Nat
        BY <1>2, <1>4, <1>6, <1>8
      <4>2. Top = frames[2]
        BY <1>4, <3>1
      <4> QED BY <1>2, <1>8, <2>3, <4>1, <4>2 DEF Returns, AtEnd
    <3>2. \A n \in Nat : n >= 2 /\ n # 2 => n - 1 >= 2 /\ 2 \in 1..n - 1
      OBVIOUS
    <3>3. Len(frames) - 1 >= 2 /\ 2 \in 1..Len(frames) - 1
      BY <1>4, <1>8, <3>1, <3>2
    <3> QED BY <1>1, <1>8, <2>3, <3>3 DEF Returns, SameCall, ReadsTo
  <2>4. CASE Stops
    BY <1>1, <1>8, <2>4 DEF Stops, ReadsTo
  <2> QED BY <1>3, <2>1, <2>2, <2>3, <2>4
<1> QED BY <1>5, <1>7, <1>8 DEF ReadsTo

\* What becomes of the reader in a step of the client.
LEMMA ReaderMoves ==
  ASSUME CallInv, [Next]_queryVars
  PROVE  Begun' \/ End \/ ReadStep \/ UNCHANGED codecVars
<1>1. ASSUME NEW c \in Calls, Answer(c) PROVE Begun'
  <2> DEFINE package == calls[c].path[1][1]
             type == Qualified(package, Served(calls[c].path).output)
  <2>1. PICK answer \in AnswersOf(type) :
          Begin([type |-> Qualified(package, calls[c].readAs),
                 wire |-> answer.wire, message |-> answer.message])
    BY <1>1 DEF Answer
  <2> DEFINE r == [type |-> Qualified(package, calls[c].readAs),
                   wire |-> answer.wire, message |-> answer.message]
  <2>2. IsCall(calls[c])
    BY <1>1 DEF Answer, CallInv
  <2>3. /\ Qualified(package, calls[c].readAs) = type
        /\ type \in DOMAIN Schema
    BY <2>2, PathsLeadBack DEF IsCall
  <2>4. answer.message # None /\ IsWire(answer.wire) /\ IsWhole(answer.wire)
    BY <2>3, AnswersType
  <2>5. r.type = type /\ r.wire = answer.wire /\ r.message = answer.message
    BY <2>3
  <2> HIDE DEF r, type
  <2>6. Readable(r)
    BY <2>3, <2>4, <2>5 DEF Readable
  <2>7. /\ outcome' = "reading" /\ reading' = r /\ pos' = 0
        /\ frames' = <<FirstCall(r)>>
    BY <2>1 DEF r, type, Begin
  <2> QED BY <2>6, <2>7 DEF Begun, Reading
<1>2. ASSUME NEW c \in Calls, Ask(c) \/ Take(c) \/ Fail(c) \/ Return(c)
      PROVE  End \/ UNCHANGED codecVars
  BY <1>2 DEF Ask, Take, Fail, Return
<1> QED BY <1>1, <1>2 DEF Next, Calling, Read, Load, LoadFails, queryVars

LEMMA ReaderStep == CallInv /\ ReaderInv /\ [Next]_queryVars => ReaderInv' \/ Begun'
<1> SUFFICES ASSUME CallInv, ReaderInv, [Next]_queryVars, ~Begun' PROVE ReaderInv'
  OBVIOUS
<1>1. CASE End
  BY <1>1 DEF End, ReaderInv, BytesInv, EndsInv, CutInv
<1>2. CASE ReadStep
  BY <1>2, BytesStep, EndsStep, CutStep DEF ReaderInv
<1>3. CASE UNCHANGED codecVars
  BY <1>3 DEF codecVars, ReaderInv, BytesInv, EndsInv, CutInv, ReadsTo, Top
<1> QED BY <1>1, <1>2, <1>3, ReaderMoves

LEMMA ReaderStarts == Init => ReaderInv \/ Begun
<1> SUFFICES ASSUME Init PROVE ReaderInv \/ Begun
  OBVIOUS
<1>1. CASE Idle
  BY <1>1 DEF Idle, ReaderInv, BytesInv, EndsInv, CutInv
<1>2. ASSUME NEW type \in DOMAIN Schema, NEW r \in ReadingsOf(type), Reading(r)
      PROVE  Begun
  <2>1. Readable(r)
    BY ReadingsType DEF Readable
  <2> QED BY <1>2, <2>1 DEF Begun, Reading
<1> QED BY <1>1, <1>2 DEF Init

LEMMA ReadersAreReaders == Spec => []ReaderInv
BY ReaderStarts, ReaderStep, ReadingBegins, CallsAreCalls, PTL DEF Spec

\* Of bytes that are whole no reader takes what is behind its own end, although
\* all of them move one position (internalBinaryRead).
THEOREM ReadersStay == Spec => []ReadersStayInside
<1>1. ReaderInv => ReadersStayInside
  BY DEF ReaderInv, EndsInv, ReadersStayInside
<1> QED BY <1>1, ReadersAreReaders, PTL

\* Bytes that were cut in a field, or in one of a message inside, at whatever
\* depth, are never read to the end as if they meant a message.
THEOREM NoCutIsMissed == Spec => []CutsAreNoticed
<1>1. ReaderInv => CutsAreNoticed
  BY DEF ReaderInv, CutInv, CutsAreNoticed
<1> QED BY <1>1, ReadersAreReaders, PTL

-----------------------------------------------------------------------------
(* Messages: what is put together has the slots of its type, and so has what *)
(* is inside of it.                                                          *)

\* Every message of the set has its slots, and its nested messages in the set.
IsTyped(W) ==
  \A w \in W :
    /\ w[2] \in DOMAIN Schema
    /\ DOMAIN w[1] = Slots(FieldsOf(w[2]))
    /\ \A field \in FieldsOf(w[2]) :
         field.message \in DOMAIN Schema =>
           \/ Target(w[1], field) = None
           \/ <<Target(w[1], field), field.message>> \in W

IsMessage(message, type) == \E W : IsTyped(W) /\ <<message, type>> \in W

LEMMA MessageHasSlots ==
  ASSUME NEW message, NEW type, IsMessage(message, type)
  PROVE  type \in DOMAIN Schema /\ DOMAIN message = Slots(FieldsOf(type))
BY DEF IsMessage, IsTyped

LEMMA SlotsAreDistinct ==
  ASSUME NEW type \in DOMAIN Schema, NEW f \in FieldsOf(type), NEW g \in FieldsOf(type)
  PROVE  /\ Slot(f) # "unknown" /\ Slot(f) \in Slots(FieldsOf(type))
         /\ f.rule \in {"single", "optional", "oneof", "repeated", "packed"}
         /\ f.message \in DOMAIN Schema => f.rule # "packed" /\ f.message # ""
         /\ f.name # None
         /\ f # g /\ Slot(f) = Slot(g) =>
              f.rule = "oneof" /\ g.rule = "oneof" /\ f.name # g.name
BY SchemaType DEF Slots

LEMMA BlankIsMessage ==
  ASSUME NEW type \in DOMAIN Schema
  PROVE  IsMessage(Blank(FieldsOf(type)), type)
<1> DEFINE fields == FieldsOf(type)
           blank == Blank(fields)
<1>1. DOMAIN blank = Slots(fields)
  BY DEF Blank
<1>2. ASSUME NEW field \in fields, field.message \in DOMAIN Schema
      PROVE  Target(blank, field) = None
  <2>1. PICK chosen \in fields :
          Slot(chosen) = Slot(field) /\ blank[Slot(field)] = Nothing(chosen)
    <3> DEFINE chosen == CHOOSE f \in fields : Slot(f) = Slot(field)
    <3>1. chosen \in fields /\ Slot(chosen) = Slot(field)
      OBVIOUS
    <3>2. Slot(field) \in Slots(fields) /\ Slot(field) # "unknown"
      BY SlotsAreDistinct
    <3>3. blank[Slot(field)] = Nothing(chosen)
      BY <3>2 DEF Blank
    <3> QED BY <3>1, <3>3
  <2>2. CASE chosen = field
    <3>1. field.message # "" /\ field.rule \in {"single", "optional", "oneof", "repeated"}
      BY <1>2, SlotsAreDistinct
    <3>2. field.name # None
      BY SlotsAreDistinct
    <3>3. CASE field.rule = "repeated"
      BY <3>3 DEF Target
    <3>4. CASE field.rule = "oneof"
      <4>1. blank[Slot(field)] = [kind |-> None]
        BY <2>1, <2>2, <3>4 DEF Nothing
      <4> QED BY <3>2, <3>4, <4>1 DEF Target
    <3>5. CASE field.rule \in {"single", "optional"}
      <4>1. Nothing(field) = None
        BY <3>1, <3>5 DEF Nothing
      <4>2. Target(blank, field) = blank[Slot(field)]
        BY <3>5 DEF Target
      <4> QED BY <2>1, <2>2, <4>1, <4>2
    <3> QED BY <3>1, <3>3, <3>4, <3>5
  <2>3. CASE chosen # field
    <3>1. chosen.rule = "oneof" /\ field.rule = "oneof" /\ field.name # None
      BY <2>1, <2>3, SlotsAreDistinct
    <3> QED BY <2>1, <3>1 DEF Target, Nothing
  <2> QED BY <2>2, <2>3
<1> HIDE DEF blank
<1>3. IsTyped({<<blank, type>>})
  BY <1>1, <1>2 DEF IsTyped
<1> QED BY <1>3 DEF IsMessage, blank

LEMMA TargetIsMessage ==
  ASSUME NEW message, NEW type, IsMessage(message, type),
         NEW field \in FieldsOf(type), field.message \in DOMAIN Schema,
         Target(message, field) # None
  PROVE  IsMessage(Target(message, field), field.message)
<1>1. PICK W : IsTyped(W) /\ <<message, type>> \in W
  BY DEF IsMessage
<1>2. <<Target(message, field), field.message>> \in W
  BY <1>1 DEF IsTyped
<1> QED BY <1>1, <1>2 DEF IsMessage

\* A message that holds what another one does, and one message more.
LEMMA ChangedIsMessage ==
  ASSUME NEW message, NEW type, IsMessage(message, type),
         NEW value, NEW valueType, IsMessage(value, valueType),
         NEW changed, DOMAIN changed = DOMAIN message,
         \A field \in FieldsOf(type) :
           field.message \in DOMAIN Schema =>
             \/ Target(changed, field) = None
             \/ Target(changed, field) = Target(message, field)
             \/ Target(changed, field) = value /\ field.message = valueType
  PROVE  IsMessage(changed, type)
<1>1. PICK V : IsTyped(V) /\ <<message, type>> \in V
  BY DEF IsMessage
<1>2. PICK W : IsTyped(W) /\ <<value, valueType>> \in W
  BY DEF IsMessage
<1> DEFINE all == V \cup W \cup {<<changed, type>>}
<1>3. /\ type \in DOMAIN Schema
      /\ DOMAIN changed = Slots(FieldsOf(type))
  BY MessageHasSlots
<1>4. ASSUME NEW field \in FieldsOf(type), field.message \in DOMAIN Schema
      PROVE  \/ Target(changed, field) = None
             \/ <<Target(changed, field), field.message>> \in all
  BY <1>1, <1>2, <1>4 DEF IsTyped
<1>5. ASSUME NEW w \in V \cup W, NEW field \in FieldsOf(w[2]),
             field.message \in DOMAIN Schema
      PROVE  \/ Target(w[1], field) = None
             \/ <<Target(w[1], field), field.message>> \in all
  BY <1>1, <1>2, <1>5 DEF IsTyped
<1>6. \A w \in V \cup W : w[2] \in DOMAIN Schema /\ DOMAIN w[1] = Slots(FieldsOf(w[2]))
  BY <1>1, <1>2 DEF IsTyped
<1>7. IsTyped(all)
  <2> SUFFICES ASSUME NEW w \in all
               PROVE  /\ w[2] \in DOMAIN Schema /\ DOMAIN w[1] = Slots(FieldsOf(w[2]))
                      /\ \A field \in FieldsOf(w[2]) :
                           field.message \in DOMAIN Schema =>
                             \/ Target(w[1], field) = None
                             \/ <<Target(w[1], field), field.message>> \in all
    BY DEF IsTyped
  <2>1. CASE w \in V \cup W
    BY <1>5, <1>6, <2>1
  <2>2. CASE w = <<changed, type>>
    <3>1. w[1] = changed /\ w[2] = type
      BY <2>2
    <3> HIDE DEF all
    <3> QED BY <1>3, <1>4, <3>1
  <2> QED BY <2>1, <2>2
<1> QED BY <1>7 DEF IsMessage

\* A slot whose fields hold no messages may be given any value.
LEMMA ScalarIsPut ==
  ASSUME NEW message, NEW type, IsMessage(message, type), NEW slot, NEW value,
         \A field \in FieldsOf(type) :
           field.message \in DOMAIN Schema => Slot(field) # slot
  PROVE  IsMessage([message EXCEPT ![slot] = value], type)
<1> DEFINE changed == [message EXCEPT ![slot] = value]
<1>1. DOMAIN changed = DOMAIN message
  OBVIOUS
<1>2. ASSUME NEW field \in FieldsOf(type), field.message \in DOMAIN Schema
      PROVE  Target(changed, field) = Target(message, field)
  <2>1. Slot(field) # slot /\ Slot(field) \in DOMAIN message
    <3>1. type \in DOMAIN Schema /\ DOMAIN message = Slots(FieldsOf(type))
      BY MessageHasSlots
    <3> QED BY <1>2, <3>1, SlotsAreDistinct
  <2>2. changed[Slot(field)] = message[Slot(field)]
    BY <2>1
  <2> HIDE DEF changed
  <2> QED BY <2>2 DEF Target
<1> HIDE DEF changed
<1>3. IsMessage(changed, type)
  BY <1>1, <1>2, ChangedIsMessage
<1> QED BY <1>3 DEF changed

\* What is put into a field does not show in another one.
LEMMA PutShowsInField ==
  \A message, type, value :
    IsMessage(message, type) =>
      \A field, other \in FieldsOf(type) :
        other.message \in DOMAIN Schema =>
          \/ Target(Put(message, field, value), other) = None
          \/ Target(Put(message, field, value), other) = Target(message, other)
          \/ Target(Put(message, field, value), other) = value /\ other = field
<1> SUFFICES ASSUME NEW message, NEW type, NEW value, IsMessage(message, type),
                    NEW field \in FieldsOf(type), NEW other \in FieldsOf(type),
                    other.message \in DOMAIN Schema
             PROVE  \/ Target(Put(message, field, value), other) = None
                    \/ Target(Put(message, field, value), other) = Target(message, other)
                    \/ /\ Target(Put(message, field, value), other) = value
                       /\ other = field
  OBVIOUS
<1> DEFINE changed == Put(message, field, value)
<1>0. type \in DOMAIN Schema /\ DOMAIN message = Slots(FieldsOf(type))
  BY MessageHasSlots
<1>1. Slot(other) \in DOMAIN message
  BY <1>0, SlotsAreDistinct
<1>2. CASE Slot(other) # Slot(field)
  <2>1. changed[Slot(other)] = message[Slot(other)]
    BY <1>1, <1>2 DEF Put
  <2> HIDE DEF changed
  <2>2. Target(changed, other) = Target(message, other)
    BY <2>1 DEF Target
  <2> QED BY <2>2 DEF changed
<1>3. CASE Slot(other) = Slot(field) /\ other # field
  <2>1. field.rule = "oneof" /\ other.rule = "oneof" /\ other.name # field.name
    BY <1>0, <1>3, SlotsAreDistinct
  <2>2. changed[Slot(other)] = [kind |-> field.name, value |-> value]
    BY <1>1, <1>3, <2>1 DEF Put
  <2> HIDE DEF changed
  <2>3. Target(changed, other) = None
    BY <2>1, <2>2 DEF Target
  <2> QED BY <2>3 DEF changed
<1>4. CASE other = field
  <2>1. field.rule \in {"single", "optional", "oneof", "repeated"}
    BY <1>0, <1>4, SlotsAreDistinct
  <2>2. CASE field.rule = "repeated"
    BY <1>4, <2>2 DEF Target
  <2>3. CASE field.rule = "oneof"
    <3>1. changed[Slot(field)] = [kind |-> field.name, value |-> value]
      BY <1>1, <1>4, <2>3 DEF Put
    <3> HIDE DEF changed
    <3>2. Target(changed, field) = value
      BY <2>3, <3>1 DEF Target
    <3> QED BY <1>4, <3>2 DEF changed
  <2>4. CASE field.rule \in {"single", "optional"}
    <3>1. changed[Slot(field)] = value
      BY <1>1, <1>4, <2>4 DEF Put
    <3> HIDE DEF changed
    <3>2. Target(changed, field) = value
      BY <2>4, <3>1 DEF Target
    <3> QED BY <1>4, <3>2 DEF changed
  <2> QED BY <2>1, <2>2, <2>3, <2>4
<1> QED BY <1>2, <1>3, <1>4

\* The same message, but for values that are not messages.
LEMMA SameIsMessage ==
  ASSUME NEW message, NEW type, IsMessage(message, type),
         NEW changed, DOMAIN changed = DOMAIN message,
         \A field \in FieldsOf(type) :
           field.message \in DOMAIN Schema =>
             \/ Target(changed, field) = None
             \/ Target(changed, field) = Target(message, field)
  PROVE  IsMessage(changed, type)
<1>1. \A field \in FieldsOf(type) :
        field.message \in DOMAIN Schema =>
          \/ Target(changed, field) = None
          \/ Target(changed, field) = Target(message, field)
          \/ Target(changed, field) = message /\ field.message = type
  OBVIOUS
<1> QED BY <1>1, ChangedIsMessage

LEMMA PutKeepsSlots ==
  ASSUME NEW message, NEW field, NEW value
  PROVE  DOMAIN Put(message, field, value) = DOMAIN message
BY DEF Put

\* A value that was read is put where it belongs: a message that was read,
LEMMA PutIsMessage ==
  ASSUME NEW message, NEW type, IsMessage(message, type),
         NEW field \in FieldsOf(type), NEW value, IsMessage(value, field.message)
  PROVE  IsMessage(Put(message, field, value), type)
<1>1. ASSUME NEW f \in FieldsOf(type), f.message \in DOMAIN Schema
      PROVE  \/ Target(Put(message, field, value), f) = None
             \/ Target(Put(message, field, value), f) = Target(message, f)
             \/ /\ Target(Put(message, field, value), f) = value
                /\ f.message = field.message
  BY <1>1, PutShowsInField
<1>2. DOMAIN Put(message, field, value) = DOMAIN message
  BY PutKeepsSlots
<1> QED BY <1>1, <1>2, ChangedIsMessage

\* or anything else.
LEMMA ValueIsPut ==
  ASSUME NEW message, NEW type, IsMessage(message, type),
         NEW field \in FieldsOf(type), NEW value, field.message \notin DOMAIN Schema
  PROVE  IsMessage(Put(message, field, value), type)
<1>1. ASSUME NEW f \in FieldsOf(type), f.message \in DOMAIN Schema
      PROVE  \/ Target(Put(message, field, value), f) = None
             \/ Target(Put(message, field, value), f) = Target(message, f)
  BY <1>1, PutShowsInField
<1>2. DOMAIN Put(message, field, value) = DOMAIN message
  BY PutKeepsSlots
<1> QED BY <1>1, <1>2, SameIsMessage

-----------------------------------------------------------------------------
(* The types of the active calls, and of all the variables.                  *)

\* The type that call i reads: the outermost one's, or that of the field it is
\* the reader of.
TypeOf(s, type, i) == IF i = 1 THEN type ELSE s[i].field.message

TypedCalls(s, type) ==
  \A i \in 1..Len(s) :
    /\ s[i].fields = FieldsOf(TypeOf(s, type, i))
    /\ IsMessage(s[i].message, TypeOf(s, type, i))
    /\ i > 1 => s[i].field \in s[i - 1].fields

LEMMA WithLastTyped ==
  ASSUME NEW s, IsSequence(s), s # <<>>, NEW type, TypedCalls(s, type),
         NEW message, IsMessage(message, TypeOf(s, type, Len(s)))
  PROVE  TypedCalls(WithLast(s, message), type)
<1> DEFINE t == WithLast(s, message)
<1>1. /\ Len(s) \in Nat \ {0} /\ Len(t) = Len(s)
      /\ \A i \in 1..Len(s) : SameCall(t[i], s[i])
      /\ \A i \in 1..Len(s) - 1 : t[i] = s[i]
      /\ t[Len(s)].message = message
  BY WithLastKeeps
<1> HIDE DEF t
<1>2. \A i \in 1..Len(s) : TypeOf(t, type, i) = TypeOf(s, type, i)
  BY <1>1 DEF TypeOf, SameCall
<1> SUFFICES ASSUME NEW i \in 1..Len(s)
             PROVE  /\ t[i].fields = FieldsOf(TypeOf(s, type, i))
                    /\ IsMessage(t[i].message, TypeOf(s, type, i))
                    /\ i > 1 => t[i].field \in t[i - 1].fields
  BY <1>1, <1>2 DEF TypedCalls, t
<1>3. /\ s[i].fields = FieldsOf(TypeOf(s, type, i))
      /\ IsMessage(s[i].message, TypeOf(s, type, i))
      /\ i > 1 => s[i].field \in s[i - 1].fields
  BY DEF TypedCalls
<1>4. t[i].fields = FieldsOf(TypeOf(s, type, i))
  BY <1>1, <1>3 DEF SameCall
<1>5. IsMessage(t[i].message, TypeOf(s, type, i))
  <2>1. CASE i = Len(s)
    BY <1>1, <2>1
  <2>2. CASE i # Len(s)
    <3>1. i \in 1..Len(s) - 1
      BY <1>1, <2>2
    <3> QED BY <1>1, <1>3, <3>1
  <2> QED BY <2>1, <2>2
<1>6. i > 1 => t[i].field \in t[i - 1].fields
  <2> SUFFICES ASSUME i > 1 PROVE t[i].field \in t[i - 1].fields
    OBVIOUS
  <2>1. i - 1 \in 1..Len(s)
    BY <1>1
  <2> QED BY <1>1, <1>3, <2>1 DEF SameCall
<1> QED BY <1>4, <1>5, <1>6

LEMMA FrontTyped ==
  ASSUME NEW s, IsSequence(s), Len(s) > 1, NEW type, TypedCalls(s, type)
  PROVE  TypedCalls(Front(s), type)
<1> DEFINE t == Front(s)
<1>1. /\ Len(t) = Len(s) - 1 /\ Len(s) \in Nat
      /\ \A i \in 1..Len(s) - 1 : t[i] = s[i]
  BY FrontKeeps, LenProperties DEF IsSequence
<1> HIDE DEF t
<1>2. ASSUME NEW i \in 1..Len(t)
      PROVE  /\ t[i].fields = FieldsOf(TypeOf(t, type, i))
             /\ IsMessage(t[i].message, TypeOf(t, type, i))
             /\ i > 1 => t[i].field \in t[i - 1].fields
  <2>1. i \in 1..Len(s) /\ i \in 1..Len(s) - 1 /\ (i > 1 => i - 1 \in 1..Len(s) - 1)
    BY <1>1
  <2>2. t[i] = s[i] /\ TypeOf(t, type, i) = TypeOf(s, type, i)
    BY <1>1, <2>1 DEF TypeOf
  <2>3. /\ s[i].fields = FieldsOf(TypeOf(s, type, i))
        /\ IsMessage(s[i].message, TypeOf(s, type, i))
        /\ i > 1 => s[i].field \in s[i - 1].fields
    BY <2>1 DEF TypedCalls
  <2> QED BY <1>1, <2>1, <2>2, <2>3
<1> QED BY <1>2 DEF TypedCalls, t

LEMMA AppendTyped ==
  ASSUME NEW s, IsSequence(s), s # <<>>, NEW type, TypedCalls(s, type),
         NEW call, call.field \in s[Len(s)].fields,
         call.fields = FieldsOf(call.field.message),
         IsMessage(call.message, call.field.message)
  PROVE  TypedCalls(Append(s, call), type)
<1> DEFINE t == Append(s, call)
<1>1. /\ Len(s) \in Nat \ {0} /\ Len(t) = Len(s) + 1
      /\ \A i \in 1..Len(s) : t[i] = s[i]
      /\ t[Len(s) + 1] = call
  BY AppendKeeps, EmptySeq DEF IsSequence
<1> HIDE DEF t
<1>2. ASSUME NEW i \in 1..Len(t)
      PROVE  /\ t[i].fields = FieldsOf(TypeOf(t, type, i))
             /\ IsMessage(t[i].message, TypeOf(t, type, i))
             /\ i > 1 => t[i].field \in t[i - 1].fields
  <2>1. CASE i \in 1..Len(s)
    <3>1. i > 1 => i - 1 \in 1..Len(s)
      BY <1>1, <2>1
    <3>2. t[i] = s[i] /\ TypeOf(t, type, i) = TypeOf(s, type, i)
      BY <1>1, <2>1 DEF TypeOf
    <3>3. /\ s[i].fields = FieldsOf(TypeOf(s, type, i))
          /\ IsMessage(s[i].message, TypeOf(s, type, i))
          /\ i > 1 => s[i].field \in s[i - 1].fields
      BY <2>1 DEF TypedCalls
    <3> QED BY <1>1, <3>1, <3>2, <3>3
  <2>2. CASE i = Len(s) + 1
    <3>1. i # 1 /\ i - 1 = Len(s) /\ Len(s) \in 1..Len(s)
      BY <1>1, <2>2
    <3>2. t[i] = call /\ t[i - 1] = s[Len(s)]
      BY <1>1, <2>2, <3>1
    <3>3. TypeOf(t, type, i) = call.field.message
      BY <3>1, <3>2 DEF TypeOf
    <3> QED BY <3>2, <3>3
  <2> QED BY <1>1, <2>1, <2>2
<1> QED BY <1>2 DEF TypedCalls, t

\* Every active call has a message of its type.
TypedInv == outcome # "idle" => TypedCalls(frames, reading.type)

LEMMA TypedBegins ==
  ASSUME Begun
  PROVE  TypedInv
<1>1. PICK r : Readable(r) /\ Reading(r)
  BY DEF Begun
<1>2. r.type \in DOMAIN Schema
  BY <1>1 DEF Readable
<1>3. /\ FirstCall(r).fields = FieldsOf(r.type)
      /\ FirstCall(r).message = Blank(FieldsOf(r.type))
  BY DEF FirstCall, Called
<1> HIDE DEF FirstCall
<1>4. IsMessage(FirstCall(r).message, r.type)
  BY <1>2, <1>3, BlankIsMessage
<1>5. TypedCalls(<<FirstCall(r)>>, r.type)
  BY <1>3, <1>4 DEF TypedCalls, TypeOf
<1> QED BY <1>1, <1>5 DEF Reading, TypedInv

\* What the last call has read, it may read on.
LEMMA TopIsTyped ==
  ASSUME NEW s, IsSequence(s), s # <<>>, NEW type, TypedCalls(s, type)
  PROVE  /\ Last(s).fields = FieldsOf(TypeOf(s, type, Len(s)))
         /\ IsMessage(Last(s).message, TypeOf(s, type, Len(s)))
         /\ TypeOf(s, type, Len(s)) \in DOMAIN Schema
         /\ Len(s) \in 1..Len(s) /\ Last(s) = s[Len(s)]
<1>1. Len(s) \in 1..Len(s) /\ Last(s) = s[Len(s)]
  BY EmptySeq DEF IsSequence, Last
<1>2. IsMessage(Last(s).message, TypeOf(s, type, Len(s)))
  BY <1>1 DEF TypedCalls
<1> QED BY <1>1, <1>2, MessageHasSlots DEF TypedCalls

LEMMA TypedStep == BytesInv /\ TypedInv /\ ReadStep => TypedInv'
<1> SUFFICES ASSUME BytesInv, TypedInv, ReadStep
             PROVE  TypedCalls(frames', reading.type)
  BY ReadStepKeepsReading DEF TypedInv
<1> DEFINE type == TypeOf(frames, reading.type, Len(frames))
<1>1. outcome = "reading" /\ IsSequence(frames) /\ frames # <<>>
  BY ReadStepKeepsReading DEF BytesInv
<1>2. TypedCalls(frames, reading.type)
  BY <1>1 DEF TypedInv
<1>3. /\ Top.fields = FieldsOf(type) /\ IsMessage(Top.message, type)
      /\ type \in DOMAIN Schema /\ Top = frames[Len(frames)]
  BY <1>1, <1>2, TopIsTyped DEF Top
<1> HIDE DEF type
<1>4. ASSUME NEW message, frames' = WithLast(frames, message), IsMessage(message, type)
      PROVE  TypedCalls(frames', reading.type)
  BY <1>1, <1>2, <1>4, WithLastTyped DEF type
<1>5. ASSUME NEW field \in Known
      PROVE  /\ field \in FieldsOf(type)
             /\ field.message = "" => field.message \notin DOMAIN Schema
  BY <1>3, SchemaType DEF Known
<1>6. ASSUME NEW field \in Known, field.message = "", NEW value, PutOnTop(field, value)
      PROVE  TypedCalls(frames', reading.type)
  <2>1. IsMessage(Put(Top.message, field, value), type)
    BY <1>3, <1>5, <1>6, ValueIsPut
  <2> QED BY <1>4, <1>6, <2>1 DEF PutOnTop
<1>7. CASE ReadContent
  BY <1>6, <1>7 DEF ReadContent, CanReadContent
<1>8. CASE ReadNumber
  <2> DEFINE AsList(field) == IsList(field) /\ Here.wireType = "LengthDelimited"
             numbers == [i \in DOMAIN Content |-> Content[i].value]
             more(field) == [Top.message EXCEPT ![Slot(field)] = @ \o numbers]
  <2>1. PICK field \in Known :
          /\ CanReadNumber(field)
          /\ IF AsList(field) THEN frames' = WithLast(frames, more(field))
             ELSE PutOnTop(field, After.value)
    BY <1>8 DEF ReadNumber
  <2>2. field.message = ""
    BY <2>1 DEF CanReadNumber
  <2>3. CASE AsList(field)
    <3>1. \A f \in FieldsOf(type) : f.message \in DOMAIN Schema => Slot(f) # Slot(field)
      <4> SUFFICES ASSUME NEW f \in FieldsOf(type), f.message \in DOMAIN Schema,
                          Slot(f) = Slot(field)
                   PROVE  FALSE
        OBVIOUS
      <4>1. f # field /\ field \in FieldsOf(type)
        BY <1>5, <2>2
      <4>2. field.rule = "oneof"
        BY <1>3, <4>1, SlotsAreDistinct
      <4> QED BY <2>3, <4>2 DEF IsList
    <3>2. IsMessage(more(field), type)
      BY <1>3, <3>1, ScalarIsPut
    <3> QED BY <1>4, <2>1, <2>3, <3>2
  <2>4. CASE ~AsList(field)
    BY <1>6, <2>1, <2>2, <2>4
  <2> QED BY <2>3, <2>4
<1>9. CASE Enter
  <2>1. PICK field \in Known :
          /\ CanEnter(field)
          /\ frames' = Append(frames,
               Called(FieldsOf(field.message), field, EndOfValue,
                      Target(Top.message, field)))
    BY <1>9 DEF Enter
  <2> DEFINE call == Called(FieldsOf(field.message), field, EndOfValue,
                            Target(Top.message, field))
  <2>2. field \in FieldsOf(type) /\ field.message \in DOMAIN Schema
    BY <1>5, <2>1 DEF CanEnter
  <2>3. /\ call.fields = FieldsOf(field.message) /\ call.field = field
        /\ call.message = IF Target(Top.message, field) = None
                          THEN Blank(FieldsOf(field.message))
                          ELSE Target(Top.message, field)
    BY DEF Called
  <2>4. frames' = Append(frames, call)
    BY <2>1
  <2> HIDE DEF call
  <2>5. IsMessage(call.message, field.message)
    <3>1. CASE Target(Top.message, field) = None
      BY <2>2, <2>3, <3>1, BlankIsMessage
    <3>2. CASE Target(Top.message, field) # None
      BY <1>3, <2>2, <2>3, <3>2, TargetIsMessage
    <3> QED BY <3>1, <3>2
  <2>6. call.field \in frames[Len(frames)].fields
    BY <1>3, <2>2, <2>3
  <2>7. /\ call.fields = FieldsOf(call.field.message)
        /\ IsMessage(call.message, call.field.message)
    BY <2>3, <2>5
  <2> QED BY <1>1, <1>2, <2>4, <2>6, <2>7, AppendTyped
<1>10. CASE Leave
  <2> DEFINE callers == Front(frames)
             caller == TypeOf(callers, reading.type, Len(callers))
             message == Put(Last(callers).message, Top.field, Top.message)
  <2>1. frames' = WithLast(callers, message) /\ Len(frames) > 1
    BY <1>10 DEF Leave
  <2>2. /\ IsSequence(callers) /\ callers # <<>> /\ TypedCalls(callers, reading.type)
        /\ Len(callers) = Len(frames) - 1
        /\ \A i \in 1..Len(frames) - 1 : callers[i] = frames[i]
    BY <1>1, <1>2, <2>1, FrontKeeps, FrontTyped
  <2>3. Len(frames) \in Nat
    BY <1>1, LenProperties DEF IsSequence
  <2>4. /\ Last(callers).fields = FieldsOf(caller)
        /\ IsMessage(Last(callers).message, caller)
        /\ Last(callers) = callers[Len(callers)] /\ Len(callers) \in 1..Len(callers)
    BY <2>2, TopIsTyped
  <2>5. Top.field \in FieldsOf(caller)
    <3>1. Top.field \in frames[Len(frames) - 1].fields
      BY <1>2, <1>3, <2>1, <2>3 DEF TypedCalls
    <3>2. frames[Len(frames) - 1] = Last(callers)
      BY <2>2, <2>3, <2>4
    <3> QED BY <2>4, <3>1, <3>2
  <2>6. IsMessage(Top.message, Top.field.message)
    <3>1. \A n \in Nat : n > 1 => n # 1
      OBVIOUS
    <3>2. type = Top.field.message
      BY <1>3, <2>1, <2>3, <3>1 DEF TypeOf, type
    <3> QED BY <1>3, <3>2
  <2> HIDE DEF callers, caller
  <2>7. IsMessage(message, caller)
    BY <2>4, <2>5, <2>6, PutIsMessage
  <2> HIDE DEF message
  <2> QED BY <2>1, <2>2, <2>7, WithLastTyped DEF caller
<1>11. CASE Skip
  <2> DEFINE kept == [Top.message EXCEPT !["unknown"] =
                       Append(@, SubSeq(reading.wire, pos + 1, pos'))]
  <2>1. frames' = WithLast(frames, kept)
    BY <1>11 DEF Skip
  <2>2. \A f \in FieldsOf(type) : f.message \in DOMAIN Schema => Slot(f) # "unknown"
    BY <1>3, SlotsAreDistinct
  <2>3. IsMessage(kept, type)
    BY <1>3, <2>2, ScalarIsPut
  <2> QED BY <1>4, <2>1, <2>3
<1>12. CASE Finish \/ Garble
  BY <1>2, <1>12 DEF Finish, Garble
<1> QED BY <1>7, <1>8, <1>9, <1>10, <1>11, <1>12 DEF ReadStep

LEMMA TypedMoves ==
  CallInv /\ BytesInv /\ TypedInv /\ [Next]_queryVars => TypedInv' \/ Begun'
<1> SUFFICES ASSUME CallInv, BytesInv, TypedInv, [Next]_queryVars, ~Begun'
             PROVE  TypedInv'
  OBVIOUS
<1>1. CASE End
  BY <1>1 DEF End, TypedInv
<1>2. CASE ReadStep
  BY <1>2, TypedStep
<1>3. CASE UNCHANGED codecVars
  BY <1>3 DEF codecVars, TypedInv
<1> QED BY <1>1, <1>2, <1>3, ReaderMoves

LEMMA TypedStarts == Init => TypedInv \/ Begun
<1> SUFFICES ASSUME Init, ~Begun PROVE TypedInv
  OBVIOUS
<1>1. ASSUME NEW type \in DOMAIN Schema, NEW r \in ReadingsOf(type), Reading(r)
      PROVE  Begun
  <2>1. Readable(r)
    BY ReadingsType DEF Readable
  <2> QED BY <1>1, <2>1 DEF Begun, Reading
<1>2. Idle
  BY <1>1 DEF Init
<1> QED BY <1>2 DEF Idle, TypedInv

LEMMA CallsAreTyped == Spec => []TypedInv
<1>1. ReaderInv => BytesInv
  BY DEF ReaderInv
<1> QED BY <1>1, TypedStarts, TypedMoves, TypedBegins, ReadersAreReaders,
           CallsAreCalls, PTL DEF Spec

\* undefined has no properties: it is no message, and nothing to read.
NoneIsNoRecord == \A name \in {"unknown", "wire"} : name \notin DOMAIN None

LEMMA MessagesAreDefined ==
  ASSUME NoneIsNoRecord, NEW message, NEW type, IsMessage(message, type)
  PROVE  message # None
<1>1. "unknown" \in DOMAIN message
  BY MessageHasSlots DEF Slots
<1> QED BY <1>1 DEF NoneIsNoRecord

\* Something is read, or nothing.
OutcomeInv ==
  /\ outcome \in {"idle", "reading", "done", "garbled"}
  /\ outcome = "idle" => reading = None /\ frames = <<>>
  /\ reading = None => outcome = "idle"

LEMMA OutcomeStarts == Init => OutcomeInv
<1> SUFFICES ASSUME Init PROVE OutcomeInv
  OBVIOUS
<1>1. CASE Idle
  BY <1>1 DEF Idle, OutcomeInv
<1>2. ASSUME NEW type \in DOMAIN Schema, NEW r \in ReadingsOf(type), Reading(r)
      PROVE  OutcomeInv
  BY <1>2, ReadingsType DEF Reading, OutcomeInv
<1> QED BY <1>1, <1>2 DEF Init

LEMMA OutcomeStep ==
  ASSUME NoneIsNoRecord, OutcomeInv, [Next]_queryVars
  PROVE  OutcomeInv'
<1>1. ASSUME NEW c \in Calls, Answer(c) PROVE OutcomeInv'
  <2>1. PICK type, wire, message :
          Begin([type |-> type, wire |-> wire, message |-> message])
    BY <1>1 DEF Answer
  <2>2. "wire" \in DOMAIN [type |-> type, wire |-> wire, message |-> message]
    OBVIOUS
  <2>3. [type |-> type, wire |-> wire, message |-> message] # None
    BY <2>2 DEF NoneIsNoRecord
  <2> QED BY <2>1, <2>3 DEF Begin, OutcomeInv
<1>2. CASE End
  BY <1>2 DEF End, OutcomeInv
<1>3. CASE ReadStep
  <2>1. outcome' \in {"reading", "done", "garbled"} /\ reading' = reading
    BY <1>3 DEF ReadStep, ReadContent, ReadNumber, Enter, Leave, Skip, Finish,
                Garble, InLoop
  <2>2. outcome = "reading"
    BY <1>3, ReadStepKeepsReading
  <2> QED BY <2>1, <2>2 DEF OutcomeInv
<1>4. CASE UNCHANGED codecVars
  BY <1>4 DEF codecVars, OutcomeInv
<1>5. (\E c \in Calls : Answer(c)) \/ End \/ ReadStep \/ UNCHANGED codecVars
  BY DEF Next, Calling, Read, Load, LoadFails, queryVars, Ask, Take, Fail, Return
<1> QED BY <1>1, <1>2, <1>3, <1>4, <1>5

\* A call that is resolved has its answer, and no other has one.
AnswerInv ==
  \A c \in Calls :
    calls[c] # None =>
      /\ calls[c].status = "resolved" => calls[c].answer # None
      /\ calls[c].status # "resolved" => calls[c].answer = None

LEMMA AnswerStarts == Init => AnswerInv
BY DEF Init, AnswerInv

LEMMA AnswerStep ==
  ASSUME NoneIsNoRecord, CallInv, BytesInv, TypedInv, AnswerInv, [Next]_queryVars
  PROVE  AnswerInv'
<1> DEFINE Settled(call) ==
      /\ call.status = "resolved" => call.answer # None
      /\ call.status # "resolved" => call.answer = None
<1>1. ASSUME NEW c \in Calls, NEW call, calls' = [calls EXCEPT ![c] = call],
             call = None \/ Settled(call)
      PROVE  AnswerInv'
  BY <1>1 DEF AnswerInv, CallInv
<1>2. ASSUME NEW c \in Calls, Ask(c) PROVE AnswerInv'
  <2>1. PICK client \in AllClients :
          \E method \in Range(client.methods) :
            calls' = [calls EXCEPT ![c] = CallOf(client, method, "sent", None)]
    BY <1>2 DEF Ask, CallOf, Procedure
  <2>2. PICK method \in Range(client.methods) :
          calls' = [calls EXCEPT ![c] = CallOf(client, method, "sent", None)]
    BY <2>1
  <2>3. /\ CallOf(client, method, "sent", None).status = "sent"
        /\ CallOf(client, method, "sent", None).answer = None
    BY DEF CallOf
  <2> QED BY <1>1, <2>2, <2>3
<1>3. ASSUME NEW c \in Calls, calls[c] # None, calls[c].status # "resolved",
             NEW status \in Statuses \ {"resolved"},
             calls' = [calls EXCEPT ![c] = [calls[c] EXCEPT !.status = status]]
      PROVE  AnswerInv'
  <2>1. IsCall(calls[c]) /\ calls[c].answer = None
    BY <1>3 DEF CallInv, AnswerInv
  <2>2. /\ [calls[c] EXCEPT !.status = status].status = status
        /\ [calls[c] EXCEPT !.status = status].answer = None
    BY <2>1, CallsStayCalls
  <2> QED BY <1>1, <1>3, <2>2
<1>4. ASSUME NEW c \in Calls, Answer(c) \/ Fail(c) PROVE AnswerInv'
  <2>1. /\ calls[c] # None /\ calls[c].status # "resolved"
        /\ \E status \in {"answered", "rejected"} :
             calls' = [calls EXCEPT ![c] = [calls[c] EXCEPT !.status = status]]
    BY <1>4 DEF Answer, Fail
  <2> QED BY <1>3, <2>1 DEF Statuses
<1>5. ASSUME NEW c \in Calls, Take(c) PROVE AnswerInv'
  <2>1. calls[c] # None /\ calls[c].status # "resolved" /\ IsCall(calls[c])
    BY <1>5 DEF Take, CallInv
  <2>2. CASE calls' = [calls EXCEPT ![c] = [calls[c] EXCEPT !.status = "rejected"]]
    BY <1>3, <2>1, <2>2 DEF Statuses
  <2>3. CASE /\ outcome = "done"
             /\ calls' = [calls EXCEPT ![c] = ResolvedWith(calls[c], frames[1].message)]
    <3>1. IsSequence(frames) /\ frames # <<>> /\ TypedCalls(frames, reading.type)
      BY <2>3 DEF BytesInv, TypedInv
    <3>2. 1 \in 1..Len(frames)
      BY <3>1, EmptySeq DEF IsSequence
    <3>3. frames[1].message # None
      BY <3>1, <3>2, MessagesAreDefined DEF TypedCalls
    <3>4. IsCall(calls[c]) /\ "resolved" \in Statuses
      BY <2>1 DEF Statuses
    <3>5. /\ ResolvedWith(calls[c], frames[1].message).status = "resolved"
          /\ ResolvedWith(calls[c], frames[1].message).answer = frames[1].message
      BY <3>4, CallsResolve
    <3> QED BY <1>1, <2>3, <3>3, <3>5
  <2> QED BY <1>5, <2>2, <2>3 DEF Take, ResolvedWith
<1>6. ASSUME NEW c \in Calls, Return(c) PROVE AnswerInv'
  BY <1>1, <1>6 DEF Return
<1>7. CASE UNCHANGED calls
  BY <1>7 DEF AnswerInv
<1> QED BY <1>2, <1>4, <1>5, <1>6, <1>7
        DEF Next, Calling, Read, Load, LoadFails, queryVars

\* Every active reader has a message of its type and is the reader of a field of
\* its caller's; a call has an answer when it is resolved, and only then.
THEOREM TypesHold ==
  ASSUME NoneIsNoRecord
  PROVE  Spec => []TypeOK
<1>1. ReaderInv => BytesInv
  BY DEF ReaderInv
<1>2. OutcomeInv /\ [Next]_queryVars => OutcomeInv'
  BY OutcomeStep
<1>3. CallInv /\ BytesInv /\ TypedInv /\ AnswerInv /\ [Next]_queryVars => AnswerInv'
  BY AnswerStep
<1>4. CreationInv /\ CallInv /\ BytesInv /\ TypedInv /\ OutcomeInv /\ AnswerInv
        => TypeOK
  <2> SUFFICES ASSUME CreationInv, CallInv, BytesInv, TypedInv, OutcomeInv, AnswerInv
               PROVE  TypeOK
    OBVIOUS
  <2>1. outcome = "idle" <=> reading = None
    BY Zenon DEF OutcomeInv
  <2>2. ASSUME NEW i \in DOMAIN frames
        PROVE  /\ DOMAIN frames[i].message = Slots(frames[i].fields)
               /\ i > 1 => frames[i].field \in frames[i - 1].fields
    <3>1. outcome # "idle"
      BY <2>2 DEF OutcomeInv
    <3>2. DOMAIN frames = 1..Len(frames)
      BY <3>1, LenProperties DEF BytesInv, IsSequence
    <3>3. /\ frames[i].fields = FieldsOf(TypeOf(frames, reading.type, i))
          /\ IsMessage(frames[i].message, TypeOf(frames, reading.type, i))
          /\ i > 1 => frames[i].field \in frames[i - 1].fields
      BY <2>2, <3>1, <3>2 DEF TypedInv, TypedCalls
    <3> QED BY <3>3, MessageHasSlots
  <2>3. ReaderTypeOK
    <3>1. outcome # "idle" => reading.type \in DOMAIN Schema /\ pos \in 0..Len(reading.wire)
      BY DEF BytesInv, Readable
    <3>2. outcome \in {"idle", "reading", "done", "garbled"}
      BY DEF OutcomeInv
    <3> QED BY <2>1, <2>2, <3>1, <3>2, Zenon DEF ReaderTypeOK
  <2>4. ASSUME NEW c \in Calls, calls[c] # None
        PROVE  /\ calls[c].status \in Statuses
               /\ calls[c].answer = None <=> calls[c].status # "resolved"
    <3>1. calls[c].status \in Statuses
      BY <2>4, PathsLeadBack DEF CallInv, IsCall
    <3>2. calls[c].answer = None <=> calls[c].status # "resolved"
      BY <2>4, Zenon DEF AnswerInv
    <3> QED BY <3>1, <3>2
  <2> QED BY <2>3, <2>4, Zenon DEF TypeOK, CreationInv, Statuses
<1> QED BY <1>1, <1>2, <1>3, <1>4, OutcomeStarts, AnswerStarts, CreationBegins,
           CreationStep, CallsAreCalls, ReadersAreReaders, CallsAreTyped, PTL DEF Spec

-----------------------------------------------------------------------------
(* Meanings: what is left of the bytes, and has not been read yet, means what *)
(* is left of the message, for every reader that is active.                   *)

\* The bytes behind a place, for call i: they make the message the result.
RestIn(P, s, type, i, place, message, result) ==
  Parse(TypeOf(s, type, i), place, s[i].end, message, result) \in P

\* The last call goes on at a place; every other one behind the next one's end,
\* with the result of that.
CallersAreMeant(P, s, type, results) ==
  \A i \in 1..Len(s) - 1 :
    RestIn(P, s, type, i, s[i + 1].end,
           Put(s[i].message, s[i + 1].field, results[i + 1]), results[i])

AreMeant(P, s, type, place, results) ==
  /\ RestIn(P, s, type, Len(s), place, s[Len(s)].message, results[Len(s)])
  /\ CallersAreMeant(P, s, type, results)

\* What was read so far, and what is left, is what is meant.
Continues ==
  \E P : IsParse(P, reading.wire) /\ \E results :
    results[1] = reading.message /\ AreMeant(P, frames, reading.type, pos, results)

MeaningInv ==
  outcome # "idle" /\ reading.message # None =>
    /\ outcome # "garbled"
    /\ outcome = "done" => frames[1].message = reading.message
    /\ outcome = "reading" => Continues

LEMMA ParseIs ==
  ASSUME NEW type, NEW start, NEW end, NEW message, NEW result
  PROVE  LET p == Parse(type, start, end, message, result) IN
         /\ TypeIn(p) = type /\ StartOf(p) = start /\ EndIn(p) = end
         /\ Before(p) = message /\ Result(p) = result
BY DEF Parse, TypeIn, StartOf, EndIn, Before, Result

\* The last call consumed bytes.
LEMMA ConsumedIsMeant ==
  ASSUME NEW P, NEW s, IsSequence(s), s # <<>>, NEW type, NEW next, NEW results,
         CallersAreMeant(P, s, type, results), NEW message,
         RestIn(P, s, type, Len(s), next, message, results[Len(s)])
  PROVE  AreMeant(P, WithLast(s, message), type, next, results)
<1> DEFINE t == WithLast(s, message)
<1>1. /\ Len(s) \in Nat \ {0} /\ Len(t) = Len(s)
      /\ \A i \in 1..Len(s) : SameCall(t[i], s[i])
      /\ \A i \in 1..Len(s) - 1 : t[i] = s[i]
      /\ t[Len(s)].message = message
  BY WithLastKeeps
<1> HIDE DEF t
<1>2. \A i \in 1..Len(s) :
        /\ TypeOf(t, type, i) = TypeOf(s, type, i)
        /\ t[i].end = s[i].end /\ t[i].field = s[i].field
  BY <1>1 DEF TypeOf, SameCall
<1>3. RestIn(P, t, type, Len(t), next, t[Len(t)].message, results[Len(t)])
  BY <1>1, <1>2 DEF RestIn
<1>4. ASSUME NEW i \in 1..Len(t) - 1
      PROVE  RestIn(P, t, type, i, t[i + 1].end,
                    Put(t[i].message, t[i + 1].field, results[i + 1]), results[i])
  <2>1. i \in 1..Len(s) - 1 /\ i \in 1..Len(s) /\ i + 1 \in 1..Len(s)
    BY <1>1
  <2>2. RestIn(P, s, type, i, s[i + 1].end,
               Put(s[i].message, s[i + 1].field, results[i + 1]), results[i])
    BY <2>1 DEF AreMeant, CallersAreMeant
  <2>3. t[i] = s[i] /\ t[i + 1].end = s[i + 1].end /\ t[i + 1].field = s[i + 1].field
    BY <1>1, <1>2, <2>1
  <2> QED BY <1>2, <2>1, <2>2, <2>3 DEF RestIn
<1> QED BY <1>3, <1>4 DEF AreMeant, CallersAreMeant, t

\* The bytes that a call is for make its message a result, and those behind them
\* the message of the last call its own, once that result has been put into it.
IsMeantFor(P, s, type, results, call, next, result) ==
  /\ Parse(call.field.message, next, call.end, call.message, result) \in P
  /\ RestIn(P, s, type, Len(s), call.end,
            Put(s[Len(s)].message, call.field, result), results[Len(s)])

\* A call begins.
LEMMA EnteredIsMeant ==
  ASSUME NEW P, NEW s, IsSequence(s), s # <<>>, NEW type, NEW results,
         CallersAreMeant(P, s, type, results), NEW call, NEW next, NEW result,
         IsMeantFor(P, s, type, results, call, next, result)
  PROVE  \E more : more[1] = results[1] /\ AreMeant(P, Append(s, call), type, next, more)
<1> DEFINE t == Append(s, call)
           more == [i \in 1..Len(s) + 1 |-> IF i = Len(s) + 1 THEN result ELSE results[i]]
<1>1. /\ Len(s) \in Nat \ {0} /\ Len(t) = Len(s) + 1
      /\ \A i \in 1..Len(s) : t[i] = s[i]
      /\ t[Len(s) + 1] = call
  BY AppendKeeps, EmptySeq DEF IsSequence
<1>2. more[Len(s) + 1] = result /\ \A i \in 1..Len(s) : more[i] = results[i]
  BY <1>1
<1> HIDE DEF t, more
<1>3. \A i \in 1..Len(s) : TypeOf(t, type, i) = TypeOf(s, type, i)
  BY <1>1 DEF TypeOf
<1>4. TypeOf(t, type, Len(t)) = call.field.message
  BY <1>1 DEF TypeOf
<1>5. RestIn(P, t, type, Len(t), next, t[Len(t)].message, more[Len(t)])
  BY <1>1, <1>2, <1>4 DEF RestIn, IsMeantFor
<1>6. ASSUME NEW i \in 1..Len(t) - 1
      PROVE  RestIn(P, t, type, i, t[i + 1].end,
                    Put(t[i].message, t[i + 1].field, more[i + 1]), more[i])
  <2>1. i \in 1..Len(s)
    BY <1>1
  <2>2. CASE i = Len(s)
    <3>1. t[i] = s[Len(s)] /\ t[i + 1] = call /\ more[i + 1] = result
      BY <1>1, <1>2, <2>1, <2>2
    <3> QED BY <1>2, <1>3, <2>1, <2>2, <3>1 DEF RestIn, IsMeantFor
  <2>3. CASE i # Len(s)
    <3>1. i \in 1..Len(s) - 1 /\ i + 1 \in 1..Len(s)
      BY <1>1, <2>1, <2>3
    <3>2. RestIn(P, s, type, i, s[i + 1].end,
                 Put(s[i].message, s[i + 1].field, results[i + 1]), results[i])
      BY <3>1 DEF CallersAreMeant
    <3>3. /\ t[i] = s[i] /\ t[i + 1] = s[i + 1]
          /\ more[i] = results[i] /\ more[i + 1] = results[i + 1]
      BY <1>1, <1>2, <2>1, <3>1
    <3> QED BY <1>3, <2>1, <3>2, <3>3 DEF RestIn
  <2> QED BY <2>2, <2>3
<1>7. more[1] = results[1]
  BY <1>1, <1>2
<1>8. AreMeant(P, t, type, next, more)
  BY <1>5, <1>6 DEF AreMeant, CallersAreMeant
<1> QED BY <1>7, <1>8 DEF t

\* A call has its result, and returns.
LEMMA ReturnedIsMeant ==
  ASSUME NEW P, NEW s, IsSequence(s), Len(s) > 1, NEW type, NEW place, NEW results,
         AreMeant(P, s, type, place, results),
         place = s[Len(s)].end, results[Len(s)] = s[Len(s)].message
  PROVE  AreMeant(P,
           WithLast(Front(s), Put(Last(Front(s)).message, Last(s).field, Last(s).message)),
           type, place, results)
<1> DEFINE t == Front(s)
           n == Len(s) - 1
           message == Put(Last(t).message, Last(s).field, Last(s).message)
<1>1. /\ IsSequence(t) /\ t # <<>> /\ Len(t) = n /\ Len(s) \in Nat
      /\ \A i \in 1..n : t[i] = s[i]
  BY FrontKeeps, LenProperties DEF IsSequence
<1>2. Last(t) = s[n] /\ Last(s) = s[n + 1] /\ n \in 1..n /\ n + 1 = Len(s)
  BY <1>1 DEF Last
<1> HIDE DEF t, message
<1>3. \A i \in 1..n : TypeOf(t, type, i) = TypeOf(s, type, i)
  BY <1>1 DEF TypeOf
<1>4. RestIn(P, t, type, Len(t), place, message, results[Len(t)])
  <2>1. RestIn(P, s, type, n, s[n + 1].end,
               Put(s[n].message, s[n + 1].field, results[n + 1]), results[n])
    BY <1>2 DEF AreMeant, CallersAreMeant
  <2> QED BY <1>1, <1>2, <1>3, <2>1 DEF RestIn, message
<1>5. ASSUME NEW i \in 1..Len(t) - 1
      PROVE  RestIn(P, t, type, i, t[i + 1].end,
                    Put(t[i].message, t[i + 1].field, results[i + 1]), results[i])
  <2>1. i \in 1..n /\ i + 1 \in 1..n /\ i \in 1..Len(s) - 1
    BY <1>1
  <2>2. RestIn(P, s, type, i, s[i + 1].end,
               Put(s[i].message, s[i + 1].field, results[i + 1]), results[i])
    BY <2>1 DEF AreMeant, CallersAreMeant
  <2> QED BY <1>1, <1>3, <2>1, <2>2 DEF RestIn
<1>6. CallersAreMeant(P, t, type, results)
  BY <1>5 DEF CallersAreMeant
<1> QED BY <1>1, <1>4, <1>6, ConsumedIsMeant DEF t, message

\* How the rest of the bytes goes on, in the terms of the last call.
GoesOn(P, place, message, result) ==
  RestIn(P, frames, reading.type, Len(frames), place, message, result)

IsListHere(field) == IsList(field) /\ Here.wireType = "LengthDelimited"

EndOfSkip == IF Here.wireType = "LengthDelimited" THEN EndOfValue ELSE pos + 2

MeansSkip(P, result) ==
  /\ Known = {} /\ CanSkip
  /\ GoesOn(P, EndOfSkip,
       [Top.message EXCEPT !["unknown"] = Append(@, SubSeq(reading.wire, pos + 1, EndOfSkip))],
       result)

MeansContent(P, field, result) ==
  /\ CanReadContent(field)
  /\ GoesOn(P, EndOfValue, Put(Top.message, field, Content), result)

MeansNumber(P, field, result) ==
  /\ CanReadNumber(field)
  /\ IF IsListHere(field)
     THEN GoesOn(P, EndOfValue,
            [Top.message EXCEPT ![Slot(field)] =
              @ \o [i \in DOMAIN Content |-> Content[i].value]],
            result)
     ELSE GoesOn(P, pos + 2, Put(Top.message, field, After.value), result)

MeansMessage(P, field, result) ==
  /\ CanEnter(field)
  /\ \E inner :
       /\ Parse(field.message, pos + 2, EndOfValue,
                IF Target(Top.message, field) = None THEN Blank(FieldsOf(field.message))
                ELSE Target(Top.message, field), inner) \in P
       /\ GoesOn(P, EndOfValue, Put(Top.message, field, inner), result)

LEMMA TopIsTop ==
  ASSUME BytesInv, TypedInv, outcome = "reading"
  PROVE  /\ IsSequence(frames) /\ frames # <<>>
         /\ Len(frames) \in Nat \ {0} /\ Top = frames[Len(frames)]
         /\ Top.fields = FieldsOf(TypeOf(frames, reading.type, Len(frames)))
         /\ TypeOf(frames, reading.type, Len(frames)) \in DOMAIN Schema
         /\ pos \in Nat /\ Top.end \in Nat /\ Len(reading.wire) \in Nat
<1>1. IsSequence(frames) /\ frames # <<>> /\ TypedCalls(frames, reading.type)
  BY DEF BytesInv, TypedInv
<1>2. Len(frames) \in Nat \ {0}
  BY <1>1, EmptySeq DEF IsSequence
<1>3. Len(reading.wire) \in Nat
  BY WireIs DEF BytesInv, Readable
<1> QED BY <1>1, <1>2, <1>3, TopIsTyped DEF Top, BytesInv

LEMMA NumbersAreDistinct ==
  ASSUME NEW type \in DOMAIN Schema, NEW f \in FieldsOf(type), NEW g \in FieldsOf(type),
         f.no = g.no
  PROVE  f = g
BY SchemaType

\* A number belongs to one field.
LEMMA OneIsKnown ==
  ASSUME BytesInv, TypedInv, outcome = "reading", NEW f \in Known, NEW g \in Known
  PROVE  f = g
<1> DEFINE type == TypeOf(frames, reading.type, Len(frames))
<1>1. type \in DOMAIN Schema /\ f \in FieldsOf(type) /\ g \in FieldsOf(type)
  BY TopIsTop DEF Known
<1>2. f.no = g.no
  BY DEF Known
<1> HIDE DEF type
<1> QED BY <1>1, <1>2, NumbersAreDistinct

\* The rest of the bytes, where the last call is: they are over, or start with what
\* one of the actions reads.
LEMMA HereIsParsed ==
  ASSUME BytesInv, TypedInv, outcome = "reading", NEW P, NEW result,
         IsParse(P, reading.wire), GoesOn(P, pos, Top.message, result)
  PROVE  \/ AtEnd /\ pos = Top.end /\ result = Top.message
         \/ ~AtEnd /\ MeansSkip(P, result)
         \/ ~AtEnd /\ \E field \in Known : MeansContent(P, field, result)
         \/ ~AtEnd /\ \E field \in Known : MeansNumber(P, field, result)
         \/ ~AtEnd /\ \E field \in Known : MeansMessage(P, field, result)
<1> DEFINE wire == reading.wire
           type == TypeOf(frames, reading.type, Len(frames))
           p == Parse(type, pos, Top.end, Top.message, result)
<1>1. /\ Top = frames[Len(frames)] /\ Top.fields = FieldsOf(type)
      /\ pos \in Nat /\ Top.end \in Nat
  BY TopIsTop
<1>2. IsParsed(P, wire, p)
  BY <1>1 DEF GoesOn, RestIn, IsParse
<1>3. /\ TypeIn(p) = type /\ StartOf(p) = pos /\ EndIn(p) = Top.end
      /\ Before(p) = Top.message /\ Result(p) = result
  BY ParseIs
<1> HIDE DEF p
<1>4. /\ TagOf(wire, p) = Here /\ ValueOf(wire, p) = After
      /\ HasLength(wire, p) <=> After.token = "length"
      /\ HasNumber(wire, p) <=> After.token = "number"
      /\ IsDelimitedTag(wire, p) <=> Here.wireType = "LengthDelimited"
  BY <1>3 DEF TagOf, ValueOf, Here, After, Token, HasLength, HasNumber, IsDelimitedTag
<1>5. ASSUME After.token = "length"
      PROVE  Stop(wire, p) = EndOfValue /\ Inside(wire, p) = Content
  BY <1>3, <1>5, TokensAhead DEF Stop, Inside, Content
<1>6. HasContent(wire, p) <=> IsDelimited
  BY <1>4, <1>5 DEF HasContent, IsDelimited
<1>7. Here.token = "tag" => FieldsAt(wire, p) = Known
  BY <1>1, <1>3, <1>4 DEF FieldsAt, Known
<1>8. \A place, message :
        Behind(p, place, message) = Parse(type, place, Top.end, message, result)
  BY <1>3 DEF Behind
<1>9. \A place, message :
        Behind(p, place, message) \in P => GoesOn(P, place, message, result)
  BY <1>1, <1>8 DEF GoesOn, RestIn
<1>10. CASE StartOf(p) = EndIn(p) /\ Result(p) = Before(p)
  BY <1>1, <1>3, <1>10 DEF AtEnd
<1>11. CASE /\ StartOf(p) < EndIn(p) /\ FieldsOf(TypeIn(p)) # {}
            /\ TagOf(wire, p).token = "tag"
            /\ FieldsAt(wire, p) = {} /\ MaySkip(wire, p) /\ Skipped(wire, p) \in P
  <2>1. ~AtEnd /\ Here.token = "tag" /\ Known = {}
    BY <1>1, <1>3, <1>4, <1>7, <1>11 DEF AtEnd
  <2>2. CanSkip
    BY <1>4, <1>6, <1>11, <2>1 DEF CanSkip, MaySkip
  <2>3. Here.wireType = "LengthDelimited" => After.token = "length"
    BY <2>2 DEF CanSkip, IsDelimited
  <2>4. Skipped(wire, p) = Behind(p, EndOfSkip,
          [Top.message EXCEPT !["unknown"] =
            Append(@, SubSeq(reading.wire, pos + 1, EndOfSkip))])
    BY <1>3, <1>4, <1>5, <2>3 DEF Skipped, EndOfSkip
  <2> QED BY <1>9, <1>11, <2>1, <2>2, <2>4 DEF MeansSkip
<1>12. ASSUME StartOf(p) < EndIn(p), FieldsOf(TypeIn(p)) # {},
              TagOf(wire, p).token = "tag", NEW field \in FieldsAt(wire, p),
              field.message = "", MayTake(wire, p, field), Taken(wire, p, field) \in P
       PROVE  ~AtEnd /\ \E f \in Known : MeansContent(P, f, result) \/ MeansNumber(P, f, result)
  <2>1. ~AtEnd /\ field \in Known
    <3>1. StartOf(p) < EndIn(p) /\ FieldsOf(TypeIn(p)) # {} /\ field \in Known
      BY <1>4, <1>7, <1>12
    <3> QED BY <1>1, <1>3, <3>1 DEF AtEnd
  <2>2. CASE field.wireType = "LengthDelimited"
    <3>1. CanReadContent(field) /\ After.token = "length"
      BY <1>6, <1>12, <2>2 DEF MayTake, CanReadContent, IsDelimited
    <3>2. Taken(wire, p, field) = Behind(p, EndOfValue, Put(Top.message, field, Content))
      BY <1>3, <1>5, <2>2, <3>1 DEF Taken
    <3> QED BY <1>9, <1>12, <2>1, <3>1, <3>2 DEF MeansContent
  <2>3. CASE field.wireType # "LengthDelimited" /\ IsListHere(field)
    <3>1. IsDelimited /\ After.token = "length"
      BY <1>4, <1>6, <1>12, <2>3 DEF MayTake, IsListHere, IsDelimited
    <3>2. CanReadNumber(field)
      BY <1>4, <1>5, <1>12, <2>3, <3>1 DEF MayTake, IsListHere, CanReadNumber
    <3>3. Taken(wire, p, field) = Behind(p, EndOfValue,
            [Top.message EXCEPT ![Slot(field)] =
              @ \o [i \in DOMAIN Content |-> Content[i].value]])
      BY <1>3, <1>4, <1>5, <2>3, <3>1 DEF Taken, IsListHere
    <3> QED BY <1>9, <1>12, <2>1, <2>3, <3>2, <3>3 DEF MeansNumber
  <2>4. CASE field.wireType # "LengthDelimited" /\ ~IsListHere(field)
    <3>1. CanReadNumber(field)
      BY <1>4, <1>12, <2>4 DEF MayTake, IsListHere, CanReadNumber
    <3>2. Taken(wire, p, field) = Behind(p, pos + 2, Put(Top.message, field, After.value))
      BY <1>3, <1>4, <2>4 DEF Taken, IsListHere
    <3> QED BY <1>9, <1>12, <2>1, <2>4, <3>1, <3>2 DEF MeansNumber
  <2> QED BY <2>2, <2>3, <2>4
<1>13. ASSUME StartOf(p) < EndIn(p), FieldsOf(TypeIn(p)) # {},
              TagOf(wire, p).token = "tag", NEW field \in FieldsAt(wire, p),
              field.message \in DOMAIN Schema, HasLength(wire, p),
              NEW q \in P, q = Enclosed(wire, p, field, Result(q)),
              BehindNested(wire, p, field, Result(q)) \in P
       PROVE  ~AtEnd /\ field \in Known /\ MeansMessage(P, field, result)
  <2>1. ~AtEnd /\ field \in Known
    BY <1>1, <1>3, <1>4, <1>7, <1>13 DEF AtEnd
  <2>2. CanEnter(field) /\ After.token = "length"
    BY <1>4, <1>13 DEF CanEnter
  <2> DEFINE inner == Result(q)
             there == Target(Top.message, field)
  <2>3. Enclosed(wire, p, field, inner) =
          Parse(field.message, pos + 2, EndOfValue,
                IF there = None THEN Blank(FieldsOf(field.message)) ELSE there, inner)
    BY <1>3, <1>5, <2>2 DEF Enclosed, Create
  <2>4. BehindNested(wire, p, field, inner) =
          Behind(p, EndOfValue, Put(Top.message, field, inner))
    BY <1>3, <1>5, <2>2 DEF BehindNested
  <2> HIDE DEF inner
  <2>5. GoesOn(P, EndOfValue, Put(Top.message, field, inner), result)
    BY <1>9, <1>13, <2>4 DEF inner
  <2>6. Enclosed(wire, p, field, inner) \in P
    BY <1>13 DEF inner
  <2> QED BY <2>1, <2>2, <2>3, <2>5, <2>6 DEF MeansMessage
<1> QED BY <1>2, <1>10, <1>11, <1>12, <1>13 DEF IsParsed

\* What the last call has consumed, it goes on from.
LEMMA ConsumedContinues ==
  ASSUME BytesInv, TypedInv, outcome = "reading", reading' = reading,
         NEW P, IsParse(P, reading.wire), NEW results,
         results[1] = reading.message, AreMeant(P, frames, reading.type, pos, results),
         NEW message, frames' = WithLast(frames, message),
         GoesOn(P, pos', message, results[Len(frames)])
  PROVE  Continues'
<1>1. IsSequence(frames) /\ frames # <<>>
  BY TopIsTop
<1>2. AreMeant(P, WithLast(frames, message), reading.type, pos', results)
  BY <1>1, ConsumedIsMeant DEF AreMeant, GoesOn
<1> QED BY <1>2 DEF Continues

LEMMA ContinuesStep ==
  ASSUME BytesInv, TypedInv, Continues, ReadStep
  PROVE  /\ outcome' = "reading" => Continues'
         /\ outcome' = "done" => frames'[1].message = reading.message
         /\ outcome' # "garbled"
<1>1. outcome = "reading" /\ reading' = reading
  BY ReadStepKeepsReading
<1>2. PICK P : IsParse(P, reading.wire) /\ \E results :
        results[1] = reading.message /\ AreMeant(P, frames, reading.type, pos, results)
  BY DEF Continues
<1>3. PICK results :
        results[1] = reading.message /\ AreMeant(P, frames, reading.type, pos, results)
  BY <1>2
<1> DEFINE n == Len(frames)
           result == results[n]
           Over == AtEnd /\ pos = Top.end /\ result = Top.message
<1>4. /\ IsSequence(frames) /\ frames # <<>> /\ n \in Nat \ {0} /\ Top = frames[n]
  BY <1>1, TopIsTop
<1>5. GoesOn(P, pos, Top.message, result)
  BY <1>3, <1>4 DEF AreMeant, GoesOn
<1> HIDE DEF n, result
<1>6. \/ Over
      \/ ~AtEnd /\ MeansSkip(P, result)
      \/ ~AtEnd /\ \E field \in Known : MeansContent(P, field, result)
      \/ ~AtEnd /\ \E field \in Known : MeansNumber(P, field, result)
      \/ ~AtEnd /\ \E field \in Known : MeansMessage(P, field, result)
  BY <1>1, <1>2, <1>5, HereIsParsed
<1>7. \A f, g \in Known : f = g
  BY <1>1, OneIsKnown
<1>8. \A message :
        frames' = WithLast(frames, message) /\ GoesOn(P, pos', message, result) => Continues'
  BY <1>1, <1>2, <1>3, ConsumedContinues DEF result, n
<1>9. \A field \in Known : field.message = "" => field.message \notin DOMAIN Schema
  BY SchemaType
<1>10. ASSUME InLoop, NEW field \in Known, CanReadContent(field)
       PROVE  MeansContent(P, field, result)
  BY <1>6, <1>7, <1>9, <1>10
     DEF InLoop, MeansSkip, MeansNumber, MeansMessage, CanReadContent, CanReadNumber, CanEnter
<1>11. ASSUME InLoop, NEW field \in Known, CanReadNumber(field)
       PROVE  MeansNumber(P, field, result)
  BY <1>6, <1>7, <1>9, <1>11
     DEF InLoop, MeansSkip, MeansContent, MeansMessage, CanReadContent, CanReadNumber, CanEnter
<1>12. ASSUME InLoop, NEW field \in Known, CanEnter(field)
       PROVE  MeansMessage(P, field, result)
  BY <1>6, <1>7, <1>9, <1>12
     DEF InLoop, MeansSkip, MeansContent, MeansNumber, CanReadContent, CanReadNumber, CanEnter
<1>13. CASE ReadContent
  <2>1. PICK field \in Known : CanReadContent(field) /\ PutOnTop(field, Content)
    BY <1>13 DEF ReadContent
  <2>2. GoesOn(P, EndOfValue, Put(Top.message, field, Content), result)
    BY <1>10, <1>13, <2>1 DEF ReadContent, MeansContent
  <2>3. Continues'
    BY <1>8, <1>13, <2>1, <2>2 DEF ReadContent, PutOnTop
  <2> QED BY <1>1, <1>13, <2>3 DEF ReadContent
<1>14. CASE ReadNumber
  <2> DEFINE more(field) == [Top.message EXCEPT ![Slot(field)] =
                              @ \o [i \in DOMAIN Content |-> Content[i].value]]
  <2>1. PICK field \in Known :
          /\ CanReadNumber(field)
          /\ IF IsListHere(field)
             THEN frames' = WithLast(frames, more(field)) /\ pos' = EndOfValue
             ELSE PutOnTop(field, After.value) /\ pos' = pos + 2
    BY <1>14 DEF ReadNumber, IsListHere
  <2>2. IF IsListHere(field) THEN GoesOn(P, EndOfValue, more(field), result)
        ELSE GoesOn(P, pos + 2, Put(Top.message, field, After.value), result)
    BY <1>11, <1>14, <2>1 DEF ReadNumber, MeansNumber
  <2>3. Continues'
    BY <1>8, <2>1, <2>2 DEF PutOnTop
  <2> QED BY <1>1, <1>14, <2>3 DEF ReadNumber
<1>15. CASE Enter
  <2>1. PICK field \in Known :
          /\ CanEnter(field)
          /\ frames' = Append(frames,
               Called(FieldsOf(field.message), field, EndOfValue,
                      Target(Top.message, field)))
    BY <1>15 DEF Enter
  <2> DEFINE call == Called(FieldsOf(field.message), field, EndOfValue,
                            Target(Top.message, field))
  <2>2. /\ call.field = field /\ call.end = EndOfValue
        /\ call.message = IF Target(Top.message, field) = None
                          THEN Blank(FieldsOf(field.message))
                          ELSE Target(Top.message, field)
    BY DEF Called
  <2>3. frames' = Append(frames, call)
    BY <2>1
  <2> HIDE DEF call
  <2>4. PICK inner :
          /\ Parse(field.message, pos + 2, EndOfValue, call.message, inner) \in P
          /\ GoesOn(P, EndOfValue, Put(Top.message, field, inner), result)
    BY <1>12, <1>15, <2>1, <2>2 DEF Enter, MeansMessage
  <2> DEFINE next == pos + 2
  <2>5. pos' = next
    BY <1>15 DEF Enter
  <2>6. IsMeantFor(P, frames, reading.type, results, call, next, inner)
    BY <1>4, <2>2, <2>4 DEF IsMeantFor, GoesOn, n, result
  <2>7. CallersAreMeant(P, frames, reading.type, results)
    BY <1>3 DEF AreMeant
  <2> HIDE DEF next
  <2>8. \E more : more[1] = results[1]
                  /\ AreMeant(P, Append(frames, call), reading.type, next, more)
    BY <1>4, <2>6, <2>7, EnteredIsMeant
  <2>9. Continues'
    BY <1>1, <1>2, <1>3, <2>3, <2>5, <2>8 DEF Continues
  <2> QED BY <1>1, <1>15, <2>9 DEF Enter
<1>16. CASE Leave
  <2>1. /\ AtEnd /\ Len(frames) > 1 /\ pos' = pos
        /\ frames' = WithLast(Front(frames),
             Put(Last(Front(frames)).message, Last(frames).field, Last(frames).message))
    BY <1>16 DEF Leave, Top
  <2>2. pos = frames[Len(frames)].end /\ results[Len(frames)] = frames[Len(frames)].message
    BY <1>4, <1>6, <2>1 DEF n, result
  <2>3. AreMeant(P, frames', reading.type, pos', results)
    BY <1>3, <1>4, <2>1, <2>2, ReturnedIsMeant
  <2>4. Continues'
    BY <1>1, <1>2, <1>3, <2>3 DEF Continues
  <2> QED BY <1>1, <1>16, <2>4 DEF Leave
<1>17. CASE Skip
  <2> DEFINE kept == [Top.message EXCEPT !["unknown"] =
                       Append(@, SubSeq(reading.wire, pos + 1, pos'))]
  <2>1. pos' = EndOfSkip /\ frames' = WithLast(frames, kept) /\ ~AtEnd /\ Known = {}
    BY <1>17 DEF Skip, CanSkip, EndOfSkip, InLoop
  <2>2. GoesOn(P, pos', kept, result)
    BY <1>6, <2>1 DEF MeansSkip
  <2>3. Continues'
    BY <1>8, <2>1, <2>2
  <2> QED BY <1>1, <1>17, <2>3 DEF Skip
<1>18. CASE Finish
  <2>1. AtEnd /\ n = 1 /\ frames' = frames /\ outcome' = "done"
    BY <1>18 DEF Finish, n
  <2>2. frames[1].message = results[1]
    BY <1>4, <1>6, <2>1 DEF result
  <2> QED BY <1>3, <2>1, <2>2
<1>19. CASE Garble
  BY <1>6, <1>19
     DEF Garble, InLoop, MeansSkip, MeansContent, MeansNumber, MeansMessage
<1> QED BY <1>13, <1>14, <1>15, <1>16, <1>17, <1>18, <1>19 DEF ReadStep

LEMMA MeaningStep == BytesInv /\ TypedInv /\ MeaningInv /\ ReadStep => MeaningInv'
<1> SUFFICES ASSUME BytesInv, TypedInv, MeaningInv, ReadStep, reading.message # None
             PROVE  MeaningInv'
  BY ReadStepKeepsReading DEF MeaningInv
<1>1. outcome = "reading" /\ reading' = reading /\ Continues
  BY ReadStepKeepsReading DEF MeaningInv
<1>2. /\ outcome' = "reading" => Continues'
      /\ outcome' = "done" => frames'[1].message = reading.message
      /\ outcome' # "garbled"
  BY <1>1, ContinuesStep
<1> QED BY <1>1, <1>2 DEF MeaningInv

\* The first call of a reader, for bytes that mean a message.
MeantBegun ==
  outcome = "reading" /\ \E r :
    Reading(r) /\ (r.message # None => Means(r.type, r.wire, r.message))

LEMMA MeaningBegins ==
  ASSUME MeantBegun
  PROVE  MeaningInv
<1> SUFFICES ASSUME reading.message # None PROVE Continues
  BY DEF MeantBegun, MeaningInv
<1>1. PICK r : Reading(r) /\ (r.message # None => Means(r.type, r.wire, r.message))
  BY DEF MeantBegun
<1>2. reading = r /\ pos = 0 /\ frames = <<FirstCall(r)>>
  BY <1>1 DEF Reading
<1>3. PICK P : IsParse(P, r.wire) /\ WholeParse(r.type, r.wire, r.message) \in P
  BY <1>1, <1>2 DEF Means
<1>4. FirstCall(r).end = Len(r.wire) /\ FirstCall(r).message = Create(r.type)
  BY DEF FirstCall, Called, Create
<1> DEFINE results == <<r.message>>
           s == <<FirstCall(r)>>
<1>5. Len(s) = 1 /\ s[1] = FirstCall(r) /\ results[1] = r.message
  OBVIOUS
<1> HIDE DEF results, s
<1>6. RestIn(P, s, r.type, 1, 0, s[1].message, results[1])
  BY <1>3, <1>4, <1>5 DEF RestIn, TypeOf, WholeParse
<1>7. CallersAreMeant(P, s, r.type, results)
  BY <1>5 DEF CallersAreMeant
<1>8. AreMeant(P, s, r.type, 0, results)
  BY <1>5, <1>6, <1>7 DEF AreMeant
<1> QED BY <1>2, <1>3, <1>5, <1>8 DEF Continues, s

LEMMA MeaningStarts ==
  ASSUME BytesMeanMessages, Init
  PROVE  MeaningInv \/ MeantBegun
<1>1. CASE Idle
  BY <1>1 DEF Idle, MeaningInv
<1>2. ASSUME NEW type \in DOMAIN Schema, NEW r \in ReadingsOf(type), Reading(r)
      PROVE  MeantBegun
  <2>1. r.type = type
    BY ReadingsType
  <2>2. r.message # None => Means(r.type, r.wire, r.message)
    BY <2>1 DEF BytesMeanMessages
  <2> QED BY <1>2, <2>2 DEF MeantBegun, Reading
<1> QED BY <1>1, <1>2 DEF Init

\* The answer to a call is one of the type it is read as.
LEMMA AnswersAreMeant ==
  ASSUME BytesMeanMessages, CallInv, NEW c \in Calls, Answer(c)
  PROVE  MeantBegun'
<1> DEFINE package == calls[c].path[1][1]
           type == Qualified(package, Served(calls[c].path).output)
<1>1. PICK answer \in AnswersOf(type) :
        Begin([type |-> Qualified(package, calls[c].readAs),
               wire |-> answer.wire, message |-> answer.message])
  BY DEF Answer
<1> DEFINE r == [type |-> Qualified(package, calls[c].readAs),
                 wire |-> answer.wire, message |-> answer.message]
<1>2. IsCall(calls[c])
  BY DEF Answer, CallInv
<1>3. Qualified(package, calls[c].readAs) = type /\ type \in DOMAIN Schema
  BY <1>2, PathsLeadBack DEF IsCall
<1>4. Means(type, answer.wire, answer.message)
  BY <1>3 DEF BytesMeanMessages
<1>5. r.type = type /\ r.wire = answer.wire /\ r.message = answer.message
  BY <1>3
<1>6. outcome' = "reading" /\ reading' = r /\ pos' = 0 /\ frames' = <<FirstCall(r)>>
  BY <1>1 DEF Begin
<1> HIDE DEF r, type
<1> QED BY <1>4, <1>5, <1>6 DEF MeantBegun, Reading

LEMMA MeaningMoves ==
  ASSUME BytesMeanMessages, CallInv, BytesInv, TypedInv, MeaningInv, [Next]_queryVars
  PROVE  MeaningInv' \/ MeantBegun'
<1>1. CASE End
  BY <1>1 DEF End, MeaningInv
<1>2. CASE ReadStep
  BY <1>2, MeaningStep
<1>3. CASE UNCHANGED codecVars
  BY <1>3 DEF codecVars, MeaningInv, Continues
<1>4. (\E c \in Calls : Answer(c)) \/ End \/ ReadStep \/ UNCHANGED codecVars
  BY DEF Next, Calling, Read, Load, LoadFails, queryVars, Ask, Take, Fail, Return
<1> QED BY <1>1, <1>2, <1>3, <1>4, AnswersAreMeant

\* Bytes that mean a message are read as that message, at whatever depth, by
\* readers that share one position; none of them is refused (internalBinaryRead).
THEOREM MeaningIsRead ==
  ASSUME BytesMeanMessages
  PROVE  Spec => []ReadsWhatIsMeant
<1>1. ReaderInv => BytesInv
  BY DEF ReaderInv
<1>2. MeaningInv => ReadsWhatIsMeant
  BY DEF MeaningInv, ReadsWhatIsMeant
<1>3. Init => MeaningInv \/ MeantBegun
  BY MeaningStarts
<1>4. CallInv /\ BytesInv /\ TypedInv /\ MeaningInv /\ [Next]_queryVars
        => MeaningInv' \/ MeantBegun'
  BY MeaningMoves
<1> QED BY <1>1, <1>2, <1>3, <1>4, MeaningBegins, ReadersAreReaders, CallsAreCalls,
           CallsAreTyped, PTL DEF Spec

-----------------------------------------------------------------------------
(* Methods.                                                                  *)

\* If every method is in the place of its procedure, then the procedure a call
\* reaches takes what the call's codec writes and returns what it reads; and the
\* answer, when it has been read, is the message that the server sent.
THEOREM MethodsMeet ==
  ASSUME TablesAgree, BytesMeanMessages
  PROVE  Spec => []MethodsMeetTheirProcedures
<1>1. CallInv => (ReadsWhatIsMeant => MethodsMeetTheirProcedures)
  <2> SUFFICES ASSUME CallInv, ReadsWhatIsMeant, NEW c \in Calls, calls[c] # None
               PROVE  /\ calls[c].method.input = calls[c].writtenAs
                      /\ calls[c].writtenAs = Served(calls[c].path).input
                      /\ calls[c].method.output = calls[c].readAs
                      /\ calls[c].status = "answered" =>
                           /\ outcome # "garbled"
                           /\ outcome = "done" => frames[1].message = reading.message
    BY DEF MethodsMeetTheirProcedures
  <2>1. PICK client \in AllClients :
          \E method \in Range(client.methods) : \E status \in Statuses : \E answer :
            calls[c] = CallOf(client, method, status, answer)
    BY DEF CallInv, IsCall
  <2>2. PICK method \in Range(client.methods), status \in Statuses :
          \E answer : calls[c] = CallOf(client, method, status, answer)
    BY <2>1
  <2>3. PICK answer : calls[c] = CallOf(client, method, status, answer)
    BY <2>2
  <2>4. /\ calls[c].method = method
        /\ calls[c].writtenAs = client.service.rpcs[method.index + 1].input
        /\ calls[c].readAs = client.service.rpcs[method.index + 1].output
        /\ Served(calls[c].path) = client.service.rpcs[method.index + 1]
    BY <2>3, PathsLeadBack
  <2>5. calls[c].status = "answered" => outcome # "idle" /\ reading.message # None
    BY DEF CallInv, IsAnswered
  <2> QED BY <2>4, <2>5, TablesAgree DEF TablesAgree, ReadsWhatIsMeant
<1>2. Spec => []ReadsWhatIsMeant
  BY MeaningIsRead
<1> QED BY <1>1, <1>2, CallsAreCalls, PTL
=============================================================================
