------------------------- MODULE AsrSessionsProofs -------------------------
(***************************************************************************)
(* What AsrSessions guarantees for every set of clients, any providers and *)
(* limits, whatever fails and whoever goes away: no session is leaked,     *)
(* what ends a stream is the last that its client hears, and nobody with a *)
(* permit is refused for want of capacity.                                 *)
(***************************************************************************)
EXTENDS AsrSessions, FiniteSetTheorems, SequenceTheorems, TLAPS

Place == {"off", "opening", "starting", "queued", "loop", "pinged", "pushing", "finishing",
          "stopping", "cancelling", "transcribing", "recognised", "sending", "leaving", "done"}
StreamPlace == {"opening", "starting", "loop", "pinged", "pushing", "finishing", "stopping",
                "cancelling", "sending"}
Message == {"Ready", "Recognition", "Ended", "Error", "Exhausted", "Timeout"}
Terminal == {"Ended", "Error", "Exhausted"}

\* A client whose session, if it has one, will be removed by its task.
Serving(c) ==
  \/ at[c] \in {"loop", "pinged", "pushing", "finishing", "stopping", "cancelling", "transcribing",
                "recognised"}
  \/ at[c] = "sending" /\ after[c] = "loop"

TypeInv ==
  /\ next_session_id \in Nat
  /\ \A s \in sessions : s.id \in 1 .. next_session_id
  /\ at \in [Clients -> Place] /\ after \in [Clients -> {"loop", "leaving"}]
  /\ outbox \in [Clients -> Seq(Message)] /\ told \in [Clients -> Seq(Message)]
  /\ sid \in [Clients -> 0 .. next_session_id]

\* Where the task of a client may be, and with what.
TaskInv(c) ==
  /\ at[c] \notin {"off", "done"} => c \in holders
  /\ at[c] \in {"off", "opening", "starting", "queued"} => sid[c] = 0
  /\ at[c] \in StreamPlace => c \in Streams
  /\ ~Serving(c) => Of(c) = {}

\* What ends a stream is the last in its outbox, and then the last that is told.
StreamInv(c) ==
  /\ at[c] \notin {"queued", "transcribing", "recognised"}
  /\ at[c] = "cancelling" => after[c] = "leaving"
  /\ at[c] \notin {"sending", "cancelling"} => outbox[c] = << >>
  /\ at[c] = "sending" => outbox[c] # << >>
  /\ \A i \in DOMAIN outbox[c] :
       outbox[c][i] \in Terminal => i = Len(outbox[c]) /\ after[c] = "leaving"
  /\ \A i \in DOMAIN told[c] :
       told[c][i] \in Terminal =>
         i = Len(told[c]) /\ outbox[c] = << >> /\ at[c] \in {"leaving", "done"}

Inv ==
  /\ TypeInv
  /\ \A s \in sessions : \E c \in Clients : sid[c] = s.id
  /\ \A c \in Clients : TaskInv(c)
  /\ \A c \in Streams : StreamInv(c)

-----------------------------------------------------------------------------
\* What a step for client c may do to the sessions.
SessionsChange(c) ==
  \/ UNCHANGED <<sessions, next_session_id, sid>>
  \/ RemoveSession(c) /\ UNCHANGED <<next_session_id, sid>>
  \/ StartSession(c)

OthersKept(c) ==
  \A k \in Clients \ {c} :
    /\ at'[k] = at[k] /\ after'[k] = after[k] /\ outbox'[k] = outbox[k] /\ told'[k] = told[k]
    /\ k \in holders' <=> k \in holders

\* Every step works for one client.
LEMMA StepShape ==
  ASSUME TypeInv, NEW c \in Clients,
         \/ Acquire(c) \/ ClientGone(c) \/ Open(c) \/ Leave(c)
         \/ Chunk(c) \/ EndControl(c) \/ CancelControl(c) \/ InvalidControl(c) \/ Ping(c)
         \/ StreamSession(c)
         \/ Transcribe(c) \/ Recognise(c) \/ Transcribed(c) \/ TimeOut(c)
  PROVE  SessionsChange(c) /\ OthersKept(c)
<1> USE DEF TypeInv, SessionsChange, OthersKept, runtime, task, Reply, CancelAndReply, NoSession,
            Answer
<1>1. CASE Acquire(c) \/ ClientGone(c) \/ Open(c) \/ Leave(c)
  BY <1>1 DEF Acquire, ClientGone, Open, Leave
<1>2. CASE Chunk(c) \/ EndControl(c) \/ CancelControl(c) \/ InvalidControl(c) \/ Ping(c)
  BY <1>2 DEF Chunk, EndControl, CancelControl, InvalidControl, Ping
<1>3. CASE StreamSession(c)
  <2>1. CASE StartStream(c)
    BY <2>1 DEF StartStream
  <2>2. CASE Send(c) \/ Push(c)
    BY <2>2 DEF Send, SendSucceeds, SendFails, Push
  <2>3. CASE FinishSession(c) \/ StopSession(c) \/ CancelSession(c)
    BY <2>3 DEF FinishSession, StopSession, CancelSession
  <2>4. CASE ReadOn(c) \/ Disconnected(c) \/ IdleTimeout(c)
    BY <2>4 DEF ReadOn, Disconnected, IdleTimeout
  <2> QED
    BY <1>3, <2>1, <2>2, <2>3, <2>4 DEF StreamSession
<1>4. CASE Transcribe(c) \/ Recognise(c) \/ Transcribed(c) \/ TimeOut(c)
  BY <1>4 DEF Transcribe, Recognise, Transcribed, TimeOut
<1> QED
  BY <1>1, <1>2, <1>3, <1>4

\* Such a step leaves the other clients as they are: a session that is new has an id of its
\* own, and one that is removed was the client's own.
LEMMA OthersStep ==
  ASSUME TypeInv, NEW c \in Clients, SessionsChange(c), OthersKept(c),
         NEW k \in Clients \ {c}
  PROVE  /\ TaskInv(k) => TaskInv(k)'
         /\ StreamInv(k) => StreamInv(k)'
<1>1. sid'[k] = sid[k]
  BY DEF SessionsChange, StartSession, TypeInv
<1>2. Of(k)' \subseteq Of(k)
  BY <1>1 DEF SessionsChange, StartSession, RemoveSession, Of, TypeInv
<1> QED
  BY <1>1, <1>2 DEF OthersKept, TaskInv, StreamInv, Serving

\* A session in the runtime is some client's.
LEMMA OwnersStep ==
  ASSUME TypeInv, NEW c \in Clients, SessionsChange(c),
         \A s \in sessions : \E k \in Clients : sid[k] = s.id,
         at[c] \in {"starting", "queued"} \/ ~StartSession(c), TaskInv(c)
  PROVE  \A s \in sessions' : \E k \in Clients : sid'[k] = s.id
<1>1. CASE UNCHANGED <<sessions, next_session_id, sid>>
  BY <1>1
<1>2. CASE RemoveSession(c) /\ UNCHANGED <<next_session_id, sid>>
  BY <1>2 DEF RemoveSession
<1>3. CASE StartSession(c)
  <2>1. sid[c] = 0 /\ sid'[c] = next_session_id + 1
    BY <1>3 DEF TaskInv, StartSession, TypeInv
  <2>2. \A k \in Clients \ {c} : sid'[k] = sid[k]
    BY <1>3 DEF StartSession, TypeInv
  <2>3. \A s \in sessions : s.id # 0
    BY DEF TypeInv
  <2>4. ASSUME NEW s \in sessions PROVE \E k \in Clients : sid'[k] = s.id
    BY <2>1, <2>2, <2>3
  <2>5. sessions' = sessions \cup {[id |-> next_session_id + 1, provider |-> provider[c]]}
    BY <1>3 DEF StartSession
  <2> QED
    BY <2>1, <2>4, <2>5
<1> QED
  BY <1>1, <1>2, <1>3 DEF SessionsChange

\* The ids stay in their range.
LEMMA SessionTypes ==
  ASSUME TypeInv, NEW c \in Clients, SessionsChange(c)
  PROVE  /\ next_session_id' \in Nat
         /\ \A s \in sessions' : s.id \in 1 .. next_session_id'
         /\ sid' \in [Clients -> 0 .. next_session_id']
<1>1. CASE UNCHANGED <<next_session_id, sid>> /\ sessions' \subseteq sessions
  BY <1>1 DEF TypeInv
<1>2. CASE StartSession(c)
  BY <1>2 DEF StartSession, TypeInv
<1> QED
  BY <1>1, <1>2 DEF SessionsChange, RemoveSession

-----------------------------------------------------------------------------
\* What the client's own step leaves: the types of its variables, its task and its stream.
TaskTypes ==
  /\ at' \in [Clients -> Place] /\ after' \in [Clients -> {"loop", "leaving"}]
  /\ outbox' \in [Clients -> Seq(Message)] /\ told' \in [Clients -> Seq(Message)]

Own(c) == TaskTypes /\ TaskInv(c)' /\ (c \in Streams => StreamInv(c)')

\* Messages the task sends before it goes on, none of which ends the stream unless the task
\* leaves behind it, and then only the last.
LEMMA ReplyStep ==
  ASSUME TypeInv, NEW c \in Clients \cap Streams, NEW messages \in Seq(Message),
         NEW place \in {"loop", "leaving"}, Reply(c, messages, place), UNCHANGED told,
         c \in holders', place = "leaving" => Of(c)' = {},
         \A i \in DOMAIN messages :
           messages[i] \in Terminal => i = Len(messages) /\ place = "leaving",
         \A i \in DOMAIN told[c] : told[c][i] \notin Terminal
  PROVE  Own(c)
<1>1. /\ at' = [at EXCEPT ![c] = IF messages = << >> THEN place ELSE "sending"]
      /\ after'[c] = place /\ outbox'[c] = messages /\ told' = told
  BY DEF Reply, TypeInv
<1>2. at'[c] = IF messages = << >> THEN place ELSE "sending"
  BY <1>1 DEF TypeInv
<1>3. TaskTypes
  BY <1>1 DEF TaskTypes, TypeInv, Place, Reply
<1>4. TaskInv(c)'
  BY <1>1, <1>2 DEF TaskInv, Serving, StreamPlace
<1>5. StreamInv(c)'
  BY <1>1, <1>2 DEF StreamInv
<1> QED
  BY <1>3, <1>4, <1>5 DEF Own

\* The session is to be cancelled first.
LEMMA CancelAndReplyStep ==
  ASSUME TypeInv, NEW c \in Clients \cap Streams, NEW messages \in Seq(Message),
         CancelAndReply(c, messages), UNCHANGED told, c \in holders',
         \A i \in DOMAIN messages : i = Len(messages),
         \A i \in DOMAIN told[c] : told[c][i] \notin Terminal
  PROVE  Own(c)
<1>1. /\ at'[c] = "cancelling" /\ after'[c] = "leaving" /\ outbox'[c] = messages
      /\ told' = told
  BY DEF CancelAndReply, TypeInv
<1>2. TaskTypes
  BY DEF TaskTypes, TypeInv, Place, CancelAndReply
<1>3. TaskInv(c)'
  BY <1>1 DEF TaskInv, Serving
<1>4. StreamInv(c)'
  BY <1>1 DEF StreamInv
<1> QED
  BY <1>2, <1>3, <1>4 DEF Own

\* The task goes on with an empty outbox.
LEMMA GoOn ==
  ASSUME TypeInv, NEW c \in Clients, NEW place \in Place,
         at' = [at EXCEPT ![c] = place], UNCHANGED <<after, outbox>>,
         place \notin {"off", "done"} => c \in holders',
         place \in {"off", "opening", "starting", "queued"} => sid'[c] = 0,
         place \in {"off", "opening", "starting", "queued", "leaving", "done"} => Of(c)' = {},
         place \in StreamPlace => c \in Streams,
         place \notin {"sending", "cancelling"},
         \/ /\ c \in Streams => outbox[c] = << >>
            /\ c \in Streams => place \notin {"queued", "transcribing", "recognised"}
            /\ UNCHANGED told
            /\ c \in Streams => \A i \in DOMAIN told[c] :
                 told[c][i] \in Terminal => i = Len(told[c]) /\ place \in {"leaving", "done"}
         \/ c \notin Streams /\ told' \in [Clients -> Seq(Message)]
  PROVE  Own(c)
<1>1. at'[c] = place
  BY DEF TypeInv
<1>2. TaskTypes
  BY DEF TaskTypes, TypeInv
<1>3. TaskInv(c)'
  BY <1>1 DEF TaskInv, Serving, Place
<1>4. c \in Streams => StreamInv(c)'
  BY <1>1, EmptySeq DEF StreamInv
<1> QED
  BY <1>2, <1>3, <1>4 DEF Own

\* What is left of an outbox when its first message is sent.
LEMMA TailFacts ==
  ASSUME NEW S, NEW q \in Seq(S), q # << >>
  PROVE  /\ Len(Tail(q)) = Len(q) - 1
         /\ \A i \in 1 .. Len(q) - 1 : Tail(q)[i] = q[i + 1]
         /\ DOMAIN q = 1 .. Len(q) /\ DOMAIN Tail(q) = 1 .. Len(q) - 1
         /\ Len(q) = 1 <=> Tail(q) = << >>
<1>1. Len(q) \in Nat \ {0} /\ DOMAIN q = 1 .. Len(q)
  BY EmptySeq
<1>2. /\ Tail(q) \in Seq(S) /\ Len(Tail(q)) = Len(q) - 1
      /\ \A i \in 1 .. Len(q) - 1 : Tail(q)[i] = q[i + 1]
  BY HeadTailProperties
<1>3. DOMAIN Tail(q) = 1 .. Len(q) - 1
  BY <1>2
<1>4. Len(Tail(q)) = 0 <=> Tail(q) = << >>
  BY <1>2, EmptySeq
<1> QED
  BY <1>1, <1>2, <1>3, <1>4

\* What a task has to say.
Plain == {<< >>, <<"Ready">>, <<"Recognition">>}
Last == {<< >>, <<"Error">>, <<"Exhausted">>, <<"Ended">>, <<"Recognition", "Ended">>}

LEMMA MessageFacts ==
  /\ \A m \in Plain : m \in Seq(Message) /\ \A i \in DOMAIN m : m[i] \notin Terminal
  /\ \A m \in Last :
       m \in Seq(Message) /\ \A i \in DOMAIN m : m[i] \in Terminal => i = Len(m)
  /\ \A m \in {<< >>, <<"Error">>} : \A i \in DOMAIN m : i = Len(m)
<1>1. /\ << >> \in Seq(Message) /\ DOMAIN << >> = {}
  OBVIOUS
<1>2. ASSUME NEW x \in Message
      PROVE  /\ <<x>> \in Seq(Message) /\ DOMAIN <<x>> = {1} /\ <<x>>[1] = x
             /\ Len(<<x>>) = 1
  OBVIOUS
<1>3. /\ <<"Recognition", "Ended">> \in Seq(Message)
      /\ DOMAIN <<"Recognition", "Ended">> = {1, 2} /\ Len(<<"Recognition", "Ended">>) = 2
      /\ <<"Recognition", "Ended">>[1] = "Recognition"
  BY DEF Message
<1>4. {"Ready", "Recognition", "Ended", "Error", "Exhausted"} \subseteq Message
  BY DEF Message
<1>5. \A m \in Plain : m \in Seq(Message) /\ \A i \in DOMAIN m : m[i] \notin Terminal
  BY <1>1, <1>2, <1>4 DEF Plain, Terminal
<1>6. ASSUME NEW m \in Last
      PROVE  m \in Seq(Message) /\ \A i \in DOMAIN m : m[i] \in Terminal => i = Len(m)
  <2>1. CASE m = << >>
    BY <1>1, <2>1
  <2>2. ASSUME NEW x \in Message, m = <<x>>
        PROVE  m \in Seq(Message) /\ \A i \in DOMAIN m : m[i] \in Terminal => i = Len(m)
    BY <1>2, <2>2
  <2>3. CASE m = <<"Recognition", "Ended">>
    BY <1>3, <2>3 DEF Terminal
  <2>4. \/ m = << >> \/ m = <<"Recognition", "Ended">>
        \/ \E x \in Message : m = <<x>>
    BY <1>4 DEF Last
  <2> QED
    BY <2>1, <2>2, <2>3, <2>4
<1>7. \A m \in {<< >>, <<"Error">>} : \A i \in DOMAIN m : i = Len(m)
  BY <1>1, <1>2, <1>4
<1> QED
  BY <1>5, <1>6, <1>7

\* The steps of a client.
LEMMA OwnStep ==
  ASSUME TypeInv, NEW c \in Clients, TaskInv(c), c \in Streams => StreamInv(c),
         \/ Acquire(c) \/ ClientGone(c) \/ Open(c) \/ Leave(c)
         \/ Chunk(c) \/ EndControl(c) \/ CancelControl(c) \/ InvalidControl(c) \/ Ping(c)
         \/ StreamSession(c)
         \/ Transcribe(c) \/ Recognise(c) \/ Transcribed(c) \/ TimeOut(c)
  PROVE  Own(c)
<1> USE DEF runtime, task
<1>1. at[c] \notin {"off", "done"} => c \in holders
  BY DEF TaskInv
<1>2. /\ at[c] \in {"off", "opening", "starting", "queued", "leaving"} => Of(c) = {}
      /\ at[c] \in {"off", "opening", "starting", "queued"} => sid[c] = 0
  BY DEF TaskInv, Serving
<1>3. /\ /\ at[c] \in {"opening", "starting", "loop", "pinged", "pushing", "finishing",
                     "stopping"}
         /\ c \in Streams
         => outbox[c] = << >>
      /\ at[c] \notin {"leaving", "done"} /\ c \in Streams =>
           \A i \in DOMAIN told[c] : told[c][i] \notin Terminal
  BY DEF StreamInv
<1>5. CASE Acquire(c)
  <2>1. /\ c \in holders' /\ UNCHANGED <<after, outbox, told, sid>> /\ Of(c)' = {} /\ sid[c] = 0
        /\ at[c] = "off"
    BY <1>2, <1>5 DEF Acquire, Of
  <2> DEFINE place == IF c \in Streams THEN "opening" ELSE "queued"
  <2>2. at' = [at EXCEPT ![c] = place] /\ place \in Place
    BY <1>5 DEF Acquire, Place
  <2>3. c \in Streams => outbox[c] = << >>
    BY <2>1 DEF StreamInv
  <2> QED
    BY <1>3, <2>1, <2>2, <2>3, GoOn DEF StreamPlace
<1>6. CASE ClientGone(c)
  BY <1>6 DEF ClientGone, Own, TaskTypes, TypeInv, TaskInv, StreamInv, Serving, Of
<1>7. CASE Leave(c)
  <2>1. UNCHANGED <<after, outbox, told, sid>> /\ Of(c)' = {} /\ at[c] = "leaving"
        /\ at' = [at EXCEPT ![c] = "done"] /\ "done" \in Place
    BY <1>2, <1>7 DEF Leave, Of, Place
  <2> QED
    BY <2>1, GoOn DEF StreamInv, StreamPlace
<1>8. CASE Open(c)
  <2>1. /\ c \in Streams /\ c \in holders' /\ UNCHANGED <<told, sid, sessions>> /\ Of(c)' = {}
        /\ sid[c] = 0 /\ outbox[c] = << >>
    BY <1>1, <1>2, <1>3, <1>8 DEF Open, Of, TaskInv, StreamPlace
  <2>2. CASE at' = [at EXCEPT ![c] = "starting"] /\ UNCHANGED <<after, outbox>>
    BY <1>3, <1>8, <2>1, <2>2, GoOn DEF Open, Place, StreamPlace
  <2>3. CASE Reply(c, <<"Error">>, "leaving")
    BY MessageFacts, <1>3, <1>8, <2>1, <2>3, ReplyStep DEF Open, Last
  <2> QED
    BY <1>8, <2>2, <2>3 DEF Open
<1>9. CASE \/ Chunk(c) \/ EndControl(c) \/ CancelControl(c)
              \/ InvalidControl(c) \/ Ping(c) \/ ReadOn(c) \/ Disconnected(c)
              \/ IdleTimeout(c)
  <2>1. /\ c \in Streams /\ c \in holders' /\ UNCHANGED told /\ outbox[c] = << >>
        /\ \A i \in DOMAIN told[c] : told[c][i] \notin Terminal
    BY <1>1, <1>3, <1>9 DEF Chunk, EndControl, CancelControl, InvalidControl, Ping, ReadOn,
       Disconnected, IdleTimeout, TaskInv, StreamPlace
  <2>2. ASSUME NEW place \in {"pinged", "loop", "pushing", "finishing", "stopping"},
               at' = [at EXCEPT ![c] = place], UNCHANGED <<after, outbox>>
        PROVE  Own(c)
    BY <2>1, <2>2, GoOn DEF Place
  <2>3. ASSUME NEW messages \in {<<"Error">>, << >>}, CancelAndReply(c, messages) PROVE Own(c)
    BY MessageFacts, <2>1, <2>3, CancelAndReplyStep DEF Last
  <2> QED
    BY <1>9, <2>2, <2>3 DEF Chunk, EndControl, CancelControl, InvalidControl, Ping, ReadOn,
       Disconnected, IdleTimeout
<1>10. CASE StartStream(c)
  <2>1. /\ c \in Streams /\ c \in holders' /\ UNCHANGED told
        /\ \A i \in DOMAIN told[c] : told[c][i] \notin Terminal
    BY <1>1, <1>3, <1>10 DEF StartStream, TaskInv, StreamPlace
  <2>2. CASE Reply(c, <<"Ready">>, "loop")
    BY MessageFacts, <2>1, <2>2, ReplyStep DEF Plain
  <2>3. ASSUME NEW messages \in {<<"Error">>, <<"Exhausted">>}, NoSession,
               Reply(c, messages, "leaving")
        PROVE  Own(c)
    <3>1. Of(c)' = {}
      BY <1>2, <1>10, <2>3 DEF StartStream, NoSession, Of
    <3> QED
      BY MessageFacts, <2>1, <2>3, <3>1, ReplyStep DEF Last
  <2> QED
    BY <1>10, <2>2, <2>3 DEF StartStream
<1>11. CASE Send(c)
  <2>1. /\ c \in Streams /\ c \in holders' /\ StreamInv(c) /\ at[c] = "sending"
        /\ UNCHANGED <<sid, sessions>> /\ Of(c)' = Of(c)
        /\ outbox[c] # << >> /\ outbox[c] \in Seq(Message) /\ told[c] \in Seq(Message)
    BY <1>1, <1>11 DEF Send, TaskInv, StreamPlace, StreamInv, TypeInv, Of
  <2>2. CASE SendSucceeds(c)
    <3>1. /\ told'[c] = Append(told[c], Head(outbox[c])) /\ outbox'[c] = Tail(outbox[c])
          /\ at'[c] = IF Len(outbox[c]) = 1 THEN after[c] ELSE "sending"
          /\ after' = after
          /\ Head(outbox[c]) = outbox[c][1] /\ Head(outbox[c]) \in Message
          /\ Tail(outbox[c]) \in Seq(Message) /\ Len(outbox[c]) \in Nat \ {0}
      BY <2>1, <2>2 DEF SendSucceeds, TypeInv
    <3>2. TaskTypes
      BY <2>2, <3>1 DEF SendSucceeds, TaskTypes, TypeInv, Place
    <3>3. TaskInv(c)'
      BY <2>1, <3>1 DEF TaskInv, Serving, StreamPlace, TypeInv
    <3>4. /\ Len(outbox'[c]) = Len(outbox[c]) - 1
          /\ \A i \in 1 .. Len(outbox[c]) - 1 : outbox'[c][i] = outbox[c][i + 1]
          /\ DOMAIN outbox[c] = 1 .. Len(outbox[c])
          /\ DOMAIN outbox'[c] = 1 .. Len(outbox[c]) - 1
          /\ Len(outbox[c]) = 1 <=> outbox'[c] = << >>
      BY <2>1, <3>1, TailFacts
    <3>5. outbox[c][1] \in Terminal => Len(outbox[c]) = 1 /\ after[c] = "leaving"
      BY <2>1, <3>1, <3>4 DEF StreamInv
    <3>6. \A i \in DOMAIN told'[c] : told'[c][i] \in Terminal =>
             i = Len(told'[c]) /\ outbox'[c] = << >> /\ at'[c] \in {"leaving", "done"}
      BY <2>1, <3>1, <3>4, <3>5 DEF StreamInv
    <3>7. \A i \in DOMAIN outbox'[c] :
            outbox'[c][i] \in Terminal => i = Len(outbox'[c]) /\ after'[c] = "leaving"
      <4> SUFFICES ASSUME NEW i \in 1 .. Len(outbox[c]) - 1, outbox[c][i + 1] \in Terminal
                   PROVE  i = Len(outbox[c]) - 1 /\ after[c] = "leaving"
        BY <3>1, <3>4
      <4>1. i + 1 \in DOMAIN outbox[c]
        BY <3>1, <3>4
      <4>2. i + 1 = Len(outbox[c]) /\ after[c] = "leaving"
        BY <2>1, <4>1 DEF StreamInv
      <4> QED
        BY <3>1, <4>2
    <3>8. /\ at'[c] \in {"sending", "loop", "leaving"}
          /\ at'[c] = "sending" <=> outbox'[c] # << >>
      BY <3>1, <3>4 DEF TypeInv
    <3>9. StreamInv(c)'
      BY <3>6, <3>7, <3>8 DEF StreamInv
    <3> QED
      BY <3>2, <3>3, <3>9 DEF Own
  <2>3. CASE SendFails(c)
    <3>1. /\ told' = told /\ outbox'[c] = << >> /\ after'[c] = "leaving"
          /\ at'[c] = IF after[c] = "loop" THEN "cancelling" ELSE "leaving"
      BY <2>3 DEF SendFails, TypeInv
    <3>2. TaskTypes
      BY <2>3, EmptySeq DEF SendFails, TaskTypes, TypeInv, Place
    <3>3. TaskInv(c)'
      BY <2>1, <3>1 DEF TaskInv, Serving, StreamPlace, TypeInv
    <3>4. StreamInv(c)'
      BY <2>1, <3>1 DEF StreamInv
    <3> QED
      BY <3>2, <3>3, <3>4 DEF Own
  <2> QED
    BY <1>11, <2>2, <2>3 DEF Send
<1>12. CASE Push(c)
  <2>1. /\ c \in Streams /\ c \in holders' /\ UNCHANGED told
        /\ \A i \in DOMAIN told[c] : told[c][i] \notin Terminal
    BY <1>1, <1>3, <1>12 DEF Push, TaskInv, StreamPlace
  <2>2. ASSUME NEW messages \in {<< >>, <<"Recognition">>}, Reply(c, messages, "loop")
        PROVE  Own(c)
    BY MessageFacts, <2>1, <2>2, ReplyStep DEF Plain
  <2>3. CASE CancelAndReply(c, <<"Error">>)
    BY MessageFacts, <2>1, <2>3, CancelAndReplyStep DEF Last
  <2> QED
    BY <1>12, <2>2, <2>3 DEF Push
<1>13. CASE FinishSession(c) \/ StopSession(c)
  <2>1. /\ c \in Streams /\ c \in holders' /\ UNCHANGED told /\ Of(c)' = {}
        /\ \A i \in DOMAIN told[c] : told[c][i] \notin Terminal
    BY <1>1, <1>3, <1>13 DEF FinishSession, StopSession, RemoveSession, Of, TaskInv, StreamPlace
  <2>2. ASSUME NEW messages \in {<<"Recognition", "Ended">>, <<"Error">>, <<"Ended">>},
               Reply(c, messages, "leaving")
        PROVE  Own(c)
    BY MessageFacts, <2>1, <2>2, ReplyStep DEF Last
  <2> QED
    BY <1>13, <2>2 DEF FinishSession, StopSession
<1>14. CASE CancelSession(c)
  <2>1. /\ c \in Streams /\ c \in holders' /\ UNCHANGED told /\ Of(c)' = {}
        /\ \A i \in DOMAIN told[c] : told[c][i] \notin Terminal
        /\ outbox[c] \in Seq(Message)
        /\ \A i \in DOMAIN outbox[c] : outbox[c][i] \in Terminal => i = Len(outbox[c])
        /\ Reply(c, outbox[c], "leaving")
    BY <1>1, <1>3, <1>14 DEF CancelSession, RemoveSession, Of, TaskInv, StreamPlace, StreamInv,
       TypeInv
  <2> QED
    BY <2>1, ReplyStep
<1>15. CASE Transcribe(c) \/ Recognise(c) \/ Transcribed(c) \/ TimeOut(c)
  <2>1. /\ c \notin Streams /\ c \in holders' /\ UNCHANGED <<after, outbox>>
        /\ at[c] \in {"queued", "transcribing", "recognised"}
    BY <1>1, <1>15 DEF Transcribe, Recognise, Transcribed, TimeOut, StreamInv
  <2>2. told' \in [Clients -> Seq(Message)]
    <3>1. ASSUME NEW m \in {"Error", "Exhausted", "Recognition", "Timeout"}, Answer(c, m)
          PROVE  told' \in [Clients -> Seq(Message)]
      <4>1. <<m>> \in Seq(Message)
        BY DEF Message
      <4> QED
        BY <3>1, <4>1 DEF Answer, TypeInv
    <3> QED
      BY <1>15, <3>1 DEF Transcribe, Recognise, Transcribed, TimeOut, TypeInv
  <2>3. CASE TimeOut(c)
    BY <2>1, <2>2, <2>3 DEF TimeOut, Own, TaskTypes, TaskInv, Serving, TypeInv, Of
  <2>4. CASE ~TimeOut(c)
    <3>1. PICK place \in {"leaving", "transcribing", "recognised"} :
            at' = [at EXCEPT ![c] = place] /\ (place = "leaving" => Of(c)' = {})
      BY <1>2, <1>15, <2>4 DEF Transcribe, Recognise, Transcribed, NoSession, RemoveSession, Of
    <3> QED
      BY <2>1, <2>2, <3>1, GoOn DEF Place, StreamPlace
  <2> QED
    BY <2>3, <2>4
<1> QED
  BY <1>5, <1>6, <1>7, <1>8, <1>9, <1>10, <1>11, <1>12, <1>13, <1>14, <1>15 DEF StreamSession

-----------------------------------------------------------------------------
\* At first no client has anything.
LEMMA InvInit == ASSUME SessionsAssumption, Init PROVE Inv
BY EmptySeq DEF SessionsAssumption, Init, Inv, TypeInv, TaskInv, StreamInv, Serving, Of, Place,
   StreamPlace

\* Every step keeps the invariant.
LEMMA InvNext == ASSUME SessionsAssumption, Inv, [Next]_vars PROVE Inv'
<1>1. CASE UNCHANGED vars
  BY <1>1 DEF vars, runtime, task, Inv, TypeInv, TaskInv, StreamInv, Serving, Of
<1>2. ASSUME NEW c \in Clients,
             \/ Acquire(c) \/ ClientGone(c) \/ Open(c) \/ Leave(c)
             \/ Chunk(c) \/ EndControl(c) \/ CancelControl(c) \/ InvalidControl(c) \/ Ping(c)
             \/ StreamSession(c)
             \/ Transcribe(c) \/ Recognise(c) \/ Transcribed(c) \/ TimeOut(c)
      PROVE  Inv'
  <2>1. TypeInv /\ TaskInv(c) /\ (c \in Streams => StreamInv(c)) /\ Streams \subseteq Clients
    BY DEF Inv, SessionsAssumption
  <2>2. Own(c) /\ SessionsChange(c) /\ OthersKept(c)
    BY <1>2, <2>1, OwnStep, StepShape
  <2>3. TypeInv'
    BY <2>1, <2>2, SessionTypes DEF Own, TaskTypes, TypeInv
  <2>4. at[c] \in {"starting", "queued"} \/ ~StartSession(c)
    <3>1. CASE StreamSession(c)
      BY <3>1, <2>1 DEF StreamSession, StartStream, Send, Push, FinishSession, StopSession,
         ReadOn, Disconnected, IdleTimeout, CancelSession, StartSession, TypeInv, runtime, task
    <3>2. CASE ~StreamSession(c)
      BY <1>2, <2>1, <3>2 DEF Acquire, ClientGone, Open, Leave, Chunk, EndControl, CancelControl,
         InvalidControl, Ping, Transcribe, Recognise, Transcribed, TimeOut, StartSession, TypeInv,
         runtime, task
    <3> QED
      BY <3>1, <3>2
  <2>5. \A s \in sessions' : \E k \in Clients : sid'[k] = s.id
    BY <2>1, <2>2, <2>4, OwnersStep DEF Inv
  <2>6. \A k \in Clients : TaskInv(k)'
    BY <2>1, <2>2, OthersStep DEF Inv, Own
  <2>7. \A k \in Streams : StreamInv(k)'
    BY <2>1, <2>2, OthersStep DEF Inv, Own
  <2> QED
    BY <2>3, <2>5, <2>6, <2>7 DEF Inv
<1> QED
  BY <1>1, <1>2 DEF Next

\* What is known of every client, in every state.
LEMMA SessionsInvariant == Spec => []Inv
BY SessionsAssumption, InvInit, InvNext, PTL DEF Spec

(* No session stays in the runtime that no holder of a permit will remove. *)
THEOREM NoLeak == Spec => []NoSessionLeak
<1>1. Inv => NoSessionLeak
  BY DEF Inv, TaskInv, NoSessionLeak, Serving, Of, TypeInv
<1> QED
  BY <1>1, SessionsInvariant, PTL

(* Who has been told of the end of a stream, or of an error, hears nothing after it, and the
   session has left the runtime by then. *)
THEOREM TerminalReleased == Spec => []TerminalMeansReleased
<1>1. Inv => TerminalMeansReleased
  BY SessionsAssumption DEF SessionsAssumption, Inv, TaskInv, StreamInv, TerminalMeansReleased,
     Terminal, Serving
<1> QED
  BY <1>1, SessionsInvariant, PTL

-----------------------------------------------------------------------------
\* Why nobody who holds a permit is refused: each session is that of another holder, a
\* transcription's is in the runtime only as long as the mutex is with it, and the providers
\* that take fewer sessions than there are permits only transcribe.
Refused(c) ==
  \/ \E i \in DOMAIN told[c] : told[c][i] = "Exhausted"
  \/ \E i \in DOMAIN outbox[c] : outbox[c][i] = "Exhausted"

PermitInv ==
  /\ holders \subseteq Clients /\ Cardinality(holders) <= session_capacity
  /\ provider \in [Clients -> Providers]

OwnerInv ==
  /\ \A s, t \in sessions : s.id = t.id => s = t
  /\ \A c \in Clients : \A s \in sessions : sid[c] = s.id => s.provider = provider[c]
  /\ \A c \in Streams : provider[c] \in OfflineOnly => sid[c] = 0

LockInv ==
  /\ \A c \in Clients \ Streams :
       at[c] \in {"off", "queued", "transcribing", "recognised", "leaving", "done"}
  /\ \A c \in Clients : at[c] \in {"transcribing", "recognised"} => lock = c

AdmittedInv == Inv /\ PermitInv /\ OwnerInv /\ LockInv /\ \A c \in Clients : ~Refused(c)

\* A session for each holder but one leaves room for one.
LEMMA RoomForOne ==
  ASSUME SessionsAssumption, Inv, PermitInv, OwnerInv, NEW c \in holders, Of(c) = {}
  PROVE  IsFiniteSet(sessions) /\ Cardinality(sessions) < session_capacity
<1> DEFINE owner == [s \in sessions |-> CHOOSE k \in Clients : sid[k] = s.id]
<1>1. ASSUME NEW s \in sessions
      PROVE  owner[s] \in holders \ {c} /\ sid[owner[s]] = s.id
  <2>1. owner[s] \in Clients /\ sid[owner[s]] = s.id
    BY DEF Inv
  <2>2. TaskInv(owner[s]) /\ s \in Of(owner[s])
    BY <2>1 DEF Inv, Of
  <2>3. owner[s] # c
    BY <2>2
  <2> QED
    BY <2>1, <2>2, <2>3 DEF TaskInv, Serving
<1>2. owner \in Injection(sessions, holders \ {c})
  BY <1>1 DEF OwnerInv, Injection, IsInjective
<1>3. IsFiniteSet(holders)
  BY FS_Subset DEF PermitInv, SessionsAssumption
<1>4. /\ IsFiniteSet(holders \ {c}) /\ Cardinality(holders) \in Nat
      /\ Cardinality(holders \ {c}) = Cardinality(holders) - 1
  BY <1>3, FS_RemoveElement, FS_CardinalityType
<1>5. IsFiniteSet(sessions) /\ Cardinality(sessions) <= Cardinality(holders \ {c})
  BY <1>2, <1>4, FS_Injection
<1>6. Cardinality(sessions) \in Nat
  BY <1>5, FS_CardinalityType
<1> QED
  BY <1>4, <1>5, <1>6 DEF PermitInv, SessionsAssumption

\* Fewer of something, and one more, are not more than all.
LEMMA OneMore ==
  ASSUME NEW a \in Nat, NEW b \in Nat, NEW m \in Nat, a < b
  PROVE  a * m + m <= b * m
<1>1. PICK d \in Nat : b = a + 1 + d
  <2>1. b - a - 1 \in Nat /\ b = a + 1 + (b - a - 1)
    OBVIOUS
  <2> QED
    BY <2>1
<1>2. b * m = a * m + m + d * m /\ d * m \in Nat /\ a * m \in Nat
  BY <1>1
<1> QED
  BY <1>2

\* Fewer sessions than permits leave memory for one more.
LEMMA MemoryForOne ==
  ASSUME SessionsAssumption, NEW p \in Providers,
         IsFiniteSet(sessions), Cardinality(sessions) < session_capacity,
         \A s \in sessions : s.provider \in Providers
  PROVE  allocated_memory + estimated_memory_mb[p] <= maximum_estimated_memory_mb
<1>1. PICK most \in 0 .. maximum_estimated_memory_mb :
        /\ \A q \in Providers : estimated_memory_mb[q] <= most
        /\ session_capacity * most <= maximum_estimated_memory_mb
  BY LimitsAssumption DEF LimitsAssumption
<1>2. /\ most \in Nat /\ session_capacity \in Nat /\ maximum_estimated_memory_mb \in Nat
      /\ \A q \in Providers : estimated_memory_mb[q] \in Nat
  BY DEF SessionsAssumption
<1> DEFINE megabytes == UNION {{s} \X (1 .. estimated_memory_mb[s.provider]) : s \in sessions}
<1>3. megabytes \subseteq sessions \X (1 .. most)
  BY <1>1, <1>2
<1>4. IsFiniteSet(1 .. most) /\ Cardinality(1 .. most) = most
  <2>1. most \in Nat /\ 1 \in Int /\ most \in Int
    BY <1>2
  <2>2. IsFiniteSet(1 .. most) /\ Cardinality(1 .. most) = IF 1 > most THEN 0 ELSE most - 1 + 1
    BY <2>1, FS_Interval
  <2> QED
    BY <2>1, <2>2
<1>5. /\ IsFiniteSet(sessions \X (1 .. most))
      /\ Cardinality(sessions \X (1 .. most)) = Cardinality(sessions) * most
  BY <1>4, FS_Product
<1>6. IsFiniteSet(megabytes) /\ Cardinality(megabytes) <= Cardinality(sessions) * most
  BY <1>3, <1>5, FS_Subset
<1>7. Cardinality(sessions) \in Nat /\ Cardinality(megabytes) \in Nat
  BY <1>6, FS_CardinalityType
<1>8. Cardinality(sessions) * most + most <= session_capacity * most
  BY <1>2, <1>7, OneMore
<1>9. /\ Cardinality(sessions) * most \in Nat /\ session_capacity * most \in Nat
      /\ estimated_memory_mb[p] <= most
  BY <1>1, <1>2, <1>7
<1>10. allocated_memory = Cardinality(megabytes)
  BY DEF allocated_memory
<1> HIDE DEF megabytes
<1> QED
  BY <1>1, <1>2, <1>6, <1>7, <1>8, <1>9, <1>10

\* No limit is met by a task that is to start its session.
LEMMA AdmittedFits ==
  ASSUME SessionsAssumption, AdmittedInv, NEW c \in Clients,
         at[c] \in {"starting", "queued"}, Free
  PROVE  Fits(provider[c])
<1>1. c \in holders /\ Of(c) = {} /\ provider[c] \in Providers
  BY DEF AdmittedInv, Inv, TaskInv, Serving, PermitInv
<1>2. IsFiniteSet(sessions) /\ Cardinality(sessions) < session_capacity
  BY <1>1, RoomForOne DEF AdmittedInv
<1>3. ASSUME NEW s \in sessions
      PROVE  \E k \in Clients : /\ sid[k] = s.id /\ s \in Of(k) /\ TaskInv(k)
                                /\ s.provider = provider[k] /\ sid[k] # 0
  <2>1. PICK k \in Clients : sid[k] = s.id
    BY DEF AdmittedInv, Inv
  <2>2. s.id # 0
    BY DEF AdmittedInv, Inv, TypeInv
  <2> QED
    BY <2>1, <2>2 DEF AdmittedInv, Inv, OwnerInv, Of
<1>4. \A s \in sessions : s.provider \in Providers
  BY <1>3 DEF AdmittedInv, PermitInv
<1> DEFINE same == {s \in sessions : s.provider = provider[c]}
<1>5. Cardinality(same) < maximum_concurrent_sessions[provider[c]]
  <2>1. /\ maximum_concurrent_sessions[provider[c]] \in Nat \ {0} /\ session_capacity \in Nat
    BY <1>1 DEF SessionsAssumption
  <2>2. CASE provider[c] \in OfflineOnly
    <3>1. ASSUME NEW s \in same PROVE FALSE
      <4>1. PICK k \in Clients : s \in Of(k) /\ TaskInv(k) /\ provider[k] \in OfflineOnly
                                 /\ sid[k] # 0
        BY <1>3, <2>2, <3>1
      <4>2. k \in Clients \ Streams
        BY <4>1 DEF AdmittedInv, OwnerInv
      <4>3. at[k] \in {"transcribing", "recognised"}
        BY <4>1, <4>2 DEF AdmittedInv, LockInv, TaskInv, Serving
      <4> QED
        BY <4>2, <4>3 DEF AdmittedInv, LockInv, Free, SessionsAssumption
    <3>2. same = {}
      BY <3>1
    <3>3. Cardinality(same) = 0
      BY <3>2, FS_EmptySet, Zenon
    <3> QED
      BY <2>1, <3>3
  <2>3. CASE provider[c] \notin OfflineOnly
    <3>1. IsFiniteSet(same) /\ Cardinality(same) <= Cardinality(sessions)
      BY <1>2, FS_Subset
    <3>2. Cardinality(same) \in Nat /\ Cardinality(sessions) \in Nat
      BY <1>2, <3>1, FS_CardinalityType
    <3>3. session_capacity <= maximum_concurrent_sessions[provider[c]]
      BY <1>1, <2>3, LimitsAssumption DEF LimitsAssumption
    <3> QED
      BY <1>2, <2>1, <3>1, <3>2, <3>3
  <2> QED
    BY <2>2, <2>3
<1>6. allocated_memory + estimated_memory_mb[provider[c]] <= maximum_estimated_memory_mb
  BY <1>1, <1>2, <1>4, MemoryForOne
<1> QED
  BY <1>2, <1>5, <1>6 DEF Fits

-----------------------------------------------------------------------------
\* Permits are only taken while there are any.
LEMMA PermitStep ==
  ASSUME SessionsAssumption, PermitInv, NEW c \in Clients,
         \/ Acquire(c) \/ ClientGone(c) \/ Open(c) \/ Leave(c)
         \/ Chunk(c) \/ EndControl(c) \/ CancelControl(c) \/ InvalidControl(c) \/ Ping(c)
         \/ StreamSession(c)
         \/ Transcribe(c) \/ Recognise(c) \/ Transcribed(c) \/ TimeOut(c)
  PROVE  PermitInv'
<1>1. IsFiniteSet(holders) /\ Cardinality(holders) \in Nat /\ session_capacity \in Nat
  BY FS_Subset, FS_CardinalityType DEF PermitInv, SessionsAssumption
<1>2. CASE Acquire(c)
  <2>1. /\ holders' = holders \cup {c} /\ Cardinality(holders) < session_capacity
        /\ UNCHANGED provider
    BY <1>2 DEF Acquire
  <2>2. Cardinality(holders \cup {c}) \in {Cardinality(holders), Cardinality(holders) + 1}
    BY <1>1, FS_AddElement, Zenon
  <2> QED
    BY <1>1, <2>1, <2>2 DEF PermitInv
<1>3. CASE Leave(c)
  <2>1. holders' = holders \ {c} /\ UNCHANGED provider
    BY <1>3 DEF Leave
  <2>2. Cardinality(holders \ {c}) \in {Cardinality(holders), Cardinality(holders) - 1}
    BY <1>1, FS_RemoveElement, Zenon
  <2> QED
    BY <1>1, <2>1, <2>2 DEF PermitInv
<1>4. CASE ~Acquire(c) /\ ~Leave(c)
  <2>1. UNCHANGED <<holders, provider>>
    <3>1. CASE StreamSession(c)
      BY <3>1 DEF StreamSession, StartStream, Send, Push, FinishSession, StopSession,
         ReadOn, Disconnected, IdleTimeout, CancelSession
    <3>2. CASE ~StreamSession(c)
      BY <1>4, <3>2 DEF ClientGone, Open, Chunk, EndControl, CancelControl, InvalidControl, Ping,
         Transcribe, Recognise, Transcribed, TimeOut
    <3> QED
      BY <3>1, <3>2
  <2> QED
    BY <2>1 DEF PermitInv
<1> QED
  BY <1>2, <1>3, <1>4

\* A new session has an id, and the provider, that its client asked for.
LEMMA OwnerStep ==
  ASSUME SessionsAssumption, TypeInv, OwnerInv, provider' = provider,
         NEW c \in Clients, SessionsChange(c),
         StartSession(c) /\ ~UNCHANGED sid /\ c \in Streams => provider[c] \notin OfflineOnly
  PROVE  OwnerInv'
<1>1. CASE UNCHANGED sid /\ sessions' \subseteq sessions
  BY <1>1 DEF OwnerInv
<1>2. CASE StartSession(c)
  <2> DEFINE new == [id |-> next_session_id + 1, provider |-> provider[c]]
  <2>1. /\ sessions' = sessions \cup {new} /\ sid' = [sid EXCEPT ![c] = next_session_id + 1]
        /\ new.id = next_session_id + 1 /\ new.provider = provider[c]
    BY <1>2 DEF StartSession
  <2>2. \A s \in sessions : s.id # next_session_id + 1
    BY DEF TypeInv
  <2>3. \A k \in Clients : sid[k] # next_session_id + 1
    BY DEF TypeInv
  <2>4. sid'[c] = next_session_id + 1 /\ \A k \in Clients \ {c} : sid'[k] = sid[k]
    BY <2>1 DEF TypeInv
  <2>5. c \in Streams => provider[c] \notin OfflineOnly
    BY <1>2, <2>3, <2>4
  <2> HIDE DEF new
  <2>6. \A s, t \in sessions' : s.id = t.id => s = t
    BY <2>1, <2>2 DEF OwnerInv
  <2>7. \A k \in Clients : \A s \in sessions' : sid'[k] = s.id => s.provider = provider[k]
    BY <2>1, <2>2, <2>3, <2>4 DEF OwnerInv
  <2>8. \A k \in Streams : provider[k] \in OfflineOnly => sid'[k] = 0
    BY <2>4, <2>5 DEF OwnerInv, SessionsAssumption
  <2> QED
    BY <2>6, <2>7, <2>8 DEF OwnerInv
<1> QED
  BY <1>1, <1>2 DEF SessionsChange, RemoveSession

\* The mutex is with the transcription whose session is in the runtime.
LEMMA LockStep ==
  ASSUME SessionsAssumption, Inv, LockInv, NEW c \in Clients, OthersKept(c),
         \/ Acquire(c) \/ ClientGone(c) \/ Open(c) \/ Leave(c)
         \/ Chunk(c) \/ EndControl(c) \/ CancelControl(c) \/ InvalidControl(c) \/ Ping(c)
         \/ StreamSession(c)
         \/ Transcribe(c) \/ Recognise(c) \/ Transcribed(c) \/ TimeOut(c)
  PROVE  LockInv'
<1> USE DEF LockInv, OthersKept, runtime, task, TypeInv
<1>0. TypeInv /\ (at[c] \in StreamPlace => c \in Streams) /\ NoClient # c
  BY DEF Inv, TaskInv, SessionsAssumption
<1>1. CASE c \in Streams
  <2>1. UNCHANGED lock /\ at'[c] \notin {"transcribing", "recognised"}
    <3>1. CASE StreamSession(c)
      BY <1>0, <1>1, <3>1 DEF StreamSession, StartStream, Send, SendSucceeds, SendFails, Push,
         FinishSession, StopSession, ReadOn, Disconnected, IdleTimeout, CancelSession, Reply,
         CancelAndReply, Inv, StreamInv
    <3>2. CASE ~StreamSession(c)
      BY <1>0, <1>1, <3>2 DEF Acquire, ClientGone, Open, Leave, Chunk, EndControl, CancelControl,
         InvalidControl, Ping, Transcribe, Recognise, Transcribed, TimeOut, Inv, StreamInv, Reply,
         CancelAndReply
    <3> QED
      BY <3>1, <3>2
  <2> QED
    BY <1>0, <1>1, <2>1
<1>2. CASE c \notin Streams
  <2>1. Acquire(c) \/ Leave(c) \/ Transcribe(c) \/ Recognise(c) \/ Transcribed(c) \/ TimeOut(c)
    <3>1. at[c] \notin StreamPlace
      BY <1>0, <1>2
    <3> QED
      BY <1>2, <3>1 DEF StreamPlace, ClientGone, Open, Chunk, EndControl, CancelControl,
         InvalidControl, Ping, StreamSession, StartStream, Send, Push, FinishSession, StopSession,
         ReadOn, Disconnected, IdleTimeout, CancelSession
  <2>2. CASE Acquire(c) \/ Leave(c) \/ TimeOut(c)
    BY <1>0, <1>2, <2>2 DEF Acquire, Leave, TimeOut
  <2>3. CASE Transcribe(c)
    <3>1. \A k \in Clients : at[k] \notin {"transcribing", "recognised"}
      BY <2>3 DEF Transcribe, Free, SessionsAssumption
    <3> QED
      BY <1>0, <1>2, <2>3, <3>1 DEF Transcribe
  <2>4. CASE Recognise(c)
    BY <1>0, <1>2, <2>4 DEF Recognise, Locked
  <2>5. CASE Transcribed(c)
    <3>1. \A k \in Clients \ {c} : at[k] \notin {"transcribing", "recognised"}
      BY <2>5 DEF Transcribed
    <3> QED
      BY <1>0, <1>2, <2>5, <3>1 DEF Transcribed
  <2> QED
    BY <2>1, <2>2, <2>3, <2>4, <2>5
<1> QED
  BY <1>1, <1>2

\* Nobody is told, or is to be told, of a limit.
LEMMA RefusedStep ==
  ASSUME SessionsAssumption, AdmittedInv, NEW c \in Clients,
         \/ Acquire(c) \/ ClientGone(c) \/ Open(c) \/ Leave(c)
         \/ Chunk(c) \/ EndControl(c) \/ CancelControl(c) \/ InvalidControl(c) \/ Ping(c)
         \/ StreamSession(c)
         \/ Transcribe(c) \/ Recognise(c) \/ Transcribed(c) \/ TimeOut(c)
  PROVE  ~Refused(c)'
<1> USE DEF Refused, runtime, task
<1>1. TypeInv /\ ~Refused(c)
  BY DEF AdmittedInv, Inv
<1>2. ASSUME NEW m \in {<< >>, <<"Ready">>, <<"Recognition">>, <<"Error">>, <<"Ended">>,
                        <<"Recognition", "Ended">>},
             NEW i \in DOMAIN m
      PROVE  m[i] # "Exhausted"
  OBVIOUS
<1>3. CASE UNCHANGED <<outbox, told>>
  BY <1>1, <1>3
<1>4. ASSUME NEW m \in {<< >>, <<"Ready">>, <<"Recognition">>, <<"Error">>, <<"Ended">>,
                        <<"Recognition", "Ended">>},
             outbox' = [outbox EXCEPT ![c] = m], UNCHANGED told
      PROVE  ~Refused(c)'
  <2>1. outbox'[c] = m
    BY <1>4 DEF TypeInv, AdmittedInv, Inv
  <2> QED
    BY <1>1, <1>2, <1>4, <2>1
<1>5. CASE \/ Acquire(c) \/ ClientGone(c) \/ Leave(c) \/ EndControl(c) \/ CancelControl(c)
           \/ Ping(c) \/ ReadOn(c) \/ Recognise(c)
  BY <1>3, <1>5 DEF Acquire, ClientGone, Leave, EndControl, CancelControl, Ping, ReadOn, Recognise
<1>6. CASE \/ Open(c) \/ Chunk(c) \/ InvalidControl(c) \/ Disconnected(c) \/ IdleTimeout(c)
           \/ Push(c) \/ FinishSession(c) \/ StopSession(c)
  <2>1. UNCHANGED told
    BY <1>6 DEF Open, Chunk, InvalidControl, Disconnected, IdleTimeout, Push, FinishSession,
       StopSession
  <2>2. \/ UNCHANGED outbox
        \/ \E m \in {<< >>, <<"Ready">>, <<"Recognition">>, <<"Error">>, <<"Ended">>,
                     <<"Recognition", "Ended">>} : outbox' = [outbox EXCEPT ![c] = m]
    BY <1>6 DEF Open, Chunk, InvalidControl, Disconnected, IdleTimeout, Push, FinishSession,
       StopSession, Reply, CancelAndReply
  <2> QED
    BY <1>3, <1>4, <2>1, <2>2
<1>7. CASE StartStream(c)
  <2>1. Fits(provider[c])
    BY <1>7, AdmittedFits DEF StartStream
  <2>2. /\ UNCHANGED told
        /\ \E m \in {<<"Ready">>, <<"Error">>} : outbox' = [outbox EXCEPT ![c] = m]
    BY <1>7, <2>1 DEF StartStream, Reply
  <2> QED
    BY <1>4, <2>2
<1>8. CASE CancelSession(c)
  BY <1>1, <1>8 DEF CancelSession, Reply, TypeInv
<1>9. CASE Send(c)
  <2>1. CASE SendSucceeds(c)
    <3>1. /\ c \in Streams /\ outbox[c] # << >>
          /\ outbox[c] \in Seq(Message) /\ told[c] \in Seq(Message)
      BY <1>1, <1>9 DEF Send, AdmittedInv, Inv, TaskInv, StreamInv, StreamPlace, TypeInv
    <3>2. /\ told'[c] = Append(told[c], outbox[c][1])
          /\ outbox'[c] = Tail(outbox[c])
      BY <1>1, <2>1, <3>1 DEF SendSucceeds, TypeInv
    <3>3. /\ \A i \in 1 .. Len(outbox[c]) - 1 : Tail(outbox[c])[i] = outbox[c][i + 1]
          /\ DOMAIN outbox[c] = 1 .. Len(outbox[c])
          /\ DOMAIN Tail(outbox[c]) = 1 .. Len(outbox[c]) - 1 /\ Len(outbox[c]) \in Nat
      BY <3>1, TailFacts
    <3>4. ASSUME NEW i \in 1 .. Len(outbox[c]) - 1 PROVE outbox'[c][i] # "Exhausted"
      <4>1. i + 1 \in DOMAIN outbox[c]
        BY <3>3
      <4> QED
        BY <1>1, <3>2, <3>3, <4>1
    <3>5. outbox[c][1] # "Exhausted"
      <4>1. Len(outbox[c]) \in Nat \ {0}
        BY <3>1, EmptySeq
      <4> QED
        BY <1>1, <3>3, <4>1
    <3>6. ASSUME NEW i \in DOMAIN told'[c] PROVE told'[c][i] # "Exhausted"
      BY <1>1, <3>1, <3>2, <3>5 DEF Message
    <3> QED
      BY <3>2, <3>3, <3>4, <3>6
  <2>2. CASE SendFails(c)
    BY <1>4, <2>2 DEF SendFails
  <2> QED
    BY <1>9, <2>1, <2>2 DEF Send
<1>10. CASE Transcribe(c) \/ Transcribed(c) \/ TimeOut(c)
  <2>1. UNCHANGED outbox
    BY <1>10 DEF Transcribe, Transcribed, TimeOut
  <2>2. ASSUME NEW m \in {"Error", "Recognition", "Timeout"}, Answer(c, m) PROVE ~Refused(c)'
    <3>1. told'[c] = told[c] \/ told'[c] = <<m>>
      BY <1>1, <2>2 DEF Answer, TypeInv
    <3> QED
      BY <1>1, <2>1, <3>1
  <2>3. Transcribe(c) => Fits(provider[c])
    BY AdmittedFits DEF Transcribe
  <2> QED
    BY <1>3, <1>10, <2>1, <2>2, <2>3 DEF Transcribe, Transcribed, TimeOut
<1> QED
  BY <1>5, <1>6, <1>7, <1>8, <1>9, <1>10 DEF StreamSession

LEMMA AdmittedInvInit == ASSUME SessionsAssumption, Init PROVE AdmittedInv
<1>1. Inv
  BY InvInit
<1>2. Cardinality({}) <= session_capacity
  BY FS_EmptySet DEF SessionsAssumption
<1> QED
  BY <1>1, <1>2 DEF SessionsAssumption, Init, AdmittedInv, PermitInv, OwnerInv, LockInv, Refused

LEMMA AdmittedInvNext ==
  ASSUME SessionsAssumption, AdmittedInv, [Next]_vars
  PROVE  AdmittedInv'
<1>1. Inv'
  BY InvNext DEF AdmittedInv
<1>2. CASE UNCHANGED vars
  BY <1>1, <1>2 DEF vars, runtime, task, AdmittedInv, PermitInv, OwnerInv, LockInv, Refused
<1>3. ASSUME NEW c \in Clients,
             \/ Acquire(c) \/ ClientGone(c) \/ Open(c) \/ Leave(c)
             \/ Chunk(c) \/ EndControl(c) \/ CancelControl(c) \/ InvalidControl(c) \/ Ping(c)
             \/ StreamSession(c)
             \/ Transcribe(c) \/ Recognise(c) \/ Transcribed(c) \/ TimeOut(c)
      PROVE  AdmittedInv'
  <2>1. TypeInv /\ SessionsChange(c) /\ OthersKept(c)
    BY <1>3, StepShape DEF AdmittedInv, Inv
  <2>2. PermitInv'
    BY <1>3, PermitStep DEF AdmittedInv
  <2>3. LockInv'
    BY <1>3, <2>1, LockStep DEF AdmittedInv
  <2>4. StartSession(c) /\ ~UNCHANGED sid /\ c \in Streams => provider[c] \notin OfflineOnly
    <3>1. CASE StreamSession(c)
      BY <3>1 DEF StreamSession, StartStream, Send, Push, FinishSession, StopSession,
         ReadOn, Disconnected, IdleTimeout, CancelSession, runtime, task, NoSession
    <3>2. CASE ~StreamSession(c)
      BY <1>3, <3>2 DEF Acquire, ClientGone, Open, Leave, Chunk, EndControl, CancelControl,
         InvalidControl, Ping, Transcribe, Recognise, Transcribed, TimeOut, NoSession, runtime, task,
         AdmittedInv, Inv, StreamInv
    <3> QED
      BY <3>1, <3>2
  <2>5. provider' = provider
    <3>1. CASE StreamSession(c)
      BY <3>1 DEF StreamSession, StartStream, Send, Push, FinishSession, StopSession,
         ReadOn, Disconnected, IdleTimeout, CancelSession
    <3>2. CASE ~StreamSession(c)
      BY <1>3, <3>2 DEF Acquire, ClientGone, Open, Leave, Chunk, EndControl, CancelControl,
         InvalidControl, Ping, Transcribe, Recognise, Transcribed, TimeOut
    <3> QED
      BY <3>1, <3>2
  <2>6. OwnerInv'
    BY <2>1, <2>4, <2>5, OwnerStep DEF AdmittedInv
  <2>7. \A k \in Clients : ~Refused(k)'
    <3>1. ~Refused(c)'
      BY <1>3, RefusedStep
    <3>2. \A k \in Clients \ {c} : ~Refused(k)'
      BY <2>1 DEF OthersKept, AdmittedInv, Refused
    <3> QED
      BY <3>1, <3>2
  <2> QED
    BY <1>1, <2>2, <2>3, <2>6, <2>7 DEF AdmittedInv
<1> QED
  BY <1>2, <1>3 DEF Next

\* A client that was given a permit is not refused for want of capacity, for any number of
\* permits, and any limits in the proportion that the server's have.
THEOREM AdmittedServed == Spec => []AdmittedIsServed
<1>1. AdmittedInv => AdmittedIsServed
  BY DEF AdmittedInv, Refused, AdmittedIsServed
<1> QED
  BY <1>1, SessionsAssumption, AdmittedInvInit, AdmittedInvNext, PTL DEF Spec
=============================================================================
