------------------------------ MODULE AsrSessions ------------------------------
(***************************************************************************)
(* Recognition requests against one shared runtime:                        *)
(* crates/tongues-server/src/asr_api.rs over the AsrRuntime of             *)
(* crates/speaking/src/asr.rs.  A client takes one of SESSION_CAPACITY     *)
(* permits and then either streams, on a socket served by an async task,   *)
(* or has a file transcribed by a blocking task.                           *)
(*                                                                         *)
(* The runtime is behind one mutex.  A stream holds it for one operation,  *)
(* which is one action here; a transcription holds it to its end.  What a  *)
(* provider recognises, and why it or the decoding of a chunk fails, are   *)
(* choices.                                                                *)
(***************************************************************************)
EXTENDS Naturals, Sequences, FiniteSets

CONSTANTS
  Clients, Streams,               \* the requests, and those that stream
  Providers, OfflineOnly,         \* the registered providers
  maximum_concurrent_sessions,    \* of each provider
  estimated_memory_mb,            \* of a session of each provider
  maximum_estimated_memory_mb,    \* of the runtime
  session_capacity,               \* permits, and the runtime's limit, too
  NoClient,
  MaxChunks                       \* bound: chunks of a stream

ASSUME SessionsAssumption ==
  /\ IsFiniteSet(Clients) /\ Streams \subseteq Clients /\ NoClient \notin Clients
  /\ OfflineOnly \subseteq Providers
  /\ maximum_concurrent_sessions \in [Providers -> Nat \ {0}]
  /\ estimated_memory_mb \in [Providers -> Nat]
  /\ maximum_estimated_memory_mb \in Nat
  /\ session_capacity \in Nat \ {0} /\ MaxChunks \in Nat

\* What the server's limits have in common (asr_api.rs:40, 76; whisper.rs:411): a provider
\* that streams takes session_capacity sessions, and that many of any kind fit in memory.
ASSUME LimitsAssumption ==
  /\ \A p \in Providers \ OfflineOnly : session_capacity <= maximum_concurrent_sessions[p]
  /\ \E most \in 0 .. maximum_estimated_memory_mb :
       /\ \A p \in Providers : estimated_memory_mb[p] <= most
       /\ session_capacity * most <= maximum_estimated_memory_mb

VARIABLES
  holders,          \* the clients that hold a permit
  lock,             \* the transcription that holds the runtime's mutex, or NoClient
  sessions,         \* of the runtime
  next_session_id,
  provider,         \* the one each client asks for
  gone,             \* the clients that have closed, or lost, the connection
  at,               \* where the task of a client is
  after,            \* where it goes when its outbox is empty
  outbox,           \* what it has to send
  told,             \* what has been sent to the client (history)
  sid,              \* the session of a client, 0 before it has one
  chunks            \* received from it (bounded)

runtime == <<lock, sessions, next_session_id>>
task == <<at, after, outbox, told, sid, chunks>>
vars == <<holders, runtime, provider, gone, task>>

Free == lock = NoClient
Of(c) == {s \in sessions : s.id = sid[c]}

Init ==
  /\ holders = {} /\ lock = NoClient /\ sessions = {} /\ next_session_id = 0
  /\ provider \in [Clients -> Providers]
  /\ gone = {}
  /\ at = [c \in Clients |-> "off"]
  /\ after = [c \in Clients |-> "leaving"]
  /\ outbox = [c \in Clients |-> << >>]
  /\ told = [c \in Clients |-> << >>]
  /\ sid = [c \in Clients |-> 0]
  /\ chunks = [c \in Clients |-> 0]

-----------------------------------------------------------------------------
\* Runtime

\* The sum over the sessions: each counts for as many elements as it is given megabytes.
allocated_memory ==
  Cardinality(UNION {{s} \X (1 .. estimated_memory_mb[s.provider]) : s \in sessions})

\* The limits of the provider and of the runtime.
Fits(p) ==
  /\ Cardinality({s \in sessions : s.provider = p}) < maximum_concurrent_sessions[p]
  /\ Cardinality(sessions) < session_capacity
  /\ allocated_memory + estimated_memory_mb[p] <= maximum_estimated_memory_mb

StartSession(c) ==
  /\ next_session_id' = next_session_id + 1
  /\ sessions' = sessions \cup {[id |-> next_session_id', provider |-> provider[c]]}
  /\ sid' = [sid EXCEPT ![c] = next_session_id']

NoSession == UNCHANGED <<sessions, next_session_id, sid>>

\* finish_session and cancel_session remove the session before they ask the provider.
RemoveSession(c) == sessions' = sessions \ Of(c)

-----------------------------------------------------------------------------
\* Requests

\* Without a permit the request is answered "capacity_exhausted" and nothing changes.
Acquire(c) ==
  /\ at[c] = "off"
  /\ Cardinality(holders) < session_capacity
  /\ holders' = holders \cup {c}
  /\ at' = [at EXCEPT ![c] = IF c \in Streams THEN "opening" ELSE "queued"]
  /\ UNCHANGED <<runtime, provider, gone, after, outbox, told, sid, chunks>>

\* What a transcription does, it does whether its client is there or not.
ClientGone(c) ==
  /\ c \in Streams \ gone /\ at[c] \notin {"off", "done"}
  /\ gone' = gone \cup {c}
  /\ UNCHANGED <<holders, runtime, provider, task>>

\* The task returns, and its permit with it.
Leave(c) ==
  /\ at[c] = "leaving"
  /\ holders' = holders \ {c}
  /\ at' = [at EXCEPT ![c] = "done"]
  /\ UNCHANGED <<runtime, provider, gone, after, outbox, told, sid, chunks>>

-----------------------------------------------------------------------------
\* Streams

\* messages are sent, then the task is at place
Reply(c, messages, place) ==
  /\ at' = [at EXCEPT ![c] = IF messages = << >> THEN place ELSE "sending"]
  /\ after' = [after EXCEPT ![c] = place]
  /\ outbox' = [outbox EXCEPT ![c] = messages]

\* cancel(), then the messages, then return
CancelAndReply(c, messages) ==
  /\ at' = [at EXCEPT ![c] = "cancelling"]
  /\ after' = [after EXCEPT ![c] = "leaving"]
  /\ outbox' = [outbox EXCEPT ![c] = messages]

\* A first message that opens the stream; another one, none in time or a disconnect.
Open(c) ==
  /\ at[c] = "opening"
  /\ \/ /\ c \notin gone
        /\ at' = [at EXCEPT ![c] = "starting"]
        /\ UNCHANGED <<after, outbox>>
     \/ Reply(c, <<"Error">>, "leaving")
  /\ UNCHANGED <<holders, runtime, provider, gone, told, sid, chunks>>

\* start_stream_session: the provider may not be installed, or refuse the language.
StartStream(c) ==
  /\ at[c] = "starting" /\ Free
  /\ \/ /\ provider[c] \notin OfflineOnly /\ Fits(provider[c])
        /\ StartSession(c)
        /\ Reply(c, <<"Ready">>, "loop")
     \/ NoSession /\ Reply(c, <<"Error">>, "leaving")
     \/ /\ provider[c] \notin OfflineOnly /\ ~Fits(provider[c])
        /\ NoSession /\ Reply(c, <<"Exhausted">>, "leaving")
  /\ UNCHANGED <<holders, lock, provider, gone, told, chunks>>

\* Mutant: a client that is gone is left without cancelling its session.
SendFails_Returns(c) ==
  /\ c \in gone
  /\ outbox' = [outbox EXCEPT ![c] = << >>]
  /\ at' = [at EXCEPT ![c] = "leaving"]
  /\ UNCHANGED <<after, told>>

\* A session that goes on is cancelled, one that is over needs nothing.
SendFails(c) ==
  /\ c \in gone
  /\ outbox' = [outbox EXCEPT ![c] = << >>]
  /\ at' = [at EXCEPT ![c] = IF after[c] = "loop" THEN "cancelling" ELSE "leaving"]
  /\ after' = [after EXCEPT ![c] = "leaving"]
  /\ UNCHANGED told

SendSucceeds(c) ==
  /\ told' = [told EXCEPT ![c] = Append(@, Head(outbox[c]))]
  /\ outbox' = [outbox EXCEPT ![c] = Tail(@)]
  /\ at' = [at EXCEPT ![c] = IF Len(outbox[c]) = 1 THEN after[c] ELSE "sending"]
  /\ UNCHANGED after

Send(c) ==
  /\ at[c] = "sending"
  /\ SendSucceeds(c) \/ SendFails(c)
  /\ UNCHANGED <<holders, runtime, provider, gone, sid, chunks>>

\* A chunk that does not decode, or is too much, ends the session.
Chunk(c) ==
  /\ at[c] = "loop" /\ c \notin gone /\ chunks[c] < MaxChunks
  /\ chunks' = [chunks EXCEPT ![c] = @ + 1]
  /\ \/ at' = [at EXCEPT ![c] = "pushing"] /\ UNCHANGED <<after, outbox>>
     \/ CancelAndReply(c, <<"Error">>)
  /\ UNCHANGED <<holders, runtime, provider, gone, told, sid>>

\* The two locks of a push that fails and of its cancel are two steps.
Push(c) ==
  /\ at[c] = "pushing" /\ Free
  /\ \/ Of(c) # {} /\ \E events \in {<< >>, <<"Recognition">>} : Reply(c, events, "loop")
     \/ CancelAndReply(c, <<"Error">>)
  /\ UNCHANGED <<holders, runtime, provider, gone, told, sid, chunks>>

EndControl(c) ==
  /\ at[c] = "loop" /\ c \notin gone
  /\ at' = [at EXCEPT ![c] = "finishing"]
  /\ UNCHANGED <<holders, runtime, provider, gone, after, outbox, told, sid, chunks>>

FinishSession(c) ==
  /\ at[c] = "finishing" /\ Free
  /\ RemoveSession(c)
  /\ \/ Of(c) # {} /\ Reply(c, <<"Recognition", "Ended">>, "leaving")
     \/ Reply(c, <<"Error">>, "leaving")
  /\ UNCHANGED <<holders, lock, next_session_id, provider, gone, told, sid, chunks>>

CancelControl(c) ==
  /\ at[c] = "loop" /\ c \notin gone
  /\ at' = [at EXCEPT ![c] = "stopping"]
  /\ UNCHANGED <<holders, runtime, provider, gone, after, outbox, told, sid, chunks>>

\* An error of cancel_session is not told.
StopSession(c) ==
  /\ at[c] = "stopping" /\ Free
  /\ RemoveSession(c)
  /\ \/ Of(c) # {} /\ Reply(c, <<"Recognition", "Ended">>, "leaving")
     \/ Reply(c, <<"Ended">>, "leaving")
  /\ UNCHANGED <<holders, lock, next_session_id, provider, gone, told, sid, chunks>>

\* A second open, or a control that is none.
InvalidControl(c) ==
  /\ at[c] = "loop" /\ c \notin gone
  /\ CancelAndReply(c, <<"Error">>)
  /\ UNCHANGED <<holders, runtime, provider, gone, told, sid, chunks>>

Disconnected(c) ==
  /\ at[c] = "loop" /\ c \in gone
  /\ CancelAndReply(c, << >>)
  /\ UNCHANGED <<holders, runtime, provider, gone, told, sid, chunks>>

\* A ping or a pong is no message, but the loop goes round, and its timer starts anew.
Ping(c) ==
  /\ at[c] = "loop" /\ c \notin gone
  /\ at' = [at EXCEPT ![c] = "pinged"]
  /\ UNCHANGED <<holders, runtime, provider, gone, after, outbox, told, sid, chunks>>

ReadOn(c) ==
  /\ at[c] = "pinged"
  /\ at' = [at EXCEPT ![c] = "loop"]
  /\ UNCHANGED <<holders, runtime, provider, gone, after, outbox, told, sid, chunks>>

\* Mutant: the client is told of the timeout before the session is cancelled.
IdleTimeout_TellsFirst(c) ==
  /\ at[c] = "loop"
  /\ Reply(c, <<"Error">>, "cancelling")
  /\ UNCHANGED <<holders, runtime, provider, gone, told, sid, chunks>>

\* Nothing from the client for SESSION_IDLE_TIMEOUT.
IdleTimeout(c) ==
  /\ at[c] = "loop"
  /\ CancelAndReply(c, <<"Error">>)
  /\ UNCHANGED <<holders, runtime, provider, gone, told, sid, chunks>>

CancelSession(c) ==
  /\ at[c] = "cancelling" /\ Free
  /\ RemoveSession(c)
  /\ Reply(c, outbox[c], "leaving")
  /\ UNCHANGED <<holders, lock, next_session_id, provider, gone, told, sid, chunks>>

StreamSession(c) ==
  \/ StartStream(c) \/ Send(c) \/ Push(c) \/ FinishSession(c) \/ StopSession(c)
  \/ ReadOn(c) \/ Disconnected(c) \/ IdleTimeout(c) \/ CancelSession(c)

-----------------------------------------------------------------------------
\* Transcriptions

Answer(c, message) == told' = [told EXCEPT ![c] = IF @ = << >> THEN <<message>> ELSE @]

\* The blocking task takes the mutex and starts a session, or returns its failure.
Transcribe(c) ==
  /\ at[c] = "queued" /\ Free
  /\ \/ /\ Fits(provider[c])
        /\ StartSession(c)
        /\ lock' = c
        /\ at' = [at EXCEPT ![c] = "transcribing"]
        /\ UNCHANGED told
     \/ /\ NoSession /\ at' = [at EXCEPT ![c] = "leaving"]
        /\ Answer(c, "Error") /\ UNCHANGED lock
     \/ /\ ~Fits(provider[c])
        /\ NoSession /\ at' = [at EXCEPT ![c] = "leaving"]
        /\ Answer(c, "Exhausted") /\ UNCHANGED lock
  /\ UNCHANGED <<holders, provider, gone, after, outbox, chunks>>

\* Mutant: the mutex is let go while the transcription goes on.
Locked_Early(c) == lock' = NoClient

\* The audio is pushed: the session is in the runtime, and the mutex with the task.
Locked(c) == lock' = lock

Recognise(c) ==
  /\ at[c] = "transcribing"
  /\ Locked(c)
  /\ at' = [at EXCEPT ![c] = "recognised"]
  /\ UNCHANGED <<holders, sessions, next_session_id, provider, gone, after, outbox, told, sid,
                 chunks>>

\* Mutant: the mutex is never released.
Unlock_Never == UNCHANGED lock

\* The guard of the mutex is dropped.
Unlock == lock' = NoClient

\* finish_session, or cancel_session when a push fails
Transcribed(c) ==
  /\ at[c] = "recognised"
  /\ RemoveSession(c)
  /\ Unlock
  /\ at' = [at EXCEPT ![c] = "leaving"]
  /\ Answer(c, "Recognition") \/ Answer(c, "Error")
  /\ UNCHANGED <<holders, next_session_id, provider, gone, after, outbox, sid, chunks>>

\* The request is answered "timeout"; the blocking task goes on, with the permit.
TimeOut(c) ==
  /\ at[c] \in {"queued", "transcribing", "recognised"} /\ told[c] = << >>
  /\ Answer(c, "Timeout")
  /\ UNCHANGED <<holders, runtime, provider, gone, at, after, outbox, sid, chunks>>

Next ==
  \E c \in Clients :
    \/ Acquire(c) \/ ClientGone(c) \/ Open(c) \/ Leave(c)
    \/ Chunk(c) \/ EndControl(c) \/ CancelControl(c) \/ InvalidControl(c) \/ Ping(c)
    \/ StreamSession(c)
    \/ Transcribe(c) \/ Recognise(c) \/ Transcribed(c) \/ TimeOut(c)

\* The tasks run, a client reads what it is sent, and the timer of a client that sends nothing
\* fires.  The task of one that pings goes round and round, which is fair, too.
Spec ==
  /\ Init /\ [][Next]_vars
  /\ \A c \in Clients :
       /\ WF_vars(Open(c)) /\ WF_vars(StreamSession(c)) /\ WF_vars(Leave(c))
       /\ WF_vars(Transcribe(c)) /\ WF_vars(Recognise(c)) /\ WF_vars(Transcribed(c))

-----------------------------------------------------------------------------
\* Whatever way a task takes out - an end, a cancel, a failed push, a send to a client
\* that is gone, an idle timeout, a request answered before its work was done - no
\* session stays in the runtime that no holder of a permit will remove.
NoSessionLeak ==
  \A s \in sessions :
    \E c \in holders :
      /\ sid[c] = s.id
      /\ at[c] \notin {"opening", "starting", "queued", "leaving"}

\* A client that was given a permit is never refused for want of capacity: the limits of
\* the runtime and of a provider of one session are never met behind the semaphore.
AdmittedIsServed ==
  \A c \in Clients :
    /\ \A i \in DOMAIN told[c] : told[c][i] # "Exhausted"
    /\ \A i \in DOMAIN outbox[c] : outbox[c][i] # "Exhausted"

\* "ended is terminal" (docs/asr-api.md:60): a stream that has been told of its end, or of
\* an error, hears nothing after it, and its session has already left the runtime.
TerminalMeansReleased ==
  \A c \in Streams : \A i \in DOMAIN told[c] :
    told[c][i] \in {"Ended", "Error", "Exhausted"} =>
      i = Len(told[c]) /\ outbox[c] = << >> /\ Of(c) = {}

\* A permit comes back, unless the client pings for ever: whether it ends the stream, sends
\* what is no message, goes away or says nothing.  Nothing in the server bounds a stream that
\* is only pinged, so that the permit of such a client is its own for as long as it likes.
PermitsReturn ==
  \A c \in Clients :
    <>[](at[c] # "pinged") => ((c \in holders) ~> (c \notin holders))
================================================================================
