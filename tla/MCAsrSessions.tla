---------------------------- MODULE MCAsrSessions ----------------------------
\* AsrSessions with the server's two providers: a native one that takes as many
\* sessions as there are permits, and an offline one that takes one at a time.
EXTENDS AsrSessions, TLC

Sessions == "fixture" :> session_capacity @@ "whisper.cpp" :> 1
Memory == "fixture" :> 1 @@ "whisper.cpp" :> 2
==============================================================================
