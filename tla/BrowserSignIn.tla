---------------------------- MODULE BrowserSignIn ----------------------------
(***************************************************************************)
(* Signing in to Google for the Device Specific resolver:                  *)
(* services/device_specific_personal_session.py starts a browser of its    *)
(* own with a throw-away profile, asks it over its debugger for the        *)
(* cookies until the one-time token is there, and exchanges that for a     *)
(* session that lives in memory only.                                      *)
(*                                                                         *)
(* The debugger answers in order but late, and mixes in messages nobody    *)
(* asked for.                                                              *)
(***************************************************************************)
EXTENDS Naturals, Sequences

CONSTANTS
  Deadline,     \* steps of time until a wait is over
  MaxSessions,  \* bound: completed sign-ins
  MaxNoise      \* bound: unsolicited messages of one sign-in

VARIABLES
  pc,           \* what the sign-in waits for; "idle" when none runs
  browser,      \* "none", "running" or "exited" (by itself or closed by the user)
  profile,      \* the throw-away profile exists
  clock,        \* time since the current wait began
  asked,        \* method and id of the last request
  lastId,       \* id of the last request that was answered
  unread,       \* messages of the debugger, each with the id and method it answers
  cookies,      \* what the user's signing in has left in the browser
  again,        \* the set-up page was opened a second time
  accepted,     \* method of the last request and of the answer taken for it
  noise,
  session, sessions  \* context of the session in memory (0: none) and the number of contexts made

vars == <<pc, browser, profile, clock, asked, lastId, unread, cookies, again, accepted, noise,
          session, sessions>>

debugger == <<asked, lastId, unread, again, accepted, noise>>
memory   == <<session, sessions>>

NoRequest == [id |-> 0, method |-> "none"]

\* Whatever ends the capture stops the browser and removes its profile.
Leave(next) ==
  /\ pc' = next
  /\ browser' = "none" /\ profile' = FALSE
  /\ clock' = 0 /\ unread' = <<>> /\ cookies' = {} /\ noise' = 0
  /\ again' = FALSE /\ asked' = NoRequest /\ lastId' = 0

Fail == Leave("idle") /\ UNCHANGED <<accepted, memory>>

Init ==
  /\ pc = "idle" /\ browser = "none" /\ profile = FALSE /\ clock = 0
  /\ asked = NoRequest /\ lastId = 0 /\ unread = <<>> /\ cookies = {}
  /\ again = FALSE /\ accepted = <<"none", "none">> /\ noise = 0
  /\ session = 0 /\ sessions = 0

\* The window is blocked meanwhile, so that only one sign-in runs.
Launch ==
  /\ pc = "idle" /\ sessions < MaxSessions
  /\ \/ pc' = "debugger" /\ browser' = "running" /\ profile' = TRUE
     \/ UNCHANGED <<pc, browser, profile>>  \* no browser, no port, or it did not start
  /\ UNCHANGED <<clock, cookies, debugger, memory>>

Wait == clock < Deadline /\ clock' = clock + 1

\* _wait_for_debugger: a poll of the process before every request.
PollDebugger ==
  /\ pc = "debugger"
  /\ IF browser = "exited" \/ clock = Deadline THEN Fail
     ELSE /\ \/ Wait /\ pc' = pc
             \/ pc' = "attach" /\ clock' = 0
          /\ UNCHANGED <<browser, profile, cookies, debugger, memory>>

Send(method) ==
  /\ asked' = [id |-> lastId + 1, method |-> method]
  /\ unread' = IF browser = "running" THEN Append(unread, asked') ELSE unread

\* The page that is to be watched is found and attached to, in two requests.
Attach ==
  /\ pc = "attach"
  /\ pc' = "reply" /\ Send("attach")
  /\ UNCHANGED <<browser, profile, clock, lastId, cookies, again, accepted, noise, memory>>

\* The loop of _wait_for_oauth_token.
AskCookies ==
  /\ pc = "loop"
  /\ IF browser = "exited" \/ clock = Deadline THEN Fail
     ELSE /\ Wait /\ pc' = "reply" /\ Send("cookies")
          /\ UNCHANGED <<browser, profile, lastId, cookies, again, accepted, noise, memory>>

Reopen ==
  /\ pc = "reopen"
  /\ pc' = "reply" /\ again' = TRUE /\ Send("navigate")
  /\ UNCHANGED <<browser, profile, clock, lastId, cookies, accepted, noise, memory>>

\* An answer shows the cookies of the moment it was made.
AfterReply(method, seen) ==
  IF method # "cookies" THEN "loop"
  ELSE IF "token" \in seen THEN "exchange"
  ELSE IF "signed in" \in seen /\ ~again THEN "reopen" ELSE "loop"

\* As if every message answered the last request.
AnswersAny(message) == message.method # "event"

Answers(message) == message.id = asked.id

\* _receive_response reads until a message has the id of the request.
Receive ==
  LET message == Head(unread)
  IN /\ pc = "reply" /\ unread # <<>>
     /\ IF ~Answers(message)
          THEN /\ unread' = Tail(unread)
               /\ UNCHANGED <<pc, browser, profile, clock, asked, lastId, cookies, again, accepted, noise, memory>>
          ELSE /\ accepted' = <<asked.method, message.method>>
               /\ \E seen \in SUBSET cookies :
                    LET next == AfterReply(asked.method, seen)
                    IN IF next = "exchange" THEN Leave("exchange") /\ UNCHANGED memory
                       ELSE /\ pc' = next
                            /\ unread' = Tail(unread) /\ lastId' = asked.id
                            /\ UNCHANGED <<browser, profile, clock, asked, cookies, again, noise, memory>>

\* The debugger is silent for two seconds: the cookies are asked for again, with the same
\* id, as the count advances with an answer only.  The other requests give up.
Silence ==
  /\ pc = "reply"
  /\ IF asked.method = "cookies"
       THEN pc' = "loop" /\ UNCHANGED <<browser, profile, clock, cookies, debugger, memory>>
       ELSE Fail

\* The connection breaks, or an answer reports an error.
Broken == pc \in {"attach", "reply"} /\ Fail

\* The one-time token is exchanged; only a success replaces the session.
Exchange ==
  /\ pc = "exchange" /\ pc' = "idle"
  /\ \/ sessions' = sessions + 1 /\ session' = sessions'
     \/ UNCHANGED memory
  /\ UNCHANGED <<browser, profile, clock, cookies, debugger>>

SignOut ==
  /\ pc = "idle" /\ session # 0 /\ session' = 0
  /\ UNCHANGED <<pc, browser, profile, clock, cookies, debugger, sessions>>

\* The user signs in, or closes the browser; the page sends messages of its own.
UserSignsIn ==
  /\ browser = "running" /\ pc \in {"loop", "reply", "reopen"}
  /\ cookies' \in {{"signed in"}, {"signed in", "token"}} /\ cookies' # cookies
  /\ cookies \subseteq cookies'
  /\ UNCHANGED <<pc, browser, profile, clock, debugger, memory>>

BrowserExits ==
  /\ browser = "running" /\ browser' = "exited"
  /\ UNCHANGED <<pc, profile, clock, cookies, debugger, memory>>

PageEvent ==
  /\ browser = "running" /\ pc = "reply" /\ noise < MaxNoise /\ noise' = noise + 1
  /\ unread' = Append(unread, [id |-> 0, method |-> "event"])
  /\ UNCHANGED <<pc, browser, profile, clock, asked, lastId, cookies, again, accepted, memory>>

Next ==
  \/ Launch \/ PollDebugger \/ Attach \/ AskCookies \/ Reopen \/ Receive \/ Silence \/ Broken
  \/ Exchange \/ SignOut \/ UserSignsIn \/ BrowserExits \/ PageEvent

Spec == Init /\ [][Next]_vars

-----------------------------------------------------------------------------
\* An answer that comes after its request was given up is not taken for the answer of a
\* request of another kind, although a request that is repeated keeps its id
\* (device_specific_personal_session.py:423-447).
AnswersBelong == accepted[1] = accepted[2]
=============================================================================
