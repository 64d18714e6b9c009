------------------------------ MODULE WebServer ------------------------------
(***************************************************************************)
(* deneb-api: the event loop of main.c, its connections, the clients of    *)
(* the event stream, uploads, and the routes of api_http.c in front of the *)
(* settings of WebAuth.                                                    *)
(*                                                                         *)
(* The loop is one thread: a request is handled in one step.  It may be    *)
(* stopped in the middle of it, by a crash or by a loss of power, which is *)
(* what the steps named Stopped are.  A descriptor number is used again as *)
(* soon as it is closed.                                                   *)
(***************************************************************************)
EXTENDS WebAuth, FiniteSets

CONSTANTS
  Fd,            \* descriptors of client connections
  MaxSseClients, \* MAX_SSE_CLIENTS
  MaxHeaders,    \* HTTP_MAX_HEADERS
  MaxRequests,   \* bound on the requests
  MaxFaults      \* bound on stops and on expiries

ASSUME WebAssumption ==
  /\ Fd \subseteq Nat /\ MaxSseClients \in Nat \ {0} /\ MaxHeaders \in Nat \ {0}
  /\ MaxRequests \in Nat /\ MaxFaults \in Nat

VARIABLES
  conn,     \* each descriptor: closed, open (watched for input) or stream (not watched)
  gone,     \* the other end of the connection was closed
  sse,      \* sse_clients
  push,     \* index of the running sse_push_status, 0 when none runs
  long,     \* the status no longer fits sse_push_status's buffer
  wanted,   \* history variable: the last setup that was answered asked for credentials
  flaws,    \* history variable: what has gone wrong with the settings in force
  torn,     \* history variable: what has gone wrong with the settings in the file
  budget

sockVars == <<conn, gone, sse, push>>
histVars == <<wanted, flaws, torn>>
webVars  == <<authVars, sockVars, long, histVars, budget>>

\* The headers of a request that api_http_parse keeps, the first MaxHeaders: those with
\* credentials by their scheme, the others alike.
Headers == BoundedSeq({"bearer", "digest", "basic", "other"}, MaxHeaders)

\* api_http_check_auth looks for the first Authorization header whose scheme it knows.
Credentials(headers) ==
  LET known == SelectSeq(headers, LAMBDA h : h \in {"bearer", "digest"})
  IN  IF known = <<>> THEN "none" ELSE Head(known)

How == {Credentials(headers) : headers \in Headers}

WebInit ==
  /\ AuthInit
  /\ conn = [fd \in Fd |-> "closed"] /\ gone = [fd \in Fd |-> FALSE]
  /\ sse = <<>> /\ push = 0 /\ long = FALSE
  /\ wanted = FALSE /\ flaws = {} /\ torn = {}
  /\ budget = [request |-> MaxRequests, fault |-> MaxFaults]

Pay(k) == budget[k] > 0 /\ budget' = [budget EXCEPT ![k] = @ - 1]

FaultIf(failed) == IF failed THEN Pay("fault") ELSE UNCHANGED budget

----------------------------------------------------------------------------
(* Connections. *)

\* handle_accept: the lowest free descriptor.
HandleAccept ==
  /\ push = 0 /\ Pay("request")
  /\ \E fd \in Fd :
       /\ conn[fd] = "closed" /\ \A g \in Fd : conn[g] = "closed" => fd <= g
       /\ conn' = [conn EXCEPT ![fd] = "open"] /\ gone' = [gone EXCEPT ![fd] = FALSE]
  /\ UNCHANGED <<authVars, sse, push, long, histVars>>

\* The client closes its end.
PeerLeaves ==
  \E fd \in Fd :
    /\ conn[fd] # "closed" /\ ~gone[fd]
    /\ gone' = [gone EXCEPT ![fd] = TRUE]
    /\ UNCHANGED <<authVars, conn, sse, push, long, histVars, budget>>

Position(fd) == CHOOSE i \in DOMAIN sse : sse[i] = fd

\* Mutant: the descriptor is closed and its place in the list stays.
SseRemoveClientNot(fd) == sse

\* sse_remove_client: the last entry takes the place of the removed one.
SseRemoveClient(fd) ==
  IF \E i \in DOMAIN sse : sse[i] = fd
  THEN Front([sse EXCEPT ![Position(fd)] = Last(sse)])
  ELSE sse

\* sse_register_client: at the limit the connection stays open and belongs to nobody.
SseRegisterClient(fd) == IF Len(sse) >= MaxSseClients THEN sse ELSE Append(sse, fd)

\* The end of handle_client for an answer that is not a stream.
Answered(fd) ==
  /\ conn' = [conn EXCEPT ![fd] = "closed"]
  /\ UNCHANGED <<gone, sse, push>>

\* The end of the stream handler: only errors are watched from now on.
Streaming(fd) ==
  /\ conn' = [conn EXCEPT ![fd] = "stream"]
  /\ sse' = SseRegisterClient(fd)
  /\ UNCHANGED <<gone, push>>

\* handle_client on a connection whose other end was closed.
ReadsNothing(fd) ==
  /\ gone[fd]
  /\ conn' = [conn EXCEPT ![fd] = "closed"] /\ sse' = SseRemoveClient(fd)
  /\ UNCHANGED <<authVars, gone, push, long, histVars, budget>>

\* sse_push_status: it starts when the status fits its buffer, writes to one client
\* after the other, and closes the ones it cannot write to.
PushStarts ==
  /\ push = 0 /\ sse # <<>> /\ ~long
  /\ push' = 1
  /\ UNCHANGED <<authVars, conn, gone, sse, long, histVars, budget>>

\* Mutant: a client that cannot be written to is skipped.
PushStepSkips ==
  /\ push > 0
  /\ push' = IF push > Len(sse) THEN 0 ELSE push + 1
  /\ UNCHANGED <<authVars, conn, gone, sse, long, histVars, budget>>

PushStep ==
  /\ push > 0
  /\ IF push > Len(sse) THEN push' = 0 /\ UNCHANGED <<conn, sse>>
     ELSE IF gone[sse[push]]
     THEN /\ conn' = [conn EXCEPT ![sse[push]] = "closed"]
          /\ sse' = SseRemoveClient(sse[push])
          /\ UNCHANGED push
     ELSE push' = push + 1 /\ UNCHANGED <<conn, sse>>
  /\ UNCHANGED <<authVars, gone, long, histVars, budget>>

----------------------------------------------------------------------------
(* Requests. *)

\* A request that cannot be parsed (400), OPTIONS (204), a path that exists for another
\* method (405) or not at all (404): nobody is asked for credentials.
AnswerUnrouted(fd) ==
  /\ Answered(fd)
  /\ UNCHANGED <<authVars, long, histVars, budget>>

\* The getters answer from the cached status, without credentials.
AnswerRead(fd) ==
  /\ Answered(fd)
  /\ UNCHANGED <<authVars, long, histVars, budget>>

\* api_http_route in front of a handler that needs credentials.
AnswerGuarded(fd) ==
  \E c \in Client, how \in How :
    /\ \/ CheckAuth(c, how) /\ UNCHANGED authVars
       \/ Challenged(c, how)
    /\ Answered(fd)
    /\ UNCHANGED <<long, histVars, budget>>

\* api_deneb_events_get: a token in the query, unless access is open.
AnswerEvents(fd) ==
  \E c \in Client :
    /\ IF ValidateToken(c) THEN Streaming(fd) ELSE Answered(fd)
    /\ UNCHANGED <<authVars, long, histVars, budget>>

\* What the saves q of one request may leave in the file, and what is wrong with it: a
\* file between two of them, a file cut short, or, when open fails, the file as it was.
\* Nobody looks at the outcome of a save.
Between(q, gap) == {[file |-> q[k], torn |-> flaws \cup gap] : k \in DOMAIN Front(q)}

Cut(q) == {[file |-> f, torn |-> {"cut"}] : f \in UNION {CutShort(q[k]) : k \in DOMAIN q}}

FilesAfter(q, gap, good) ==
  {[file |-> Last(q), torn |-> good], [file |-> saved, torn |-> torn \cup {"kept"}]}
    \cup {[x EXCEPT !.torn = @ \cup {"kept"}] : x \in Between(q, gap)} \cup Cut(q)

\* Whether the password could be hashed, and the gap there is between the saves.
Unhashed(hashed)      == IF hashed THEN {} ELSE {"unhashed"}
Gap(required, hashed) == Unhashed(hashed) \cup (IF required THEN {} ELSE {"between"})

AnswerSetup(fd) ==
  \E c \in Client, how \in How, required \in BOOLEAN, pw \in Password \cup {None},
     hashed \in BOOLEAN :
    /\ ~hashed => required /\ pw # None
    /\ \/ /\ SetupAllowed(c, how, required, pw)
          /\ LET q == SetupSaves(required, pw, hashed) IN
             \E x \in FilesAfter(q, Gap(required, hashed), Unhashed(hashed)) :
               /\ FaultIf(x.torn # {}) /\ torn' = x.torn
               /\ SetupPost(c, how, required, pw, hashed, x.file)
          /\ wanted' = required /\ flaws' = Unhashed(hashed)
       \/ ~SetupAllowed(c, how, required, pw) /\ UNCHANGED <<authVars, histVars, budget>>
    /\ Answered(fd)
    /\ UNCHANGED long

AnswerLogin(fd) ==
  \E c \in Client, pw \in Password :
    /\ \/ AuthPost(c, pw)
       \/ auth.pw # pw /\ UNCHANGED authVars
    /\ Answered(fd)
    /\ UNCHANGED <<long, histVars, budget>>

AnswerPairing(fd) ==
  \E c \in Client, how \in How :
    /\ \/ /\ auth.setup /\ RequestAllowed(c, how)
          /\ \E x \in FilesAfter(<<[auth EXCEPT !.digest = serial + 1]>>, {}, flaws) :
               FaultIf(x.torn # flaws) /\ torn' = x.torn /\ RequestPost(c, how, x.file)
       \/ ~auth.setup /\ RequestPost(c, how, saved) /\ UNCHANGED <<torn, budget>>
       \/ ~RequestAllowed(c, how) /\ UNCHANGED <<authVars, torn, budget>>
    /\ Answered(fd)
    /\ UNCHANGED <<long, wanted, flaws>>

\* A multipart POST: stream_upload reads the whole body first, or gives up after 30
\* seconds without input; credentials are asked for when it has all arrived.
AnswerUpload(fd) ==
  \E c \in Client, how \in How :
    /\ \/ UNCHANGED authVars
       \/ Challenged(c, how)
    /\ Answered(fd)
    /\ UNCHANGED <<long, histVars, budget>>

\* handle_client and the table of routes: one request of a connection that is watched
\* for input.
HandleClient ==
  /\ push = 0
  /\ \E fd \in Fd :
       /\ conn[fd] = "open"
       /\ \/ ReadsNothing(fd)
          \/ AnswerUnrouted(fd) \/ AnswerRead(fd) \/ AnswerGuarded(fd) \/ AnswerEvents(fd)
          \/ AnswerSetup(fd) \/ AnswerLogin(fd) \/ AnswerPairing(fd) \/ AnswerUpload(fd)

----------------------------------------------------------------------------
(* Stops. *)

Restarted ==
  /\ conn' = [fd \in Fd |-> "closed"] /\ gone' = [fd \in Fd |-> FALSE]
  /\ sse' = <<>> /\ push' = 0

\* Between two requests, or in one that saves nothing.
Stopped ==
  /\ Pay("fault") /\ Restarted /\ AuthRestart(saved) /\ flaws' = torn
  /\ UNCHANGED <<long, wanted, torn>>

\* In one of the saves of a setup, or between two of them.
StoppedInSetup ==
  /\ push = 0 /\ Pay("fault") /\ Restarted
  /\ \E fd \in Fd : conn[fd] = "open" /\ ~gone[fd]
  /\ \E c \in Client, how \in How, required \in BOOLEAN, pw \in Password \cup {None},
        hashed \in BOOLEAN :
       /\ ~hashed => required /\ pw # None
       /\ SetupAllowed(c, how, required, pw)
       /\ LET q == SetupSaves(required, pw, hashed) IN
          \E x \in Between(q, Gap(required, hashed)) \cup Cut(q) :
            AuthRestart(x.file) /\ torn' = x.torn /\ flaws' = x.torn
  /\ UNCHANGED <<long, wanted>>

\* In the save of a pairing.
StoppedInPairing ==
  /\ push = 0 /\ auth.setup /\ Pay("fault") /\ Restarted
  /\ \E fd \in Fd : conn[fd] = "open" /\ ~gone[fd]
  /\ \E c \in Client, how \in How : RequestAllowed(c, how)
  /\ \E x \in Cut(<<auth>>) : AuthRestart(x.file) /\ torn' = x.torn /\ flaws' = x.torn
  /\ UNCHANGED <<long, wanted>>

TimePasses ==
  /\ Pay("fault") /\ (NoncesExpire \/ TokensExpire)
  /\ UNCHANGED <<sockVars, long, histVars>>

\* A print with a long name starts, or ends.
StatusGrows ==
  /\ push = 0 /\ Pay("fault") /\ long' = ~long
  /\ UNCHANGED <<authVars, sockVars, histVars>>

WebNext ==
  \/ HandleAccept \/ PeerLeaves \/ HandleClient \/ PushStarts \/ PushStep
  \/ Stopped \/ StoppedInSetup \/ StoppedInPairing \/ TimePasses \/ StatusGrows

\* The loop handles what is ready and pushes at its cadence.
WebSpec ==
  WebInit /\ [][WebNext]_webVars /\ WF_webVars(HandleClient) /\ WF_webVars(PushStarts \/ PushStep)

----------------------------------------------------------------------------
(* Properties. *)

\* What each client of the event stream gets goes to a connection that asked for it: no
\* entry of sse_clients outlives its descriptor, which another client may have by then,
\* none is listed twice, and no more than MAX_SSE_CLIENTS are (sse_register_client,
\* sse_remove_client, sse_push_status).
EventsGoToListeners ==
  /\ Len(sse) <= MaxSseClients
  /\ \A i \in DOMAIN sse : conn[sse[i]] = "stream" /\ \A j \in 1..(i - 1) : sse[i] # sse[j]

\* A client of the event stream that leaves is closed by the next pushes, although the
\* loop ignores the hang-up itself, while the status fits the push's buffer.
ListenerIsClosed ==
  \A fd \in Fd :
    (\E i \in DOMAIN sse : sse[i] = fd /\ gone[fd]) ~> (conn[fd] = "closed" \/ ~gone[fd] \/ long)

\* Whoever demands credentials can be given them: a printer that refuses requests has a
\* password to log in with, over restarts, saves that fail to open the file and stops
\* between saves.  The exceptions are a password that could not be hashed, and settings
\* loaded from a file that was cut short or that a first setup without credentials left
\* between two of its saves (api_deneb_setup_post).
RefusalHasAWayIn ==
  ~IsDisabled(auth) /\ auth.pw = None => flaws \cap {"between", "cut", "unhashed"} # {}

\* A printer whose owner asked for credentials demands them as long as it runs, whatever
\* became of its saves, and after restarts and setups that were stopped between two of
\* their saves; only settings loaded from a file that a save cut short (O_TRUNC in
\* save_config), or failed to write, open it.
ProtectionPersists == wanted /\ flaws \cap {"cut", "kept"} = {} => ~IsDisabled(auth)

\* The numbers of S issued after n.
Newer(S, n) == {m \in S : m > n}

\* The tables of sessions and challenges at their limits: as many of the newest as fit are
\* kept, in whatever order entries were added and have expired.
NewestAreKept ==
  /\ \A n \in fresh.token : Cardinality(Newer(fresh.token, n)) < MaxTokens => Valid(tokens, n)
  /\ \A n \in fresh.nonce : Cardinality(Newer(fresh.nonce, n)) < MaxNonces => Valid(nonces, n)
=============================================================================
