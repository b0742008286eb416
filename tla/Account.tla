------------------------------- MODULE Account -------------------------------
(***************************************************************************)
(* Signing up and in: the login dialog of each client, and LoginTool and   *)
(* SignTool, which pool threads run statement by statement against the     *)
(* Users table.  The dialog stays usable while it waits, so that a         *)
(* connection can have several requests under way.                         *)
(***************************************************************************)
EXTENDS Integers, Sequences, FiniteSets

CONSTANTS
  AConns,     \* clients with their short-task connections
  ANames,     \* user names
  APwds,      \* passwords
  AWorkers,   \* pool threads
  AMaxClicks  \* bound of clicks, in all dialogs

VARIABLES
  aUsers,     \* the table: name -> password
  aFolders,   \* names with a folder in ROOTFILEPATH
  aWorkQue,   \* requests not yet taken: [conn, op, user, pwd]
  aWorker,    \* per thread: place in the tool, request, outcome so far
  aCon,       \* ClientCon: [verified, user] (is_verify_, user_info_)
  aWire,      \* answers on the way to each client
  aDialog,    \* the dialog: [open, user] with user as info_ has it
  aClicks,
  aHasty,     \* history: clicked while a request was under way
  aMade       \* history: sign-ups answered with SUCCESS, <<connection, name>>

aVars == <<aUsers, aFolders, aWorkQue, aWorker, aCon, aWire, aDialog, aClicks, aHasty, aMade>>
aClient == <<aDialog, aClicks, aHasty>>

Nobody == "nobody"
Free == [at |-> "free"]

AInit ==
  /\ aUsers = [n \in {} |-> Nobody] /\ aFolders = {}
  /\ aWorkQue = <<>> /\ aWorker = [w \in AWorkers |-> Free]
  /\ aCon = [c \in AConns |-> [verified |-> FALSE, user |-> Nobody]]
  /\ aWire = [c \in AConns |-> <<>>]
  /\ aDialog = [c \in AConns |-> [open |-> TRUE, user |-> Nobody]]
  /\ aClicks = 0 /\ aHasty = [c \in AConns |-> FALSE]
  /\ aMade = {}

-----------------------------------------------------------------------------
(* The server *)

ATake(w, op) ==
  /\ aWorker[w] = Free /\ aWorkQue # <<>> /\ Head(aWorkQue).op = op
  /\ aWorkQue' = Tail(aWorkQue)

AtTool(w, at) == aWorker[w].at = at
AGoto(w, at, ok) == aWorker' = [aWorker EXCEPT ![w] = [@ EXCEPT !.at = at, !.ok = ok]]
Begin(w, at, ok) ==
  aWorker' = [aWorker EXCEPT ![w] = [at |-> at, ok |-> ok, req |-> Head(aWorkQue)]]
Account(req) == req.user \in DOMAIN aUsers /\ aUsers[req.user] = req.pwd

\* LoginTool: getUserInfo with name and password.
ASignIn(w) ==
  /\ ATake(w, "SIGNIN")
  /\ LET ok == Account(Head(aWorkQue)) IN Begin(w, IF ok THEN "init" ELSE "answer", ok)
  /\ UNCHANGED <<aUsers, aFolders, aCon, aWire, aClient, aMade>>

\* SignTool: getUserExist is a statement of its own.
AGetUserExist(w) ==
  /\ ATake(w, "SIGNUP")
  /\ Begin(w, IF Head(aWorkQue).user \in DOMAIN aUsers THEN "answer" ELSE "insert", FALSE)
  /\ UNCHANGED <<aUsers, aFolders, aCon, aWire, aClient, aMade>>

\* Mutant: the row that is there is replaced.
InsertReplaces(w) ==
  /\ AtTool(w, "insert")
  /\ LET req == aWorker[w].req
     IN  aUsers' = [n \in DOMAIN aUsers \cup {req.user} |->
                      IF n = req.user THEN req.pwd ELSE aUsers[n]]
  /\ AGoto(w, "folder", TRUE)
  /\ UNCHANGED <<aFolders, aWorkQue, aCon, aWire, aClient, aMade>>

\* The name is the primary key: a second row is refused.
AInsertUser(w) ==
  /\ AtTool(w, "insert")
  /\ LET req == aWorker[w].req
     IN  IF req.user \in DOMAIN aUsers
         THEN AGoto(w, "answer", FALSE) /\ UNCHANGED aUsers
         ELSE /\ aUsers' = [n \in DOMAIN aUsers \cup {req.user} |->
                              IF n = req.user THEN req.pwd ELSE aUsers[n]]
              /\ AGoto(w, "folder", TRUE)
  /\ UNCHANGED <<aFolders, aWorkQue, aCon, aWire, aClient, aMade>>

\* mkdir may fail: the row stays, and the sign-up is answered as a failure.
ACreateDir(w) ==
  /\ AtTool(w, "folder")
  /\ \E made \in {TRUE, aWorker[w].req.user \in aFolders} :
       /\ aFolders' = IF made THEN aFolders \cup {aWorker[w].req.user} ELSE aFolders
       /\ AGoto(w, IF made THEN "init" ELSE "answer", made)
  /\ UNCHANGED <<aUsers, aWorkQue, aCon, aWire, aClient, aMade>>

\* Mutant: the client is told before the connection knows.
InitAfterAnswer(w) ==
  /\ AtTool(w, "init")
  /\ LET req == aWorker[w].req
     IN  /\ aWire' = [aWire EXCEPT ![req.conn] = Append(@, [ok |-> TRUE, user |-> req.user])]
         /\ aMade' = IF req.op = "SIGNUP" THEN aMade \cup {<<req.conn, req.user>>} ELSE aMade
  /\ AGoto(w, "verify", TRUE)
  /\ UNCHANGED <<aUsers, aFolders, aWorkQue, aCon, aClient>>

\* conn->init(info) and setVerify(true).
AInitCon(w) ==
  /\ AtTool(w, "init")
  /\ aCon' = [aCon EXCEPT ![aWorker[w].req.conn] = [verified |-> TRUE, user |-> aWorker[w].req.user]]
  /\ AGoto(w, "answer", TRUE)
  /\ UNCHANGED <<aUsers, aFolders, aWorkQue, aWire, aClient, aMade>>

AAnswer(w) ==
  /\ AtTool(w, "answer")
  /\ LET req == aWorker[w].req  ok == aWorker[w].ok
     IN  /\ aWire' = [aWire EXCEPT ![req.conn] =
                        Append(@, [ok |-> ok, user |-> IF ok THEN req.user ELSE Nobody])]
         /\ aMade' = IF ok /\ req.op = "SIGNUP" THEN aMade \cup {<<req.conn, req.user>>} ELSE aMade
  /\ aWorker' = [aWorker EXCEPT ![w] = Free]
  /\ UNCHANGED <<aUsers, aFolders, aWorkQue, aCon, aClient>>

-----------------------------------------------------------------------------
(* The client.  That two reads of one stream may each get parts of an answer is *)
(* left out: whoever waits has one.                                              *)

UnderWay(c) ==
  \/ \E i \in DOMAIN aWorkQue : aWorkQue[i].conn = c
  \/ \E w \in AWorkers : ~AtTool(w, "free") /\ aWorker[w].req.conn = c
  \/ aWire[c] # <<>>

\* handleSignIn/UpPBClicked, connection, signin or signup: what is in the fields.
AClick(c) ==
  /\ aDialog[c].open /\ aClicks < AMaxClicks
  /\ \E op \in {"SIGNIN", "SIGNUP"}, user \in ANames, pwd \in APwds :
       aWorkQue' = Append(aWorkQue, [conn |-> c, op |-> op, user |-> user, pwd |-> pwd])
  /\ aClicks' = aClicks + 1
  /\ aHasty' = [aHasty EXCEPT ![c] = @ \/ UnderWay(c)]
  /\ UNCHANGED <<aUsers, aFolders, aWorker, aCon, aWire, aDialog, aMade>>

\* handleRecvPDURespond, with the one read that handleSend started.
ARecv(c) ==
  /\ aDialog[c].open /\ aWire[c] # <<>>
  /\ LET m == Head(aWire[c])
     IN  aDialog' = IF m.ok THEN [aDialog EXCEPT ![c] = [open |-> FALSE, user |-> m.user]] ELSE aDialog
  /\ aWire' = [aWire EXCEPT ![c] = Tail(@)]
  /\ UNCHANGED <<aUsers, aFolders, aWorkQue, aWorker, aCon, aClicks, aHasty, aMade>>

ANext ==
  \/ \E w \in AWorkers :
       \/ ASignIn(w) \/ AGetUserExist(w) \/ AInsertUser(w) \/ ACreateDir(w)
       \/ AInitCon(w) \/ AAnswer(w)
  \/ \E c \in AConns : AClick(c) \/ ARecv(c)

ASpec == AInit /\ [][ANext]_aVars

ATypeOK ==
  /\ DOMAIN aUsers \subseteq ANames /\ \A n \in DOMAIN aUsers : aUsers[n] \in APwds
  /\ aFolders \subseteq ANames
  /\ \A c \in AConns : aCon[c].user \in ANames \cup {Nobody} /\ aDialog[c].open \in BOOLEAN

\* Of clients that sign up with one name at the same time, all of whom find it free,
\* one is told that it has the account; it has the password and the folder.
AOneOwner ==
  /\ \A p, q \in aMade : p[2] = q[2] => p[1] = q[1]
  /\ \A p \in aMade : p[2] \in DOMAIN aUsers /\ p[2] \in aFolders

\* A client whose dialog has closed is served as the user it shows: its first CD,
\* which another thread may run at once, finds the connection verified.  A user who
\* tried two names without waiting may be served as the other.
AServedAs ==
  \A c \in AConns :
    (~aDialog[c].open /\ ~aHasty[c]) =>
      /\ aCon[c] = [verified |-> TRUE, user |-> aDialog[c].user]
      /\ aCon[c].user \in DOMAIN aUsers
=============================================================================
