---------------------------- MODULE ClientProofs ----------------------------
(***************************************************************************)
(* Theorems of Account and Session, what a client does after it connects.  *)
(*   Account, for every number of clients, names and threads: a name is    *)
(*     owned by the thread that has inserted it until it is reported as    *)
(*     made; a client that waits has its one request in one place.         *)
(*   Session, for every number of ids, clicks and pool threads: the count  *)
(*     of a list comes back to zero, and a user who waits for each answer  *)
(*     sees the table.                                                     *)
(***************************************************************************)
EXTENDS Account, Session, FiniteSetTheorems, TLAPS

-----------------------------------------------------------------------------
(* Account: the inductive invariant *)

AReq     == [conn : AConns, op : {"SIGNIN", "SIGNUP"}, user : ANames, pwd : APwds]
ABusy    == [at : {"insert", "folder", "init", "answer"}, ok : BOOLEAN, req : AReq]
AUser    == ANames \cup {Nobody}
AAnswers == [ok : BOOLEAN, user : AUser]

ATypes ==
  /\ DOMAIN aUsers \subseteq ANames /\ aUsers \in [DOMAIN aUsers -> APwds]
  /\ aFolders \subseteq ANames
  /\ aWorkQue \in Seq(AReq)
  /\ aWorker \in [AWorkers -> {Free} \cup ABusy]
  /\ aCon \in [AConns -> [verified : BOOLEAN, user : AUser]]
  /\ aWire \in [AConns -> Seq(AAnswers)]
  /\ aDialog \in [AConns -> [open : BOOLEAN, user : AUser]]
  /\ aHasty \in [AConns -> BOOLEAN]
  /\ aMade \subseteq AConns \X ANames

Busy(w) == aWorker[w].at # "free"
Req(w)  == aWorker[w].req

\* A thread past the statement that finds or makes its user's row.
Named(w) ==
  \/ aWorker[w].at \in {"folder", "init"}
  \/ aWorker[w].at = "answer" /\ aWorker[w].ok

\* One that has made the row and not yet said so.
Owns(w) == Named(w) /\ Req(w).op = "SIGNUP"

\* A name has one owner at a time, and none once it has been reported as made.
OwnInv ==
  /\ \A w \in AWorkers : Named(w) => Req(w).user \in DOMAIN aUsers
  /\ \A w \in AWorkers : Owns(w) =>
       /\ aWorker[w].at # "folder" => Req(w).user \in aFolders
       /\ \A p \in aMade : p[2] # Req(w).user
  /\ \A v, w \in AWorkers : Owns(v) /\ Owns(w) /\ Req(v).user = Req(w).user => v = w
  /\ AOneOwner

Waits(c) == \E i \in DOMAIN aWorkQue : aWorkQue[i].conn = c
Mine(w, c) == Busy(w) /\ Req(w).conn = c
Works(c) == \E w \in AWorkers : Mine(w, c)

\* The request of a client that waits is in one place.
Alone(c) ==
  /\ \A i, j \in DOMAIN aWorkQue : aWorkQue[i].conn = c /\ aWorkQue[j].conn = c => i = j
  /\ \A v, w \in AWorkers : Mine(v, c) /\ Mine(w, c) => v = w
  /\ Len(aWire[c]) <= 1
  /\ Waits(c) => ~Works(c) /\ aWire[c] = <<>>
  /\ Works(c) => aWire[c] = <<>>

Serves(c, user) == aCon[c] = [verified |-> TRUE, user |-> user] /\ user \in DOMAIN aUsers

\* Whom it is told to be is whom it is served as.
ServedInv(c) ==
  ~aHasty[c] =>
    /\ Alone(c)
    /\ \A w \in AWorkers :
         Mine(w, c) /\ aWorker[w].at = "answer" /\ aWorker[w].ok => Serves(c, Req(w).user)
    /\ \A i \in DOMAIN aWire[c] : aWire[c][i].ok => Serves(c, aWire[c][i].user)
    /\ ~aDialog[c].open =>
         /\ ~Waits(c) /\ ~Works(c) /\ aWire[c] = <<>>
         /\ Serves(c, aDialog[c].user)

AInv == ATypes /\ OwnInv /\ \A c \in AConns : ServedInv(c)

-----------------------------------------------------------------------------
(* Sequences *)

LEMMA AppendGives ==
  ASSUME NEW S, NEW s \in Seq(S), NEW e \in S
  PROVE  /\ Append(s, e) \in Seq(S) /\ Len(Append(s, e)) = Len(s) + 1
         /\ DOMAIN s = 1..Len(s) /\ Len(s) \in Nat
         /\ DOMAIN Append(s, e) = 1..(Len(s) + 1)
         /\ Append(s, e)[Len(s) + 1] = e
         /\ \A i \in 1..Len(s) : Append(s, e)[i] = s[i]
BY SMT

LEMMA TailGives ==
  ASSUME NEW S, NEW s \in Seq(S), s # <<>>
  PROVE  /\ Head(s) \in S /\ Head(s) = s[1] /\ 1 \in DOMAIN s /\ Tail(s) \in Seq(S)
         /\ \A i \in DOMAIN Tail(s) : i + 1 \in DOMAIN s /\ Tail(s)[i] = s[i + 1] /\ i \in Nat /\ i > 0
<1>1. Len(s) \in Nat /\ Len(s) > 0 /\ DOMAIN s = 1..Len(s) BY SMT
<1>2. Tail(s) \in Seq(S) /\ Len(Tail(s)) = Len(s) - 1 BY SMT
<1>3. \A i \in 1..(Len(s) - 1) : Tail(s)[i] = s[i + 1] BY <1>1, SMT
<1>4. Head(s) = s[1] /\ s[1] \in S BY <1>1, SMT
<1>5. DOMAIN Tail(s) = 1..(Len(s) - 1) BY <1>1, <1>2, SMT
<1> QED BY <1>1, <1>2, <1>3, <1>4, <1>5, SMT

LEMMA LenZero ==
  ASSUME NEW S, NEW s \in Seq(S), Len(s) = 0
  PROVE  s = <<>>
OBVIOUS

LEMMA OneIsLast ==
  ASSUME NEW S, NEW s \in Seq(S), Len(s) <= 1, s # <<>>
  PROVE  Tail(s) = <<>>
<1>1. Len(s) \in Nat /\ Len(s) # 0 BY LenZero
<1>2. Len(s) = 1 BY <1>1, SMTT(20)
<1>3. Tail(s) \in Seq(S) /\ Len(Tail(s)) = 0 BY <1>2
<1> QED BY <1>3, LenZero

LEMMA EmptyHas ==
  ASSUME NEW S
  PROVE  <<>> \in Seq(S) /\ Len(<<>>) = 0 /\ DOMAIN <<>> = {}
BY SMT

-----------------------------------------------------------------------------
(* Types *)

LEMMA BusyIs ==
  ASSUME ATypes, NEW w \in AWorkers, Busy(w)
  PROVE  aWorker[w] \in ABusy /\ Req(w) \in AReq
BY DEF ATypes, Busy, Req, ABusy, Free

\* A thread that stays in its tool keeps its request.
LEMMA GotoIs ==
  ASSUME ATypes, NEW w \in AWorkers, Busy(w),
         NEW at \in {"insert", "folder", "init", "answer"}, NEW ok \in BOOLEAN, AGoto(w, at, ok)
  PROVE  /\ aWorker' \in [AWorkers -> {Free} \cup ABusy]
         /\ aWorker'[w].at = at /\ aWorker'[w].ok = ok /\ aWorker'[w].req = aWorker[w].req
         /\ \A v \in AWorkers : v # w => aWorker'[v] = aWorker[v]
<1>1. aWorker[w] \in ABusy BY BusyIs
<1>2. [aWorker[w] EXCEPT !.at = at, !.ok = ok] \in ABusy BY <1>1 DEF ABusy
<1> QED BY <1>1, <1>2 DEF AGoto, ATypes, ABusy

LEMMA TakeIs ==
  ASSUME ATypes, NEW w \in AWorkers, NEW op, ATake(w, op),
         NEW at \in {"insert", "folder", "init", "answer"}, NEW ok \in BOOLEAN, Begin(w, at, ok)
  PROVE  /\ aWorker' \in [AWorkers -> {Free} \cup ABusy] /\ aWorkQue' \in Seq(AReq)
         /\ Head(aWorkQue) \in AReq /\ Head(aWorkQue).op = op
         /\ aWorker[w] = Free
         /\ aWorker'[w] = [at |-> at, ok |-> ok, req |-> Head(aWorkQue)]
         /\ \A v \in AWorkers : v # w => aWorker'[v] = aWorker[v]
<1>1. Head(aWorkQue) \in AReq /\ Tail(aWorkQue) \in Seq(AReq) BY TailGives DEF ATypes, ATake
<1>2. [at |-> at, ok |-> ok, req |-> Head(aWorkQue)] \in ABusy BY <1>1 DEF ABusy
<1> QED BY <1>1, <1>2 DEF Begin, ATypes, ATake

\* The two ways in which mkdir ends.
MakesDir(w) == aFolders' = aFolders \cup {Req(w).user} /\ AGoto(w, "init", TRUE)
FailsDir(w) == aFolders' = aFolders /\ AGoto(w, "answer", FALSE)

LEMMA DirEither == ASSUME NEW w, ACreateDir(w) PROVE MakesDir(w) \/ FailsDir(w)
<1>1. CASE aWorker[w].req.user \in aFolders
  <2>1. (aWorker[w].req.user \in aFolders) = TRUE BY <1>1
  <2>2. PICK made \in {TRUE, TRUE} :
          /\ aFolders' = IF made THEN aFolders \cup {aWorker[w].req.user} ELSE aFolders
          /\ AGoto(w, IF made THEN "init" ELSE "answer", made)
    BY <2>1 DEF ACreateDir
  <2>3. made = TRUE OBVIOUS
  <2> QED BY <2>2, <2>3 DEF MakesDir, Req
<1>2. CASE ~(aWorker[w].req.user \in aFolders)
  <2>1. (aWorker[w].req.user \in aFolders) = FALSE BY <1>2
  <2>2. PICK made \in {TRUE, FALSE} :
          /\ aFolders' = IF made THEN aFolders \cup {aWorker[w].req.user} ELSE aFolders
          /\ AGoto(w, IF made THEN "init" ELSE "answer", made)
    BY <2>1 DEF ACreateDir
  <2>3. CASE made = TRUE BY <2>2, <2>3 DEF MakesDir, Req
  <2>4. CASE made = FALSE BY <2>2, <2>4 DEF FailsDir
  <2> QED BY <2>2, <2>3, <2>4
<1> QED BY <1>1, <1>2

LEMMA InsertTypes ==
  ASSUME ATypes, NEW user \in ANames, NEW pwd \in APwds
  PROVE  LET u == [n \in DOMAIN aUsers \cup {user} |-> IF n = user THEN pwd ELSE aUsers[n]]
         IN  DOMAIN u \subseteq ANames /\ u \in [DOMAIN u -> APwds]
BY DEF ATypes

LEMMA AccountInitTypes == AInit => ATypes
BY EmptyHas DEF AInit, ATypes, AUser, AAnswers

LEMMA StepTypes == ATypes /\ [ANext]_aVars => ATypes'
<1> SUFFICES ASSUME ATypes, [ANext]_aVars PROVE ATypes'
  OBVIOUS
<1> USE DEF aClient
<1>1. ASSUME NEW w \in AWorkers, ASignIn(w) PROVE ATypes'
  <2> DEFINE ok == Account(Head(aWorkQue))
             at == IF ok THEN "init" ELSE "answer"
  <2>1. ATake(w, "SIGNIN") /\ Begin(w, at, ok) BY <1>1 DEF ASignIn
  <2>2. ok \in BOOLEAN /\ (ok \/ ~ok) BY DEF Account
  <2>3. at \in {"init", "answer"}
    <3>1. CASE ok BY <3>1
    <3>2. CASE ~ok BY <3>2
    <3> QED BY <3>1, <3>2
  <2> HIDE DEF ok, at
  <2>4. aWorker' \in [AWorkers -> {Free} \cup ABusy] /\ aWorkQue' \in Seq(AReq)
    BY <2>1, <2>2, <2>3, TakeIs
  <2> QED BY <1>1, <2>4 DEF ASignIn, ATypes
<1>2. ASSUME NEW w \in AWorkers, AGetUserExist(w) PROVE ATypes'
  <2>1. aWorker' \in [AWorkers -> {Free} \cup ABusy] /\ aWorkQue' \in Seq(AReq)
    BY <1>2, TakeIs DEF AGetUserExist
  <2> QED BY <1>2, <2>1 DEF AGetUserExist, ATypes
<1>3. ASSUME NEW w \in AWorkers, AInsertUser(w) PROVE ATypes'
  <2>1. Busy(w) BY <1>3 DEF AInsertUser, AtTool, Busy
  <2>2. aWorker' \in [AWorkers -> {Free} \cup ABusy] BY <1>3, <2>1, GotoIs DEF AInsertUser
  <2>3. Req(w) \in AReq BY <2>1, BusyIs
  <2>4. Req(w).user \in ANames /\ Req(w).pwd \in APwds BY <2>3 DEF AReq
  <2>5. DOMAIN aUsers' \subseteq ANames /\ aUsers' \in [DOMAIN aUsers' -> APwds]
    <3>1. CASE UNCHANGED aUsers BY <3>1 DEF ATypes
    <3>2. CASE aUsers' = [n \in DOMAIN aUsers \cup {Req(w).user} |->
                            IF n = Req(w).user THEN Req(w).pwd ELSE aUsers[n]]
      BY <3>2, <2>4, InsertTypes
    <3> QED BY <1>3, <3>1, <3>2 DEF AInsertUser, Req
  <2> QED BY <1>3, <2>2, <2>5 DEF AInsertUser, ATypes
<1>4. ASSUME NEW w \in AWorkers, ACreateDir(w) PROVE ATypes'
  <2>1. Busy(w) BY <1>4 DEF ACreateDir, AtTool, Busy
  <2>2. Req(w).user \in ANames BY <2>1, BusyIs DEF AReq
  <2>3. CASE MakesDir(w) BY <1>4, <2>1, <2>2, <2>3, GotoIs DEF MakesDir, ACreateDir, ATypes, Req
  <2>4. CASE FailsDir(w) BY <1>4, <2>1, <2>4, GotoIs DEF FailsDir, ACreateDir, ATypes
  <2> QED BY <1>4, <2>3, <2>4, DirEither
<1>5. ASSUME NEW w \in AWorkers, AInitCon(w) PROVE ATypes'
  <2>1. Busy(w) BY <1>5 DEF AInitCon, AtTool, Busy
  <2>2. aWorker' \in [AWorkers -> {Free} \cup ABusy] BY <1>5, <2>1, GotoIs DEF AInitCon
  <2>3. Req(w).user \in ANames BY <2>1, BusyIs DEF AReq
  <2>4. aCon' \in [AConns -> [verified : BOOLEAN, user : AUser]]
    BY <1>5, <2>3 DEF AInitCon, ATypes, Req, AUser
  <2> QED BY <1>5, <2>2, <2>4 DEF AInitCon, ATypes
<1>6. ASSUME NEW w \in AWorkers, AAnswer(w) PROVE ATypes'
  <2>1. Busy(w) BY <1>6 DEF AAnswer, AtTool, Busy
  <2>2. Req(w) \in AReq /\ aWorker[w] \in ABusy BY <2>1, BusyIs
  <2> DEFINE m == [ok |-> aWorker[w].ok, user |-> IF aWorker[w].ok THEN Req(w).user ELSE Nobody]
  <2>3. m \in AAnswers BY <2>2 DEF AReq, ABusy, AAnswers, AUser
  <2>4. aWire' = [aWire EXCEPT ![Req(w).conn] = Append(@, m)] BY <1>6 DEF AAnswer, Req
  <2> HIDE DEF m
  <2>5. aWire' \in [AConns -> Seq(AAnswers)]
    <3>1. Req(w).conn \in AConns BY <2>2 DEF AReq
    <3>2. Append(aWire[Req(w).conn], m) \in Seq(AAnswers) BY <2>3, <3>1, AppendGives DEF ATypes
    <3> QED BY <2>4, <3>1, <3>2 DEF ATypes
  <2>6. aMade' \subseteq AConns \X ANames
    <3>1. <<Req(w).conn, Req(w).user>> \in AConns \X ANames BY <2>2 DEF AReq
    <3> QED BY <1>6, <3>1 DEF AAnswer, ATypes, Req
  <2>7. aWorker' \in [AWorkers -> {Free} \cup ABusy] BY <1>6 DEF AAnswer, ATypes
  <2> QED BY <1>6, <2>5, <2>6, <2>7 DEF AAnswer, ATypes
<1>7. ASSUME NEW c \in AConns, AClick(c) PROVE ATypes'
  <2>1. PICK op \in {"SIGNIN", "SIGNUP"}, user \in ANames, pwd \in APwds :
          aWorkQue' = Append(aWorkQue, [conn |-> c, op |-> op, user |-> user, pwd |-> pwd])
    BY <1>7 DEF AClick
  <2>2. [conn |-> c, op |-> op, user |-> user, pwd |-> pwd] \in AReq BY DEF AReq
  <2>3. aWorkQue' \in Seq(AReq) BY <2>1, <2>2, AppendGives DEF ATypes
  <2>4. aHasty' \in [AConns -> BOOLEAN]
    <3>1. aHasty' = [aHasty EXCEPT ![c] = aHasty[c] \/ UnderWay(c)] BY <1>7 DEF AClick
    <3>2. (aHasty[c] \/ UnderWay(c)) \in BOOLEAN OBVIOUS
    <3> QED BY <3>1, <3>2, Zenon DEF ATypes
  <2> QED BY <1>7, <2>3, <2>4 DEF AClick, ATypes
<1>8. ASSUME NEW c \in AConns, ARecv(c) PROVE ATypes'
  <2>1. aWire[c] \in Seq(AAnswers) /\ aWire[c] # <<>> BY <1>8 DEF ATypes, ARecv
  <2>2. Head(aWire[c]) \in AAnswers /\ Tail(aWire[c]) \in Seq(AAnswers) BY <2>1, TailGives
  <2>3. aDialog' \in [AConns -> [open : BOOLEAN, user : AUser]]
    <3>1. [open |-> FALSE, user |-> Head(aWire[c]).user] \in [open : BOOLEAN, user : AUser]
      BY <2>2 DEF AAnswers
    <3> QED BY <1>8, <3>1 DEF ARecv, ATypes
  <2>4. aWire' \in [AConns -> Seq(AAnswers)] BY <1>8, <2>2 DEF ARecv, ATypes
  <2> QED BY <1>8, <2>3, <2>4 DEF ARecv, ATypes
<1>9. CASE UNCHANGED aVars BY <1>9 DEF aVars, ATypes
<1> QED BY <1>1, <1>2, <1>3, <1>4, <1>5, <1>6, <1>7, <1>8, <1>9 DEF ANext

\* The table of users holds one row for each name the client can register.
THEOREM SignInTypes == ASpec => []ATypeOK
<1>1. AInit => ATypes BY AccountInitTypes
<1>2. ATypes /\ [ANext]_aVars => ATypes' BY StepTypes
<1>3. ATypes => ATypeOK
  BY DEF ATypes, ATypeOK, AUser
<1> QED BY <1>1, <1>2, <1>3, PTL DEF ASpec

-----------------------------------------------------------------------------
(* What each step of a tool does to its thread *)

LEMMA SignInIs ==
  ASSUME ATypes, NEW w \in AWorkers, ASignIn(w)
  PROVE  \E at \in {"init", "answer"}, ok \in BOOLEAN :
           /\ ATake(w, "SIGNIN") /\ Begin(w, at, ok)
           /\ at = "answer" => ~ok
           /\ at = "init" => Head(aWorkQue).user \in DOMAIN aUsers
<1>1. ATake(w, "SIGNIN") BY DEF ASignIn
<1>2. CASE Account(Head(aWorkQue))
  <2>1. Account(Head(aWorkQue)) = TRUE BY <1>2 DEF Account
  <2>2. Begin(w, "init", TRUE) BY <2>1 DEF ASignIn
  <2> QED BY <1>1, <1>2, <2>2 DEF Account
<1>3. CASE ~Account(Head(aWorkQue))
  <2>1. Account(Head(aWorkQue)) = FALSE BY <1>3 DEF Account
  <2>2. Begin(w, "answer", FALSE) BY <2>1 DEF ASignIn
  <2> QED BY <1>1, <2>2
<1> QED BY <1>2, <1>3

LEMMA ExistIs ==
  ASSUME ATypes, NEW w \in AWorkers, AGetUserExist(w)
  PROVE  \E at \in {"insert", "answer"} : ATake(w, "SIGNUP") /\ Begin(w, at, FALSE)
BY DEF AGetUserExist

-----------------------------------------------------------------------------
(* The owner of a name *)

\* A step of thread w that gives no name a second owner.
LEMMA OwnKept ==
  ASSUME OwnInv, NEW w \in AWorkers,
         \A v \in AWorkers : v # w => aWorker'[v] = aWorker[v],
         aMade' = aMade, DOMAIN aUsers \subseteq DOMAIN aUsers', aFolders \subseteq aFolders',
         Named(w)' => Req(w)'.user \in DOMAIN aUsers',
         Owns(w)' => \/ Owns(w) /\ Req(w)' = Req(w)
                     \/ Req(w)'.user \notin DOMAIN aUsers,
         Owns(w)' /\ aWorker'[w].at # "folder" => Req(w)'.user \in aFolders'
  PROVE  OwnInv'
<1>1. ASSUME NEW v \in AWorkers, v # w
      PROVE  Named(v)' = Named(v) /\ Owns(v)' = Owns(v) /\ Req(v)' = Req(v) /\ aWorker'[v] = aWorker[v]
  BY <1>1, Zenon DEF Named, Owns, Req
<1>2. \A v \in AWorkers : Named(v)' => Req(v)'.user \in DOMAIN aUsers'
  BY <1>1 DEF OwnInv
<1>3. ASSUME NEW v \in AWorkers, Owns(v)'
      PROVE  /\ aWorker'[v].at # "folder" => Req(v)'.user \in aFolders'
             /\ \A p \in aMade' : p[2] # Req(v)'.user
  <2>1. CASE v # w BY <1>1, <1>3, <2>1 DEF OwnInv
  <2>2. CASE v = w
    <3>1. CASE Owns(w) /\ Req(w)' = Req(w) BY <1>3, <2>2, <3>1 DEF OwnInv
    <3>2. CASE Req(w)'.user \notin DOMAIN aUsers BY <1>3, <2>2, <3>2 DEF OwnInv, AOneOwner
    <3> QED BY <1>3, <2>2, <3>1, <3>2
  <2> QED BY <2>1, <2>2
<1>4. ASSUME NEW v \in AWorkers, v # w, Owns(v)', Owns(w)', Req(v)'.user = Req(w)'.user
      PROVE  FALSE
  <2>1. Owns(v) /\ Req(v)' = Req(v) BY <1>1, <1>4
  <2>2. Req(v).user \in DOMAIN aUsers BY <2>1 DEF OwnInv, Owns
  <2>3. Owns(w) /\ Req(w)' = Req(w) BY <1>4, <2>1, <2>2
  <2> QED BY <1>4, <2>1, <2>3 DEF OwnInv
<1>5. ASSUME NEW u \in AWorkers, NEW v \in AWorkers, Owns(u)', Owns(v)', Req(u)'.user = Req(v)'.user
      PROVE  u = v
  <2>1. CASE u # w /\ v # w BY <1>1, <1>5, <2>1 DEF OwnInv
  <2>2. CASE u = w \/ v = w BY <1>4, <1>5, <2>2
  <2> QED BY <2>1, <2>2
<1>6. AOneOwner' BY DEF OwnInv, AOneOwner
<1> QED BY <1>2, <1>3, <1>5, <1>6 DEF OwnInv

LEMMA OwnStep == ATypes /\ OwnInv /\ [ANext]_aVars => OwnInv'
<1> SUFFICES ASSUME ATypes, OwnInv, [ANext]_aVars PROVE OwnInv'
  OBVIOUS
<1> USE DEF aClient
<1>1. ASSUME NEW w \in AWorkers, ASignIn(w) PROVE OwnInv'
  <2>1. PICK at \in {"init", "answer"}, ok \in BOOLEAN :
           /\ ATake(w, "SIGNIN") /\ Begin(w, at, ok)
           /\ at = "answer" => ~ok
           /\ at = "init" => Head(aWorkQue).user \in DOMAIN aUsers
    BY <1>1, SignInIs
  <2>2. /\ aWorker'[w] = [at |-> at, ok |-> ok, req |-> Head(aWorkQue)]
        /\ Head(aWorkQue).op = "SIGNIN"
        /\ \A v \in AWorkers : v # w => aWorker'[v] = aWorker[v]
    BY <2>1, TakeIs
  <2>3. Named(w)' => Req(w)'.user \in DOMAIN aUsers'
    BY <1>1, <2>1, <2>2 DEF Named, Req, ASignIn
  <2>4. ~Owns(w)' BY <2>2 DEF Owns, Req
  <2> QED BY <1>1, <2>2, <2>3, <2>4, OwnKept DEF ASignIn
<1>2. ASSUME NEW w \in AWorkers, AGetUserExist(w) PROVE OwnInv'
  <2>1. PICK at \in {"insert", "answer"} : ATake(w, "SIGNUP") /\ Begin(w, at, FALSE)
    BY <1>2, ExistIs
  <2>2. /\ aWorker'[w] = [at |-> at, ok |-> FALSE, req |-> Head(aWorkQue)]
        /\ \A v \in AWorkers : v # w => aWorker'[v] = aWorker[v]
    BY <2>1, TakeIs
  <2>3. ~Named(w)' /\ ~Owns(w)' BY <2>2 DEF Named, Owns
  <2> QED BY <1>2, <2>2, <2>3, OwnKept DEF AGetUserExist
<1>3. ASSUME NEW w \in AWorkers, AInsertUser(w) PROVE OwnInv'
  <2>1. Busy(w) BY <1>3 DEF AInsertUser, AtTool, Busy
  <2>2. CASE Req(w).user \in DOMAIN aUsers
    <3>1. AGoto(w, "answer", FALSE) /\ aUsers' = aUsers /\ aFolders' = aFolders /\ aMade' = aMade
      BY <1>3, <2>2 DEF AInsertUser, Req
    <3>2. /\ aWorker'[w].at = "answer" /\ aWorker'[w].ok = FALSE
          /\ \A v \in AWorkers : v # w => aWorker'[v] = aWorker[v]
      BY <2>1, <3>1, GotoIs
    <3>3. ~Named(w)' /\ ~Owns(w)' BY <3>2 DEF Named, Owns
    <3> QED BY <3>1, <3>2, <3>3, OwnKept
  <2>3. CASE Req(w).user \notin DOMAIN aUsers
    <3>1. /\ AGoto(w, "folder", TRUE) /\ aFolders' = aFolders /\ aMade' = aMade
          /\ DOMAIN aUsers' = DOMAIN aUsers \cup {Req(w).user}
      BY <1>3, <2>3 DEF AInsertUser, Req
    <3>2. /\ aWorker'[w].at = "folder" /\ Req(w)' = Req(w)
          /\ \A v \in AWorkers : v # w => aWorker'[v] = aWorker[v]
      BY <2>1, <3>1, GotoIs DEF Req
    <3> QED BY <2>3, <3>1, <3>2, OwnKept
  <2> QED BY <2>2, <2>3
<1>4. ASSUME NEW w \in AWorkers, ACreateDir(w) PROVE OwnInv'
  <2>1. Busy(w) /\ Named(w) /\ aUsers' = aUsers /\ aMade' = aMade
    BY <1>4 DEF ACreateDir, AtTool, Busy, Named
  <2>2. CASE MakesDir(w)
    <3>1. /\ aWorker'[w].at = "init" /\ Req(w)' = Req(w)
          /\ \A v \in AWorkers : v # w => aWorker'[v] = aWorker[v]
      BY <2>1, <2>2, GotoIs DEF Req, MakesDir
    <3>2. aFolders' = aFolders \cup {Req(w).user} BY <2>2 DEF MakesDir
    <3>3. Named(w)' => Req(w)'.user \in DOMAIN aUsers' BY <2>1, <3>1 DEF OwnInv
    <3>4. Owns(w)' => Owns(w) /\ Req(w)' = Req(w) BY <2>1, <3>1 DEF Owns
    <3> QED BY <2>1, <3>1, <3>2, <3>3, <3>4, OwnKept
  <2>3. CASE FailsDir(w)
    <3>1. /\ aWorker'[w].at = "answer" /\ aWorker'[w].ok = FALSE
          /\ \A v \in AWorkers : v # w => aWorker'[v] = aWorker[v]
      BY <2>1, <2>3, GotoIs DEF FailsDir
    <3>2. ~Named(w)' /\ ~Owns(w)' BY <3>1 DEF Named, Owns
    <3>3. aFolders' = aFolders BY <2>3 DEF FailsDir
    <3> QED BY <2>1, <3>1, <3>2, <3>3, OwnKept
  <2> QED BY <1>4, <2>2, <2>3, DirEither
<1>5. ASSUME NEW w \in AWorkers, AInitCon(w) PROVE OwnInv'
  <2>1. /\ Busy(w) /\ Named(w) /\ aWorker[w].at # "folder"
        /\ AGoto(w, "answer", TRUE) /\ aUsers' = aUsers /\ aMade' = aMade /\ aFolders' = aFolders
    BY <1>5 DEF AInitCon, AtTool, Busy, Named
  <2>2. /\ aWorker'[w].at = "answer" /\ Req(w)' = Req(w)
        /\ \A v \in AWorkers : v # w => aWorker'[v] = aWorker[v]
    BY <2>1, GotoIs DEF Req
  <2>3. Named(w)' => Req(w)'.user \in DOMAIN aUsers' BY <2>1, <2>2 DEF OwnInv
  <2>4. Owns(w)' => Owns(w) /\ Req(w)' = Req(w) BY <2>1, <2>2 DEF Owns
  <2>5. Owns(w) => Req(w).user \in aFolders BY <2>1 DEF OwnInv
  <2> QED BY <2>1, <2>2, <2>3, <2>4, <2>5, OwnKept
<1>6. ASSUME NEW w \in AWorkers, AAnswer(w) PROVE OwnInv'
  <2>1. /\ Busy(w) /\ aWorker[w].at = "answer" /\ aUsers' = aUsers /\ aFolders' = aFolders
        /\ aWorker'[w] = Free
        /\ \A v \in AWorkers : v # w => aWorker'[v] = aWorker[v]
    BY <1>6 DEF AAnswer, AtTool, Busy, ATypes
  <2>2. ~Named(w)' /\ ~Owns(w)' BY <2>1 DEF Named, Owns, Free
  <2>3. CASE aMade' = aMade BY <2>1, <2>2, <2>3, OwnKept
  <2>4. CASE aMade' # aMade
    <3>1. Owns(w) /\ aMade' = aMade \cup {<<Req(w).conn, Req(w).user>>}
      BY <1>6, <2>1, <2>4 DEF AAnswer, Owns, Named, Req
    <3>2. ASSUME NEW v \in AWorkers
          PROVE  /\ Owns(v)' => Owns(v) /\ v # w /\ Req(v)' = Req(v) /\ aWorker'[v] = aWorker[v]
                 /\ Named(v)' => Named(v) /\ Req(v)' = Req(v)
      BY <2>1, <2>2 DEF Owns, Named, Req
    <3>3. ASSUME NEW v \in AWorkers, Owns(v)', NEW p \in aMade' PROVE p[2] # Req(v)'.user
      <4>1. Req(v).user # Req(w).user BY <3>1, <3>2, <3>3 DEF OwnInv
      <4>2. CASE p \in aMade BY <3>2, <3>3, <4>2 DEF OwnInv
      <4>3. CASE p = <<Req(w).conn, Req(w).user>> BY <3>2, <3>3, <4>1, <4>3
      <4> QED BY <3>1, <4>2, <4>3
    <3>4. \A p \in aMade : p[2] # Req(w).user BY <3>1 DEF OwnInv
    <3>5. AOneOwner'
      <4>1. ASSUME NEW p \in aMade', NEW q \in aMade', p[2] = q[2] PROVE p[1] = q[1]
        BY <3>1, <3>4, <4>1 DEF OwnInv, AOneOwner
      <4>2. Req(w).user \in DOMAIN aUsers /\ Req(w).user \in aFolders
        BY <2>1, <3>1 DEF OwnInv, Owns
      <4> QED BY <2>1, <3>1, <4>1, <4>2 DEF OwnInv, AOneOwner
    <3> QED BY <2>1, <3>2, <3>3, <3>5 DEF OwnInv
  <2> QED BY <2>3, <2>4
<1>7. ASSUME NEW c \in AConns, AClick(c) PROVE OwnInv'
  BY <1>7 DEF AClick, OwnInv, AOneOwner, Owns, Named, Req
<1>8. ASSUME NEW c \in AConns, ARecv(c) PROVE OwnInv'
  BY <1>8 DEF ARecv, OwnInv, AOneOwner, Owns, Named, Req
<1>9. CASE UNCHANGED aVars BY <1>9 DEF aVars, OwnInv, AOneOwner, Owns, Named, Req
<1> QED BY <1>1, <1>2, <1>3, <1>4, <1>5, <1>6, <1>7, <1>8, <1>9 DEF ANext

LEMMA InitOwn == AInit => OwnInv
BY DEF AInit, OwnInv, AOneOwner, Owns, Named, Free

\* Of the clients that sign up with one name one is told that it has the account,
\* whichever of their threads found the name free (SignTool's two statements).
THEOREM OneAccountOwner == ASpec => []AOneOwner
<1>1. AInit => ATypes /\ OwnInv BY AccountInitTypes, InitOwn
<1>2. ATypes /\ OwnInv /\ [ANext]_aVars => ATypes' /\ OwnInv' BY StepTypes, OwnStep
<1>3. OwnInv => AOneOwner BY DEF OwnInv
<1> QED BY <1>1, <1>2, <1>3, PTL DEF ASpec

-----------------------------------------------------------------------------
(* The client that waits *)

\* Thread w keeps or ends its request, and what client c sees is as before.
LEMMA ServedGoto ==
  ASSUME NEW c \in AConns, ServedInv(c), NEW w \in AWorkers, Busy(w), aHasty' = aHasty,
         \A v \in AWorkers : v # w => aWorker'[v] = aWorker[v],
         aWorker'[w].at # "free", Req(w)' = Req(w),
         aWorkQue' = aWorkQue, aWire' = aWire, aDialog' = aDialog,
         DOMAIN aUsers \subseteq DOMAIN aUsers',
         aCon'[c] = aCon[c] \/ Mine(w, c),
         Mine(w, c) /\ aWorker'[w].at = "answer" /\ aWorker'[w].ok => Serves(c, Req(w).user)'
  PROVE  ServedInv(c)'
<1> SUFFICES ASSUME ~aHasty[c] PROVE ServedInv(c)'
  BY DEF ServedInv
<1>1. ASSUME NEW v \in AWorkers PROVE Mine(v, c)' = Mine(v, c) /\ Req(v)' = Req(v)
  BY DEF Mine, Busy, Req
<1>2. Works(c)' = Works(c) /\ Waits(c)' = Waits(c)
  BY <1>1 DEF Works, Waits
<1>3. Alone(c) BY DEF ServedInv
<1>4. Alone(c)' BY <1>1, <1>2, <1>3 DEF Alone
<1>5. ASSUME NEW user, Serves(c, user), ~Mine(w, c) PROVE Serves(c, user)'
  BY <1>5 DEF Serves
<1>6. ASSUME NEW v \in AWorkers, Mine(v, c)', aWorker'[v].at = "answer", aWorker'[v].ok
      PROVE  Serves(c, Req(v).user)'
  <2>1. CASE v = w BY <1>1, <1>6, <2>1
  <2>2. CASE v # w
    <3>1. Mine(v, c) /\ ~Mine(w, c) BY <1>1, <1>3, <1>6, <2>2 DEF Alone
    <3>2. Serves(c, Req(v).user) BY <1>6, <2>2, <3>1 DEF ServedInv
    <3> QED BY <1>1, <3>1, <3>2 DEF Serves
  <2> QED BY <2>1, <2>2
<1>7. ASSUME NEW i \in DOMAIN aWire[c], aWire[c][i].ok PROVE Serves(c, aWire[c][i].user)'
  <2>1. aWire[c] # <<>> BY EmptyHas
  <2>2. ~Mine(w, c) BY <1>3, <2>1 DEF Alone, Works
  <2>3. Serves(c, aWire[c][i].user) BY <1>7 DEF ServedInv
  <2> QED BY <2>2, <2>3 DEF Serves
<1>8. ASSUME ~aDialog[c].open
      PROVE  ~Waits(c) /\ ~Works(c) /\ aWire[c] = <<>> /\ Serves(c, aDialog[c].user)'
  <2>1. ~Waits(c) /\ ~Works(c) /\ aWire[c] = <<>> /\ Serves(c, aDialog[c].user)
    BY <1>8 DEF ServedInv
  <2>2. ~Mine(w, c) BY <2>1 DEF Works
  <2> QED BY <2>1, <2>2 DEF Serves
<1> QED BY <1>2, <1>4, <1>6, <1>7, <1>8 DEF ServedInv, Serves

\* Thread w takes the first request.
LEMMA ServedTake ==
  ASSUME ATypes, NEW c \in AConns, ServedInv(c), NEW w \in AWorkers, NEW op, ATake(w, op),
         NEW at \in {"insert", "init", "answer"}, NEW ok \in BOOLEAN, Begin(w, at, ok),
         at = "answer" => ~ok,
         UNCHANGED <<aUsers, aCon, aWire, aDialog, aHasty>>
  PROVE  ServedInv(c)'
<1> SUFFICES ASSUME ~aHasty[c] PROVE ServedInv(c)'
  BY DEF ServedInv
<1> DEFINE r == Head(aWorkQue)
<1>1. /\ aWorker[w] = Free
      /\ aWorker'[w] = [at |-> at, ok |-> ok, req |-> r]
      /\ \A v \in AWorkers : v # w => aWorker'[v] = aWorker[v]
  BY TakeIs
<1>2. /\ r = aWorkQue[1] /\ 1 \in DOMAIN aWorkQue
      /\ \A i \in DOMAIN aWorkQue' : /\ i + 1 \in DOMAIN aWorkQue /\ aWorkQue'[i] = aWorkQue[i + 1]
                                     /\ i \in Nat /\ i > 0
  BY TailGives DEF ATypes, ATake
<1> HIDE DEF r
<1>3. ASSUME NEW v \in AWorkers, v # w PROVE Mine(v, c)' = Mine(v, c) /\ Req(v)' = Req(v)
  BY <1>1, <1>3 DEF Mine, Busy, Req
<1>4. ~Mine(w, c) BY <1>1 DEF Mine, Busy, Free
<1>5. Mine(w, c)' => r.conn = c BY <1>1 DEF Mine, Req
<1>6. Alone(c) BY DEF ServedInv
<1>7. r.conn = c => Waits(c) /\ ~Works(c) /\ aWire[c] = <<>>
  BY <1>2, <1>6 DEF Waits, Alone
<1>8. Waits(c)' => Waits(c) /\ r.conn # c
  <2> SUFFICES ASSUME NEW i \in DOMAIN aWorkQue', aWorkQue'[i].conn = c
               PROVE  Waits(c) /\ r.conn # c
    BY DEF Waits
  <2>1. i + 1 \in DOMAIN aWorkQue /\ aWorkQue[i + 1].conn = c /\ i + 1 # 1 BY <1>2
  <2> QED BY <1>2, <1>6, <2>1 DEF Waits, Alone
<1>9. Works(c)' => Works(c) \/ r.conn = c
  BY <1>3, <1>5 DEF Works
<1>10. Alone(c)'
  <2>1. ASSUME NEW i \in DOMAIN aWorkQue', NEW j \in DOMAIN aWorkQue',
               aWorkQue'[i].conn = c, aWorkQue'[j].conn = c
        PROVE  i = j
    <3>1. i + 1 = j + 1 BY <1>2, <1>6, <2>1 DEF Alone
    <3> QED BY <1>2, <3>1
  <2>2. ASSUME NEW u \in AWorkers, NEW v \in AWorkers, Mine(u, c)', Mine(v, c)'
        PROVE  u = v
    <3>1. CASE r.conn = c
      <4>1. u = w /\ v = w BY <1>3, <1>7, <2>2, <3>1 DEF Works
      <4> QED BY <4>1
    <3>2. CASE r.conn # c
      <4>1. u # w /\ v # w BY <1>5, <2>2, <3>2
      <4>2. Mine(u, c) /\ Mine(v, c) BY <1>3, <2>2, <4>1
      <4> QED BY <1>6, <4>2 DEF Alone
    <3> QED BY <3>1, <3>2
  <2>3. Len(aWire'[c]) <= 1 BY <1>6 DEF Alone
  <2>4. Waits(c)' => ~Works(c)' /\ aWire'[c] = <<>> BY <1>6, <1>8, <1>9 DEF Alone
  <2>5. Works(c)' => aWire'[c] = <<>> BY <1>6, <1>7, <1>9 DEF Alone
  <2> QED BY <2>1, <2>2, <2>3, <2>4, <2>5 DEF Alone
<1>11. ASSUME NEW v \in AWorkers, Mine(v, c)', aWorker'[v].at = "answer", aWorker'[v].ok
       PROVE  Serves(c, Req(v).user)'
  <2>1. v # w BY <1>1, <1>11
  <2>2. Serves(c, Req(v).user) BY <1>1, <1>3, <1>11, <2>1 DEF ServedInv
  <2> QED BY <1>3, <2>1, <2>2 DEF Serves
<1>12. ASSUME NEW i \in DOMAIN aWire[c], aWire[c][i].ok PROVE Serves(c, aWire[c][i].user)'
  BY <1>12 DEF ServedInv, Serves
<1>13. ASSUME ~aDialog[c].open
       PROVE  ~Waits(c)' /\ ~Works(c)' /\ aWire[c] = <<>> /\ Serves(c, aDialog[c].user)'
  BY <1>7, <1>8, <1>9, <1>13 DEF ServedInv, Serves
<1> QED BY <1>10, <1>11, <1>12, <1>13 DEF ServedInv, Serves

\* The answer leaves the thread and is the only one on its way.
LEMMA ServedAnswer ==
  ASSUME ATypes, NEW c \in AConns, ServedInv(c), NEW w \in AWorkers, AAnswer(w)
  PROVE  ServedInv(c)'
<1> USE DEF aClient
<1> SUFFICES ASSUME ~aHasty[c] PROVE ServedInv(c)'
  BY DEF ServedInv, AAnswer
<1> DEFINE m == [ok |-> aWorker[w].ok, user |-> IF aWorker[w].ok THEN Req(w).user ELSE Nobody]
<1>1. /\ Busy(w) /\ aWorker[w].at = "answer" /\ aWorker'[w] = Free
      /\ \A v \in AWorkers : v # w => aWorker'[v] = aWorker[v]
      /\ UNCHANGED <<aUsers, aWorkQue, aCon, aDialog, aHasty>>
  BY DEF AAnswer, AtTool, Busy, ATypes
<1>2. Req(w) \in AReq /\ aWorker[w] \in ABusy BY <1>1, BusyIs
<1>3. m \in AAnswers BY <1>2 DEF AReq, ABusy, AAnswers, AUser
<1>4. aWire' = [aWire EXCEPT ![Req(w).conn] = Append(@, m)] BY DEF AAnswer, Req
<1>5. m.ok = aWorker[w].ok /\ (m.ok => m.user = Req(w).user) OBVIOUS
<1> HIDE DEF m
<1>6. ASSUME NEW v \in AWorkers, v # w
      PROVE  Mine(v, c)' = Mine(v, c) /\ Req(v)' = Req(v) /\ aWorker'[v] = aWorker[v]
  BY <1>1, <1>6 DEF Mine, Busy, Req
<1>7. ~Mine(w, c)' BY <1>1 DEF Mine, Busy, Free
<1>8. Waits(c)' = Waits(c) BY <1>1 DEF Waits
<1>9. Alone(c) BY DEF ServedInv
<1>10. Works(c)' => Works(c) /\ ~Mine(w, c)
  <2> SUFFICES ASSUME NEW v \in AWorkers, Mine(v, c)' PROVE Works(c) /\ ~Mine(w, c)
    BY DEF Works
  <2>1. v # w /\ Mine(v, c) BY <1>6, <1>7
  <2> QED BY <1>9, <2>1 DEF Works, Alone
<1>11. \A v \in AWorkers : \A u \in AWorkers : Mine(u, c)' /\ Mine(v, c)' => u = v
  BY <1>6, <1>7, <1>9 DEF Alone
<1>12. ASSUME NEW v \in AWorkers, Mine(v, c)', aWorker'[v].at = "answer", aWorker'[v].ok
       PROVE  Serves(c, Req(v).user)'
  <2>1. v # w BY <1>7, <1>12
  <2>2. Serves(c, Req(v).user) BY <1>6, <1>12, <2>1 DEF ServedInv
  <2> QED BY <1>1, <1>6, <2>1, <2>2 DEF Serves
<1>13. ASSUME NEW user, Serves(c, user) PROVE Serves(c, user)'
  BY <1>1, <1>13 DEF Serves
<1>14. CASE ~Mine(w, c)
  <2>1. aWire'[c] = aWire[c]
    <3>1. Req(w).conn # c BY <1>1, <1>14 DEF Mine
    <3> QED BY <1>4, <3>1 DEF ATypes
  <2>2. Alone(c)' BY <1>1, <1>8, <1>9, <1>10, <1>11, <2>1 DEF Alone
  <2>3. ASSUME NEW i \in DOMAIN aWire[c], aWire[c][i].ok PROVE Serves(c, aWire[c][i].user)'
    BY <1>1, <2>1, <2>3 DEF ServedInv, Serves
  <2>4. ASSUME ~aDialog[c].open
        PROVE  ~Waits(c)' /\ ~Works(c)' /\ aWire[c] = <<>> /\ Serves(c, aDialog[c].user)'
    <3>1. ~Waits(c) /\ ~Works(c) /\ aWire[c] = <<>> /\ Serves(c, aDialog[c].user)
      BY <2>4 DEF ServedInv
    <3> QED BY <1>1, <1>8, <1>10, <3>1 DEF Serves
  <2> QED BY <1>1, <1>12, <2>1, <2>2, <2>3, <2>4 DEF ServedInv, Serves
<1>15. CASE Mine(w, c)
  <2>1. Req(w).conn = c /\ Works(c) /\ aWire[c] = <<>> /\ ~Waits(c)
    BY <1>9, <1>15 DEF Mine, Works, Alone
  <2>2. aWire'[c] = Append(<<>>, m) BY <1>4, <2>1 DEF ATypes
  <2>3. Len(aWire'[c]) = 1 /\ DOMAIN aWire'[c] = 1..1 /\ aWire'[c][1] = m
    BY <1>3, <2>2, AppendGives, EmptyHas
  <2>4. ~Waits(c)' /\ ~Works(c)' BY <1>8, <1>10, <1>15, <2>1
  <2>5. Alone(c)' BY <1>1, <1>9, <1>11, <2>3, <2>4 DEF Alone
  <2>6. ASSUME NEW i \in DOMAIN aWire'[c], aWire'[c][i].ok PROVE Serves(c, aWire[c][i].user)'
    <3>1. aWire'[c][i] = m BY <2>3
    <3>2. aWorker[w].ok /\ m.user = Req(w).user BY <1>5, <2>6, <3>1
    <3>3. Serves(c, Req(w).user) BY <1>1, <1>15, <3>2 DEF ServedInv
    <3> QED BY <1>1, <3>1, <3>2, <3>3 DEF Serves
  <2>7. aDialog[c].open BY <2>1 DEF ServedInv
  <2> QED BY <1>1, <1>12, <2>5, <2>6, <2>7 DEF ServedInv, Serves
<1> QED BY <1>14, <1>15

LEMMA ServedClick ==
  ASSUME ATypes, NEW c \in AConns, ServedInv(c), NEW d \in AConns, AClick(d)
  PROVE  ServedInv(c)'
<1> USE DEF aClient
<1> SUFFICES ASSUME ~aHasty'[c] PROVE ServedInv(c)'
  BY DEF ServedInv
<1>1. UNCHANGED <<aUsers, aWorker, aCon, aWire, aDialog>> /\ aDialog[d].open BY DEF AClick
<1>2. aHasty' = [aHasty EXCEPT ![d] = aHasty[d] \/ UnderWay(d)] BY DEF AClick
<1>3. ~aHasty[c] /\ (c = d => ~UnderWay(c))
  <2>1. CASE c = d BY <1>2, <2>1 DEF ATypes
  <2>2. CASE c # d BY <1>2, <2>2 DEF ATypes
  <2> QED BY <2>1, <2>2
<1>4. Alone(c) BY <1>3 DEF ServedInv
<1>5. PICK op \in {"SIGNIN", "SIGNUP"}, user \in ANames, pwd \in APwds :
        aWorkQue' = Append(aWorkQue, [conn |-> d, op |-> op, user |-> user, pwd |-> pwd])
  BY DEF AClick
<1> DEFINE r == [conn |-> d, op |-> op, user |-> user, pwd |-> pwd]
<1>6. r \in AReq /\ r.conn = d BY DEF AReq
<1>7. aWorkQue' = Append(aWorkQue, r) BY <1>5
<1> HIDE DEF r
<1> DEFINE n == Len(aWorkQue)
<1>8. /\ DOMAIN aWorkQue = 1..n /\ n \in Nat /\ DOMAIN aWorkQue' = 1..(n + 1)
      /\ aWorkQue'[n + 1] = r /\ \A i \in 1..n : aWorkQue'[i] = aWorkQue[i]
  BY <1>6, <1>7, AppendGives DEF ATypes
<1> HIDE DEF n
<1>9. \A i \in 1..(n + 1) : i \in 1..n \/ i = n + 1 BY <1>8
<1>10. c = d => ~Waits(c) /\ ~Works(c) /\ aWire[c] = <<>>
  BY <1>3 DEF UnderWay, Waits, Works, Mine, Busy, AtTool, Req
<1>11. Works(c)' = Works(c) BY <1>1 DEF Works, Mine, Busy, Req
<1>12. c # d => Waits(c)' = Waits(c)
  <2> SUFFICES ASSUME c # d PROVE Waits(c)' = Waits(c)
    OBVIOUS
  <2>1. ASSUME Waits(c) PROVE Waits(c)'
    BY <1>8, <2>1 DEF Waits
  <2>2. ASSUME Waits(c)' PROVE Waits(c)
    <3>1. PICK i \in 1..(n + 1) : aWorkQue'[i].conn = c BY <1>8, <2>2 DEF Waits
    <3>2. i # n + 1 BY <1>6, <1>8, <3>1
    <3>3. i \in 1..n BY <1>9, <3>2
    <3> QED BY <1>8, <3>1, <3>3 DEF Waits
  <2>3. Waits(c) \in BOOLEAN /\ Waits(c)' \in BOOLEAN BY DEF Waits
  <2> QED BY <2>1, <2>2, <2>3
<1>13. ASSUME NEW i \in DOMAIN aWorkQue', NEW j \in DOMAIN aWorkQue',
              aWorkQue'[i].conn = c, aWorkQue'[j].conn = c
       PROVE  i = j
  <2>1. CASE c = d
    <3>1. i = n + 1 /\ j = n + 1
      BY <1>8, <1>9, <1>10, <1>13, <2>1 DEF Waits
    <3> QED BY <3>1
  <2>2. CASE c # d
    <3>1. i # n + 1 /\ j # n + 1 BY <1>6, <1>8, <1>13, <2>2
    <3>2. i \in 1..n /\ j \in 1..n BY <1>8, <1>9, <1>13, <3>1
    <3> QED BY <1>4, <1>8, <1>13, <3>2 DEF Alone
  <2> QED BY <2>1, <2>2
<1>14. \A u, v \in AWorkers : Mine(u, c)' /\ Mine(v, c)' => u = v
  BY <1>1, <1>4 DEF Alone, Mine, Busy, Req
<1>15. Len(aWire'[c]) <= 1 /\ (Works(c)' => aWire'[c] = <<>>) BY <1>1, <1>4, <1>11 DEF Alone
<1>16. Waits(c)' => ~Works(c)' /\ aWire'[c] = <<>>
  BY <1>1, <1>4, <1>10, <1>11, <1>12 DEF Alone
<1>17. Alone(c)' BY <1>13, <1>14, <1>15, <1>16 DEF Alone
<1>18. \A w \in AWorkers :
         Mine(w, c)' /\ aWorker'[w].at = "answer" /\ aWorker'[w].ok => Serves(c, Req(w).user)'
  BY <1>1, <1>3 DEF ServedInv, Serves, Mine, Busy, Req
<1>19. \A i \in DOMAIN aWire'[c] : aWire'[c][i].ok => Serves(c, aWire[c][i].user)'
  BY <1>1, <1>3 DEF ServedInv, Serves
<1>20. ~aDialog'[c].open =>
         /\ ~Waits(c)' /\ ~Works(c)' /\ aWire'[c] = <<>>
         /\ Serves(c, aDialog[c].user)'
  BY <1>1, <1>3, <1>11, <1>12 DEF ServedInv, Serves
<1> QED BY <1>17, <1>18, <1>19, <1>20 DEF ServedInv

\* The answer closes the dialog it was sent to.
LEMMA ServedRecv ==
  ASSUME ATypes, NEW c \in AConns, ServedInv(c), NEW d \in AConns, ARecv(d)
  PROVE  ServedInv(c)'
<1>1. /\ UNCHANGED <<aUsers, aWorkQue, aWorker, aCon, aHasty>>
      /\ aWire' = [aWire EXCEPT ![d] = Tail(@)]
      /\ aWire[d] # <<>> /\ aDialog[d].open
  BY DEF ARecv
<1> SUFFICES ASSUME ~aHasty[c] PROVE ServedInv(c)'
  BY <1>1 DEF ServedInv
<1>2. Waits(c)' = Waits(c) /\ Works(c)' = Works(c) BY <1>1 DEF Waits, Works, Mine, Busy, Req
<1>3. \A v \in AWorkers : Mine(v, c)' = Mine(v, c) BY <1>1 DEF Mine, Busy, Req
<1>4. Alone(c) BY DEF ServedInv
<1>5. \A w \in AWorkers :
         Mine(w, c)' /\ aWorker'[w].at = "answer" /\ aWorker'[w].ok => Serves(c, Req(w).user)'
  BY <1>1 DEF ServedInv, Serves, Mine, Busy, Req
<1>6. CASE c # d
  <2>1. aWire'[c] = aWire[c] /\ aDialog'[c] = aDialog[c]
    BY <1>1, <1>6 DEF ARecv, ATypes
  <2>2. Alone(c)' BY <1>1, <1>2, <1>3, <1>4, <2>1 DEF Alone
  <2>3. \A i \in DOMAIN aWire'[c] : aWire'[c][i].ok => Serves(c, aWire[c][i].user)'
    BY <1>1, <2>1 DEF ServedInv, Serves
  <2>4. ~aDialog'[c].open =>
         /\ ~Waits(c)' /\ ~Works(c)' /\ aWire'[c] = <<>>
         /\ Serves(c, aDialog[c].user)'
    BY <1>1, <1>2, <2>1 DEF ServedInv, Serves
  <2> QED BY <1>5, <2>2, <2>3, <2>4 DEF ServedInv
<1>7. CASE c = d
  <2>1. aWire[c] \in Seq(AAnswers) BY DEF ATypes
  <2>2. aWire'[c] = Tail(aWire[c]) BY <1>1, <1>7 DEF ATypes
  <2>3. aWire'[c] = <<>> BY <1>1, <1>4, <1>7, <2>1, <2>2, OneIsLast DEF Alone
  <2>4. ~Waits(c) /\ ~Works(c) BY <1>1, <1>4, <1>7 DEF Alone
  <2>5. Len(aWire'[c]) <= 1 /\ DOMAIN aWire'[c] = {} BY <2>3, EmptyHas
  <2>6. Alone(c)' BY <1>1, <1>2, <1>3, <1>4, <2>3, <2>4, <2>5 DEF Alone
  <2>7. ASSUME ~aDialog'[c].open PROVE Serves(c, aDialog[c].user)'
    <3>1. Head(aWire[c]).ok /\ aDialog'[c].user = Head(aWire[c]).user
      <4>1. CASE Head(aWire[c]).ok
        <5>1. aDialog'[c] = [open |-> FALSE, user |-> Head(aWire[c]).user]
          BY <1>7, <4>1 DEF ARecv, ATypes
        <5> QED BY <4>1, <5>1
      <4>2. CASE ~Head(aWire[c]).ok
        <5>1. aDialog' = aDialog BY <1>7, <4>2 DEF ARecv
        <5> QED BY <1>1, <1>7, <2>7, <5>1
      <4> QED BY <4>1, <4>2
    <3>2. Head(aWire[c]) = aWire[c][1] /\ 1 \in DOMAIN aWire[c] BY <1>1, <1>7, <2>1, TailGives
    <3>3. Serves(c, Head(aWire[c]).user) BY <3>1, <3>2 DEF ServedInv
    <3> QED BY <1>1, <3>1, <3>3 DEF Serves
  <2> QED BY <1>2, <1>5, <2>3, <2>4, <2>5, <2>6, <2>7 DEF ServedInv
<1> QED BY <1>6, <1>7

LEMMA ServedStep ==
  ASSUME ATypes, OwnInv, NEW c \in AConns, ServedInv(c), [ANext]_aVars
  PROVE  ServedInv(c)'
<1> USE DEF aClient
<1>1. ASSUME NEW w \in AWorkers, ASignIn(w) PROVE ServedInv(c)'
  <2>1. PICK at \in {"init", "answer"}, ok \in BOOLEAN :
          ATake(w, "SIGNIN") /\ Begin(w, at, ok) /\ (at = "answer" => ~ok)
    BY <1>1, SignInIs
  <2>2. UNCHANGED <<aUsers, aCon, aWire, aDialog, aHasty>> BY <1>1 DEF ASignIn
  <2> QED BY <2>1, <2>2, ServedTake
<1>2. ASSUME NEW w \in AWorkers, AGetUserExist(w) PROVE ServedInv(c)'
  <2>1. PICK at \in {"insert", "answer"} : ATake(w, "SIGNUP") /\ Begin(w, at, FALSE)
    BY <1>2, ExistIs
  <2>2. UNCHANGED <<aUsers, aCon, aWire, aDialog, aHasty>> BY <1>2 DEF AGetUserExist
  <2> QED BY <2>1, <2>2, ServedTake
<1>3. ASSUME NEW w \in AWorkers, AInsertUser(w) PROVE ServedInv(c)'
  <2>1. Busy(w) /\ UNCHANGED <<aWorkQue, aCon, aWire, aDialog, aHasty>>
    BY <1>3 DEF AInsertUser, AtTool, Busy
  <2>2. CASE Req(w).user \in DOMAIN aUsers
    <3>1. AGoto(w, "answer", FALSE) /\ aUsers' = aUsers BY <1>3, <2>2 DEF AInsertUser, Req
    <3>2. /\ aWorker'[w].at = "answer" /\ aWorker'[w].ok = FALSE /\ Req(w)' = Req(w)
          /\ \A v \in AWorkers : v # w => aWorker'[v] = aWorker[v]
      BY <2>1, <3>1, GotoIs DEF Req
    <3> QED BY <2>1, <3>1, <3>2, ServedGoto
  <2>3. CASE Req(w).user \notin DOMAIN aUsers
    <3>1. AGoto(w, "folder", TRUE) /\ DOMAIN aUsers \subseteq DOMAIN aUsers'
      BY <1>3, <2>3 DEF AInsertUser, Req
    <3>2. /\ aWorker'[w].at = "folder" /\ Req(w)' = Req(w)
          /\ \A v \in AWorkers : v # w => aWorker'[v] = aWorker[v]
      BY <2>1, <3>1, GotoIs DEF Req
    <3> QED BY <2>1, <3>1, <3>2, ServedGoto
  <2> QED BY <2>2, <2>3
<1>4. ASSUME NEW w \in AWorkers, ACreateDir(w) PROVE ServedInv(c)'
  <2>1. Busy(w) /\ UNCHANGED <<aUsers, aWorkQue, aCon, aWire, aDialog, aHasty>>
    BY <1>4 DEF ACreateDir, AtTool, Busy
  <2>2. CASE MakesDir(w)
    <3>1. /\ aWorker'[w].at = "init" /\ Req(w)' = Req(w)
          /\ \A v \in AWorkers : v # w => aWorker'[v] = aWorker[v]
      BY <2>1, <2>2, GotoIs DEF Req, MakesDir
    <3> QED BY <2>1, <3>1, ServedGoto
  <2>3. CASE FailsDir(w)
    <3>1. /\ aWorker'[w].at = "answer" /\ aWorker'[w].ok = FALSE /\ Req(w)' = Req(w)
          /\ \A v \in AWorkers : v # w => aWorker'[v] = aWorker[v]
      BY <2>1, <2>3, GotoIs DEF Req, FailsDir
    <3> QED BY <2>1, <3>1, ServedGoto
  <2> QED BY <1>4, <2>2, <2>3, DirEither
<1>5. ASSUME NEW w \in AWorkers, AInitCon(w) PROVE ServedInv(c)'
  <2>1. /\ Busy(w) /\ aWorker[w].at = "init" /\ AGoto(w, "answer", TRUE)
        /\ UNCHANGED <<aUsers, aWorkQue, aWire, aDialog, aHasty>>
        /\ aCon' = [aCon EXCEPT ![Req(w).conn] = [verified |-> TRUE, user |-> Req(w).user]]
    BY <1>5 DEF AInitCon, AtTool, Busy, Req
  <2>2. /\ aWorker'[w].at = "answer" /\ Req(w)' = Req(w)
        /\ \A v \in AWorkers : v # w => aWorker'[v] = aWorker[v]
    BY <2>1, GotoIs DEF Req
  <2>3. Req(w).user \in DOMAIN aUsers BY <2>1 DEF OwnInv, Named
  <2>4. CASE Req(w).conn # c
    <3>1. aCon'[c] = aCon[c] /\ ~Mine(w, c) BY <2>1, <2>4 DEF ATypes, Mine
    <3> QED BY <2>1, <2>2, <3>1, ServedGoto
  <2>5. CASE Req(w).conn = c
    <3>1. Mine(w, c) BY <2>1, <2>5 DEF Mine
    <3>2. aCon'[c] = [verified |-> TRUE, user |-> Req(w).user] BY <2>1, <2>5 DEF ATypes
    <3>3. Serves(c, Req(w).user)' BY <2>1, <2>2, <2>3, <3>2 DEF Serves
    <3> QED BY <2>1, <2>2, <3>1, <3>3, ServedGoto
  <2> QED BY <2>4, <2>5
<1>6. ASSUME NEW w \in AWorkers, AAnswer(w) PROVE ServedInv(c)'
  BY <1>6, ServedAnswer
<1>7. ASSUME NEW d \in AConns, AClick(d) PROVE ServedInv(c)'
  BY <1>7, ServedClick
<1>8. ASSUME NEW d \in AConns, ARecv(d) PROVE ServedInv(c)'
  BY <1>8, ServedRecv
<1>9. CASE UNCHANGED aVars
  BY <1>9, Zenon DEF aVars, ServedInv, Alone, Waits, Works, Mine, Busy, Req, Serves
<1> QED BY <1>1, <1>2, <1>3, <1>4, <1>5, <1>6, <1>7, <1>8, <1>9 DEF ANext

LEMMA InitServed == ASSUME AInit, NEW c \in AConns PROVE ServedInv(c)
<1>1. Len(aWire[c]) = 0 /\ aWire[c] = <<>> /\ DOMAIN aWire[c] = {} /\ DOMAIN aWorkQue = {}
  BY EmptyHas DEF AInit
<1>2. ~Waits(c) /\ ~Works(c) /\ \A w \in AWorkers : ~Mine(w, c)
  BY <1>1 DEF AInit, Waits, Works, Mine, Busy, Free
<1>3. Alone(c) BY <1>1, <1>2 DEF Alone
<1> QED BY <1>1, <1>2, <1>3 DEF ServedInv, AInit

\* A client whose dialog has closed, and that waited for each of its answers, is
\* served by its connection as the user whom it shows.
THEOREM ServedAsShown == ASpec => []AServedAs
<1>1. AInit => AInv BY AccountInitTypes, InitOwn, InitServed DEF AInv
<1>2. AInv /\ [ANext]_aVars => AInv' BY StepTypes, OwnStep, ServedStep DEF AInv
<1>3. AInv => AServedAs BY DEF AInv, ServedInv, Serves, AServedAs
<1> QED BY <1>1, <1>2, <1>3, PTL DEF ASpec

-----------------------------------------------------------------------------
(* Session: types *)

Rows   == [id : SIds, kind : {"file", "d"}, parent : SIds \cup {0}]
AnyRow == Rows \cup [id : SIds \cup {0}, kind : {"none", "d"}, parent : SIds \cup {0}]
Dirs   == {r \in Rows : r.kind = "d"}
Lists  == {R \in Seq(Rows) : Len(R) <= SMaxId}

Requests == [op : {"CD", "MAKEDIR", "DELETE"}, row : AnyRow]

Answers ==
  [type : {"MAKEDIR"}, ok : {TRUE}, cnt : {0}, row : Dirs]
    \cup [type : {"MAKEDIR", "DELETE"}, ok : {FALSE}, cnt : {0}, row : {NoRow}]
    \cup [type : {"DELETE"}, ok : BOOLEAN, cnt : {0}, row : {NoRow}]
Counts   == [type : {"CD"}, ok : BOOLEAN, cnt : 0..SMaxId, row : {NoRow}]
RowMsgs  == [type : {"ROW"}, ok : {TRUE}, cnt : {0}, row : Rows]
Messages == Answers \cup Counts \cup RowMsgs

Jobs ==
  [at : {"idle", "endless"}, rows : {<<>>}]
    \cup [at : {"answer", "rows"}, rows : Lists]
    \cup [at : {"reply"}, rows : {<<m>> : m \in Answers}]

Signals ==
  [signal : {"list"}, rows : Seq(Rows)]
    \cup [signal : {"made"}, rows : {<<r>> : r \in Dirs}]
    \cup [signal : {"deleted"}, rows : {<<>>}]

ServerTypes ==
  /\ sTable \subseteq Rows /\ \A q, r \in sTable : q.id = r.id => q = r
  /\ sWorkQue \in Seq(Requests) /\ sWorker \in [SWorkers -> Jobs]
  /\ sWire \in Seq(Messages)

\* What is collected and what is still expected are one list.
TaskTypes ==
  /\ sCnt \in Nat /\ sVet \in Seq(Rows) /\ sCnt + Len(sVet) <= SMaxId
  /\ sGui \in Seq(Signals)

ViewTypes ==
  /\ sItems \in Seq(Rows) /\ sShown \subseteq DOMAIN sItems
  /\ sCur \in SIds \cup {0} /\ sMap \subseteq Dirs /\ sHere \in sMap \cup {NoRow}
  /\ sHasty \in BOOLEAN /\ sBehind \in BOOLEAN

STypes == ServerTypes /\ TaskTypes /\ ViewTypes

-----------------------------------------------------------------------------
(* Sequences, rows and jobs *)

LEMMA EmptyIsLenZero == ASSUME NEW S, NEW s \in Seq(S) PROVE Len(s) = 0 <=> s = <<>>
  OBVIOUS

\* What is left of a sequence without its head.
LEMMA TailIs ==
  ASSUME NEW S, NEW s \in Seq(S), s # <<>>
  PROVE  /\ Tail(s) \in Seq(S) /\ Len(Tail(s)) = Len(s) - 1 /\ Len(s) \in Nat \ {0}
         /\ Head(s) = s[1] /\ Head(s) \in S
         /\ \A i \in 1..(Len(s) - 1) : Tail(s)[i] = s[i + 1]
  OBVIOUS

\* A sequence joined to another.
LEMMA JoinIs ==
  ASSUME NEW S, NEW s \in Seq(S), NEW t \in Seq(S)
  PROVE  /\ s \o t \in Seq(S) /\ Len(s \o t) = Len(s) + Len(t)
         /\ \A i \in 1..Len(s) : (s \o t)[i] = s[i]
         /\ \A i \in 1..Len(t) : (s \o t)[Len(s) + i] = t[i]
  OBVIOUS

LEMMA AppendIs ==
  ASSUME NEW S, NEW s \in Seq(S), NEW e \in S
  PROVE  /\ Append(s, e) \in Seq(S) /\ Len(Append(s, e)) = Len(s) + 1
         /\ \A i \in 1..Len(s) : Append(s, e)[i] = s[i]
         /\ Append(s, e)[Len(s) + 1] = e
  OBVIOUS

LEMMA OneIs == ASSUME NEW S, NEW e \in S PROVE <<e>> \in Seq(S) /\ Len(<<e>>) = 1 /\ <<e>>[1] = e
  OBVIOUS

LEMMA FunctionIsSeq ==
  ASSUME NEW n \in Nat, NEW S, NEW f \in [1..n -> S] PROVE f \in Seq(S) /\ Len(f) = n
  OBVIOUS

\* sendFileInfo's messages.
LEMMA RowsAsMessages ==
  ASSUME NEW R \in Seq(Rows)
  PROVE  LET ms == [i \in DOMAIN R |-> Msg("ROW", TRUE, 0, R[i])]
         IN  /\ ms \in Seq(Messages) /\ Len(ms) = Len(R)
             /\ \A i \in 1..Len(R) : ms[i] = Msg("ROW", TRUE, 0, R[i])
  <1> DEFINE ms == [i \in 1..Len(R) |-> Msg("ROW", TRUE, 0, R[i])]
  <1>1. Len(R) \in Nat /\ DOMAIN R = 1..Len(R)
    OBVIOUS
  <1>2. \A i \in 1..Len(R) : Msg("ROW", TRUE, 0, R[i]) \in Messages
    BY DEF Msg, Messages, RowMsgs
  <1>3. ms \in [1..Len(R) -> Messages]
    BY <1>2
  <1> HIDE DEF ms
  <1>4. ms \in Seq(Messages) /\ Len(ms) = Len(R)
    BY <1>1, <1>3, FunctionIsSeq
  <1>5. \A i \in 1..Len(R) : ms[i] = Msg("ROW", TRUE, 0, R[i])
    BY DEF ms
  <1>6. [i \in DOMAIN R |-> Msg("ROW", TRUE, 0, R[i])] = ms
    BY <1>1, Zenon DEF ms
  <1> QED
    BY <1>4, <1>5, <1>6

LEMMA FiniteTable ==
  ASSUME ServerTypes
  PROVE  IsFiniteSet(sTable) /\ Cardinality(sTable) \in 0..SMaxId
  <1> DEFINE f == [r \in sTable |-> r.id]
  <1>1. IsFiniteSet(SIds) /\ Cardinality(SIds) = SMaxId
    BY FS_Interval, SessionAssumption DEF SIds
  <1>2. f \in [sTable -> SIds]
    BY DEF ServerTypes, Rows
  <1>3. \A q, r \in sTable : f[q] = f[r] => q = r
    BY DEF ServerTypes
  <1>4. f \in Injection(sTable, SIds)
    BY <1>2, <1>3 DEF Injection, IsInjective
  <1>5. IsFiniteSet(sTable) /\ Cardinality(sTable) <= SMaxId
    BY <1>1, <1>4, FS_Injection
  <1> QED
    BY <1>5, FS_CardinalityType, SessionAssumption

\* The rows of a table in a row, each once; or none, of a query that has failed.
Listing(R) ==
  R \in Lists /\ (R = <<>> \/ (ToSet(R) = sTable /\ Len(R) = Cardinality(sTable)))

LEMMA SelectLists ==
  ASSUME ServerTypes, NEW R \in SetToSeqs(sTable) \cup {<<>>}
  PROVE  Listing(R)
  <1>1. <<>> \in Lists
    BY SessionAssumption DEF Lists
  <1> SUFFICES ASSUME R # <<>> PROVE Listing(R)
    BY <1>1, Zenon DEF Listing
  <1> DEFINE n == Cardinality(sTable)
  <1>2. IsFiniteSet(sTable) /\ n \in 0..SMaxId
    BY FiniteTable
  <1>3. R \in SetToSeqs(sTable)
    <2>1. \A S, x : x \in S \cup {<<>>} /\ x # <<>> => x \in S
      OBVIOUS
    <2> QED
      BY <2>1, Zenon
  <1>4. R \in [1..n -> sTable] /\ \A i, j \in 1..n : i # j => R[i] # R[j]
    BY <1>3, Zenon DEF SetToSeqs
  <1>5. R \in Injection(1..n, sTable)
    BY <1>4 DEF Injection, IsInjective
  <1>6. IsFiniteSet(1..n) /\ Cardinality(1..n) = n
    BY <1>2, FS_Interval, SessionAssumption
  <1>7. R \in Surjection(1..n, sTable)
    BY <1>2, <1>5, <1>6, FS_Injection
  <1>8. ToSet(R) = sTable
    BY <1>4, <1>7 DEF Surjection, ToSet
  <1>9. R \in Seq(Rows) /\ Len(R) = n
    BY <1>2, <1>4, SessionAssumption DEF ServerTypes
  <1> QED
    BY <1>2, <1>8, <1>9, SessionAssumption DEF Listing, Lists

LEMMA NewJob ==
  ASSUME sWorker \in [SWorkers -> Jobs], NEW w \in SWorkers, NEW j \in Jobs,
         sWorker' = [sWorker EXCEPT ![w] = j]
  PROVE  /\ sWorker' \in [SWorkers -> Jobs] /\ sWorker'[w] = j
         /\ \A v \in SWorkers \ {w} : sWorker'[v] = sWorker[v]
  OBVIOUS

\* What a thread has, by its step.
LEMMA JobIs ==
  ASSUME NEW j \in Jobs
  PROVE  /\ j.at \in {"answer", "rows"} => j.rows \in Lists
         /\ j.at = "reply" => \E m \in Answers : j.rows = <<m>>
         /\ j.at \in {"idle", "endless"} => j.rows = <<>>
  BY DEF Jobs

LEMMA IdleIs == Idle \in Jobs /\ Idle.at = "idle"
  BY DEF Idle, Jobs

LEMMA SessionTakeIs ==
  ASSUME STypes, NEW w \in SWorkers, NEW op, Take(w, op)
  PROVE  /\ Tail(sWorkQue) \in Seq(Requests) /\ Asked \in AnyRow
         /\ sWorker[w] = Idle /\ sWorkQue # <<>>
  <1>1. Tail(sWorkQue) \in Seq(Requests) /\ Head(sWorkQue) \in Requests
    BY TailIs DEF Take, STypes, ServerTypes
  <1> QED
    BY <1>1 DEF Take, Asked, Requests

-----------------------------------------------------------------------------
(* Types are kept *)

LEMMA SessionInitTypes == SInit => STypes
  <1> SUFFICES ASSUME SInit PROVE STypes
    OBVIOUS
  <1>1. SIds = 1..SMaxId /\ 1 \in SIds /\ 2 \in SIds
    BY SessionAssumption DEF SIds
  <1>2. sTable \subseteq Rows /\ \A q, r \in sTable : q.id = r.id => q = r
    BY <1>1 DEF SInit, SRow, Rows
  <1>3. SRequest("CD", NoRow) \in Requests
    BY DEF SRequest, NoRow, SRow, Requests, AnyRow
  <1>4. sWorkQue \in Seq(Requests)
    BY <1>3, OneIs DEF SInit
  <1>5. sWorker \in [SWorkers -> Jobs]
    BY IdleIs DEF SInit
  <1>6. sWire \in Seq(Messages) /\ sVet \in Seq(Rows) /\ sGui \in Seq(Signals) /\ sItems \in Seq(Rows)
    BY DEF SInit
  <1>7. sCnt \in Nat /\ sCnt + Len(sVet) <= SMaxId
    BY SessionAssumption DEF SInit
  <1>8. ViewTypes
    BY <1>6 DEF SInit, ViewTypes
  <1> QED
    BY <1>2, <1>4, <1>5, <1>6, <1>7, <1>8 DEF STypes, ServerTypes, TaskTypes

\* Everything but the server's part.
ServerAlone == UNCHANGED <<sTask, sGui, sView, sUser>>

LEMMA RestTypes == STypes /\ ServerAlone /\ sBehind' \in BOOLEAN /\ ServerTypes' => STypes'
  BY DEF STypes, ServerAlone, TaskTypes, ViewTypes, sTask, sView, sUser

LEMMA BehindType ==
  ASSUME STypes, UNCHANGED sBehind \/ \E b \in BOOLEAN : FailsWith(b)
  PROVE  sBehind' \in BOOLEAN
  <1>1. sBehind \in BOOLEAN
    BY DEF STypes, ViewTypes
  <1>2. ASSUME NEW b \in BOOLEAN, sBehind' = (sBehind \/ b) PROVE sBehind' \in BOOLEAN
    BY <1>2, Zenon
  <1> QED
    BY <1>1, <1>2, Zenon DEF FailsWith

LEMMA SelectTypes ==
  ASSUME STypes, NEW w \in SWorkers, SCdSelect(w)
  PROVE  STypes'
  <1>1. PICK R \in SetToSeqs(sTable) \cup {<<>>} :
          sWorker' = [sWorker EXCEPT ![w] = [at |-> "answer", rows |-> R]]
    BY DEF SCdSelect
  <1>2. R \in Lists
    BY <1>1, SelectLists DEF STypes, Listing
  <1>3. [at |-> "answer", rows |-> R] \in Jobs
    BY <1>2 DEF Jobs
  <1>4. sWorker' \in [SWorkers -> Jobs]
    BY <1>1, <1>3, NewJob DEF STypes, ServerTypes
  <1>5. sWorkQue' \in Seq(Requests) /\ UNCHANGED <<sTable, sWire>> /\ ServerAlone /\ UNCHANGED sBehind
    BY SessionTakeIs DEF SCdSelect, ServerAlone
  <1>6. ServerTypes'
    BY <1>4, <1>5 DEF STypes, ServerTypes
  <1> QED
    BY <1>5, <1>6, RestTypes, BehindType

LEMMA AnswerTypes ==
  ASSUME STypes, NEW w \in SWorkers, SCdAnswer(w)
  PROVE  STypes'
  <1> DEFINE R == sWorker[w].rows
             m == Msg("CD", R # <<>>, Len(R), NoRow)
  <1>1. sWorker[w] \in Jobs /\ sWorker[w].at = "answer"
    BY DEF STypes, ServerTypes, SCdAnswer
  <1>2. R \in Lists
    BY <1>1, JobIs
  <1>3. (R # <<>>) \in BOOLEAN /\ Len(R) \in 0..SMaxId
    BY <1>2, SessionAssumption DEF Lists
  <1>4. m \in Messages
    BY <1>3 DEF Msg, Messages, Counts
  <1>5. sWire' \in Seq(Messages)
    BY <1>4, AppendIs DEF SCdAnswer, STypes, ServerTypes
  <1>6. sWorker' \in [SWorkers -> Jobs]
    <2>1. [sWorker[w] EXCEPT !.at = "rows"] = [at |-> "rows", rows |-> R]
      BY <1>1 DEF Jobs
    <2>2. [sWorker[w] EXCEPT !.at = "rows"] \in Jobs
      BY <1>2, <2>1 DEF Jobs
    <2>3. CASE R = <<>>
      BY <2>3, IdleIs, NewJob DEF SCdAnswer, STypes, ServerTypes
    <2>4. CASE R # <<>>
      BY <2>2, <2>4, NewJob DEF SCdAnswer, STypes, ServerTypes
    <2> QED
      BY <2>3, <2>4
  <1>7. UNCHANGED <<sTable, sWorkQue>> /\ ServerAlone /\ UNCHANGED sBehind
    BY DEF SCdAnswer, ServerAlone
  <1>8. ServerTypes'
    BY <1>5, <1>6, <1>7 DEF STypes, ServerTypes
  <1> QED
    BY <1>7, <1>8, RestTypes, BehindType

LEMMA SendTypes ==
  ASSUME STypes, NEW w \in SWorkers, SSendFileInfo(w)
  PROVE  STypes'
  <1> DEFINE R == sWorker[w].rows
  <1>1. R \in Seq(Rows)
    BY JobIs DEF STypes, ServerTypes, SSendFileInfo, Lists
  <1>2. sWire' \in Seq(Messages)
    BY <1>1, RowsAsMessages, JoinIs DEF SSendFileInfo, STypes, ServerTypes
  <1>3. sWorker' \in [SWorkers -> Jobs]
    BY IdleIs, NewJob DEF SSendFileInfo, STypes, ServerTypes
  <1>4. UNCHANGED <<sTable, sWorkQue>> /\ ServerAlone /\ UNCHANGED sBehind
    BY DEF SSendFileInfo, ServerAlone
  <1>5. ServerTypes'
    BY <1>2, <1>3, <1>4 DEF STypes, ServerTypes
  <1> QED
    BY <1>4, <1>5, RestTypes, BehindType

LEMMA ReplyTypes ==
  ASSUME STypes, NEW w \in SWorkers, NEW m \in Answers, Reply(w, m)
  PROVE  sWorker' \in [SWorkers -> Jobs]
  <1>1. [at |-> "reply", rows |-> <<m>>] \in Jobs
    BY DEF Jobs
  <1> QED
    BY <1>1, NewJob DEF Reply, STypes, ServerTypes

LEMMA CreateTypes ==
  ASSUME STypes, NEW w \in SWorkers, SCreateDir(w)
  PROVE  STypes'
  <1>1. sWorkQue' \in Seq(Requests) /\ Asked \in AnyRow /\ UNCHANGED sWire /\ ServerAlone
    BY SessionTakeIs DEF SCreateDir, ServerAlone
  <1>2. Msg("MAKEDIR", FALSE, 0, NoRow) \in Answers
    BY DEF Msg, Answers
  <1>3. ASSUME NEW id \in SIds, \A r \in sTable : r.id < id,
               sTable' = sTable \cup {SRow(id, "d", Asked.parent)},
               \/ Reply(w, Msg("MAKEDIR", TRUE, 0, SRow(id, "d", Asked.parent))) /\ UNCHANGED sBehind
               \/ Reply(w, Msg("MAKEDIR", FALSE, 0, NoRow)) /\ FailsWith(TRUE)
        PROVE  ServerTypes' /\ sBehind' \in BOOLEAN
    <2>1. SRow(id, "d", Asked.parent) \in Dirs
      BY <1>1 DEF SRow, Rows, Dirs, AnyRow
    <2>2. Msg("MAKEDIR", TRUE, 0, SRow(id, "d", Asked.parent)) \in Answers
      BY <2>1 DEF Msg, Answers
    <2>3. sWorker' \in [SWorkers -> Jobs]
      BY <1>2, <1>3, <2>2, ReplyTypes
    <2>4. sTable' \subseteq Rows
      BY <1>3, <2>1 DEF STypes, ServerTypes, Dirs
    <2>5. \A r \in sTable : r.id # id
      BY <1>3, SessionAssumption DEF STypes, ServerTypes, Rows, SIds
    <2>6. \A q, r \in sTable' : q.id = r.id => q = r
      BY <1>3, <2>5 DEF STypes, ServerTypes, SRow
    <2>7. sBehind' \in BOOLEAN
      BY <1>3, BehindType
    <2> QED
      BY <1>1, <2>3, <2>4, <2>6, <2>7 DEF STypes, ServerTypes
  <1>4. ASSUME Reply(w, Msg("MAKEDIR", FALSE, 0, NoRow)), UNCHANGED <<sTable, sBehind>>
        PROVE  ServerTypes' /\ sBehind' \in BOOLEAN
    <2>1. sWorker' \in [SWorkers -> Jobs]
      BY <1>2, <1>4, ReplyTypes
    <2> QED
      BY <1>1, <1>4, <2>1, BehindType DEF STypes, ServerTypes
  <1>5. ServerTypes' /\ sBehind' \in BOOLEAN
    BY <1>3, <1>4 DEF SCreateDir
  <1> QED
    BY <1>1, <1>5, RestTypes

\* What a deletion comes to: an answer, with or without a change behind a failure; or
\* none, from a thread that does not come back.
LEMMA DeleteIs ==
  ASSUME STypes, NEW w \in SWorkers, SDeleteTool(w)
  PROVE  \E gone \in SUBSET sTable :
           \/ \E ok \in BOOLEAN : SDeleted(w, gone, ok)
           \/ /\ sTable' = sTable \ gone /\ UNCHANGED sBehind
              /\ sWorker' = [sWorker EXCEPT ![w].at = "endless"]
  <1>1. CASE Asked.kind = "d"
    <2>1. SDeleteOneDir(w, Asked.id)
      BY <1>1 DEF SDeleteTool
    <2>2. \A gone \in HalfGone(Asked.id) : gone \in SUBSET sTable
      BY DEF HalfGone
    <2>3. {r \in sTable : r.id \in {Asked.id} \cup Under(Asked.id)} \in SUBSET sTable
      OBVIOUS
    <2>4. CASE SDeleted(w, {r \in sTable : r.id \in {Asked.id} \cup Under(Asked.id)}, TRUE)
      BY <2>3, <2>4
    <2>5. CASE \E gone \in HalfGone(Asked.id) : SDeleted(w, gone, FALSE)
      BY <2>2, <2>5
    <2>6. CASE /\ \E gone \in HalfGone(Asked.id) : sTable' = sTable \ gone
               /\ sWorker' = [sWorker EXCEPT ![w].at = "endless"] /\ UNCHANGED sBehind
      BY <2>2, <2>6
    <2> QED
      BY <2>1, <2>4, <2>5, <2>6 DEF SDeleteOneDir
  <1>2. CASE Asked.kind # "d"
    <2>1. SDeleteOneFile(w, Asked.id)
      BY <1>2 DEF SDeleteTool
    <2>2. PICK gone \in SUBSET {r \in sTable : r.id = Asked.id /\ r.kind # "d"}, ok \in BOOLEAN :
            SDeleted(w, gone, ok)
      BY <2>1 DEF SDeleteOneFile
    <2>3. gone \in SUBSET sTable
      BY <2>2
    <2> QED
      BY <2>2, <2>3
  <1> QED
    BY <1>1, <1>2

LEMMA DeleteTypes ==
  ASSUME STypes, NEW w \in SWorkers, SDeleteTool(w)
  PROVE  STypes'
  <1>1. sWorkQue' \in Seq(Requests) /\ UNCHANGED sWire /\ ServerAlone /\ sWorker[w] = Idle
    BY SessionTakeIs DEF SDeleteTool, ServerAlone
  <1>2. PICK gone \in SUBSET sTable :
          \/ \E ok \in BOOLEAN : SDeleted(w, gone, ok)
          \/ /\ sTable' = sTable \ gone /\ UNCHANGED sBehind
             /\ sWorker' = [sWorker EXCEPT ![w].at = "endless"]
    BY DeleteIs
  <1>3. ASSUME NEW ok \in BOOLEAN, SDeleted(w, gone, ok)
        PROVE  sTable' = sTable \ gone /\ sWorker' \in [SWorkers -> Jobs] /\ sBehind' \in BOOLEAN
    <2>1. Msg("DELETE", ok, 0, NoRow) \in Answers
      BY DEF Msg, Answers
    <2>2. sWorker' \in [SWorkers -> Jobs]
      BY <1>3, <2>1, ReplyTypes DEF SDeleted
    <2>3. (gone # {}) \in BOOLEAN
      OBVIOUS
    <2>4. sBehind' \in BOOLEAN
      BY <1>3, <2>3, BehindType DEF SDeleted
    <2> QED
      BY <1>3, <2>2, <2>4 DEF SDeleted
  <1>4. ASSUME sTable' = sTable \ gone, UNCHANGED sBehind,
               sWorker' = [sWorker EXCEPT ![w].at = "endless"]
        PROVE  sTable' = sTable \ gone /\ sWorker' \in [SWorkers -> Jobs] /\ sBehind' \in BOOLEAN
    <2>1. [Idle EXCEPT !.at = "endless"] \in Jobs
      BY DEF Idle, Jobs
    <2>2. sWorker' = [sWorker EXCEPT ![w] = [Idle EXCEPT !.at = "endless"]]
      BY <1>1, <1>4
    <2> QED
      BY <1>4, <2>1, <2>2, NewJob, BehindType DEF STypes, ServerTypes
  <1>5. sTable' = sTable \ gone /\ sWorker' \in [SWorkers -> Jobs] /\ sBehind' \in BOOLEAN
    BY <1>2, <1>3, <1>4
  <1>6. ServerTypes'
    BY <1>1, <1>5 DEF STypes, ServerTypes
  <1> QED
    BY <1>1, <1>5, <1>6, RestTypes

LEMMA RespondTypes ==
  ASSUME STypes, NEW w \in SWorkers, SRespond(w)
  PROVE  STypes'
  <1>1. PICK m \in Answers : sWorker[w].rows = <<m>>
    BY JobIs DEF STypes, ServerTypes, SRespond
  <1>2. <<m>> \in Seq(Messages)
    BY OneIs DEF Messages
  <1>3. sWire' \in Seq(Messages)
    BY <1>1, <1>2, JoinIs DEF SRespond, STypes, ServerTypes
  <1>4. sWorker' \in [SWorkers -> Jobs]
    BY IdleIs, NewJob DEF SRespond, STypes, ServerTypes
  <1>5. UNCHANGED <<sTable, sWorkQue>> /\ ServerAlone /\ UNCHANGED sBehind
    BY DEF SRespond, ServerAlone
  <1>6. ServerTypes'
    BY <1>3, <1>4, <1>5 DEF STypes, ServerTypes
  <1> QED
    BY <1>5, <1>6, RestTypes, BehindType

\* What SDoing does to the stream.
LEMMA Received ==
  ASSUME ServerTypes, SDoing
  PROVE  /\ sWire # <<>> /\ Head(sWire) \in Messages /\ Head(sWire) = sWire[1]
         /\ sWire' = Tail(sWire) /\ sWire' \in Seq(Messages)
         /\ Len(sWire) \in Nat \ {0} /\ Len(sWire') = Len(sWire) - 1
         /\ \A i \in 1..(Len(sWire) - 1) : sWire'[i] = sWire[i + 1]
         /\ UNCHANGED <<sServer, sView, sUser>>
  <1>1. sWire \in Seq(Messages) /\ sWire # <<>> /\ sWire' = Tail(sWire)
    BY DEF SDoing, ServerTypes
  <1> QED
    BY <1>1, TailIs DEF SDoing

\* What messages hold, by their type.
LEMMA MessageIs ==
  ASSUME NEW m \in Messages
  PROVE  /\ m.type = "CD" => m.cnt \in 0..SMaxId
         /\ m.type = "ROW" => m = Msg("ROW", TRUE, 0, m.row)
         /\ m.type = "ROW" => m.row \in Rows
         /\ m.type = "MAKEDIR" /\ m.ok => m.row \in Dirs
         /\ m.ok \in BOOLEAN
  BY DEF Messages, Answers, Counts, RowMsgs, Msg

LEMMA DoingTypes ==
  ASSUME STypes, SDoing
  PROVE  STypes'
  <1> DEFINE m == Head(sWire)
  <1> USE DEF STypes
  <1>1. m \in Messages /\ ServerTypes'
    BY Received DEF ServerTypes, sServer
  <1>2. m.ok \in BOOLEAN /\ (m.type = "ROW" => m.row \in Rows)
        /\ (m.type = "MAKEDIR" /\ m.ok => m.row \in Dirs)
    BY <1>1, MessageIs
  <1>3. UNCHANGED <<sView, sUser>>
    BY Received
  <1>4. SMaxId \in Nat /\ Len(sVet) \in Nat
    BY SessionAssumption DEF TaskTypes
  <1>5. TaskTypes' /\ sBehind' \in BOOLEAN
    <2>1. CASE SHandleCD(m)
      <3>1. m.cnt \in 0..SMaxId
        BY <1>1, <2>1, MessageIs DEF SHandleCD
      <3>2. sVet' = <<>> /\ sGui' = sGui
        BY <2>1 DEF SHandleCD
      <3>3. sCnt' \in 0..SMaxId
        BY <2>1, <3>1, <1>4 DEF SHandleCD
      <3>4. sBehind' \in BOOLEAN
        BY <1>2, <2>1, Zenon DEF SHandleCD, ViewTypes
      <3>5. SMaxId \in Nat
        BY SessionAssumption
      <3>6. Len(sVet') = 0 /\ sVet' \in Seq(Rows)
        BY <3>2
      <3>7. sCnt' \in Nat /\ sCnt' <= SMaxId
        BY <3>5, <3>3
      <3>8. \A n \in Nat : n + 0 = n
        OBVIOUS
      <3>9. sCnt' + Len(sVet') <= SMaxId
        <4>1. sCnt' + Len(sVet') = sCnt'
          BY <3>6, <3>7, <3>8
        <4> QED
          BY <3>7, <4>1
      <3> QED
        BY <3>2, <3>4, <3>6, <3>7, <3>9 DEF TaskTypes
    <2>2. CASE SHandleFileInfo(m)
      <3>1. sBehind' \in BOOLEAN /\ m.row \in Rows
        BY <1>2, <2>2 DEF SHandleFileInfo, ViewTypes
      <3>2. /\ Append(sVet, m.row) \in Seq(Rows) /\ Len(Append(sVet, m.row)) = Len(sVet) + 1
        BY <3>1, AppendIs DEF TaskTypes
      <3>3. CASE sCnt = 0
        BY <2>2, <3>1, <3>3 DEF SHandleFileInfo, TaskTypes, sTask
      <3>4. CASE sCnt = 1
        <4>1. [signal |-> "list", rows |-> Append(sVet, m.row)] \in Signals
          BY <3>2 DEF Signals
        <4>2. sGui' \in Seq(Signals)
          <5>1. sGui' = Append(sGui, [signal |-> "list", rows |-> Append(sVet, m.row)])
            BY <2>2, <3>4 DEF SHandleFileInfo
          <5>2. sGui \in Seq(Signals)
            BY DEF TaskTypes
          <5> QED
            BY ONLY <4>1, <5>1, <5>2, AppendIs
        <4> QED
          BY <1>4, <2>2, <3>1, <3>4, <4>2 DEF SHandleFileInfo, TaskTypes
      <3>5. CASE sCnt > 1
        <4>1. sCnt' = sCnt - 1 /\ sVet' = Append(sVet, m.row) /\ sGui' = sGui
          BY <2>2, <3>5 DEF SHandleFileInfo
        <4> QED
          BY <1>4, <3>1, <3>2, <3>5, <4>1 DEF TaskTypes
      <3> QED
        BY <3>3, <3>4, <3>5 DEF TaskTypes
    <2>3. CASE SHandleMakeDir(m)
      <3>1. CASE m.ok
        <4>1. [signal |-> "made", rows |-> <<m.row>>] \in Signals
          BY <1>2, <2>3, <3>1 DEF SHandleMakeDir, Signals
        <4>2. sGui' \in Seq(Signals)
          BY <2>3, <3>1, <4>1, AppendIs DEF SHandleMakeDir, TaskTypes
        <4> QED
          BY <2>3, <4>2 DEF SHandleMakeDir, TaskTypes, ViewTypes, sTask
      <3>2. CASE ~m.ok
        BY <2>3, <3>2 DEF SHandleMakeDir, TaskTypes, ViewTypes, sTask
      <3> QED
        BY <3>1, <3>2
    <2>4. CASE SHandleDeleteFile(m)
      <3>1. [signal |-> "deleted", rows |-> <<>>] \in Signals
        BY DEF Signals
      <3>2. sGui' \in Seq(Signals)
        BY <2>4, <3>1, AppendIs DEF SHandleDeleteFile, TaskTypes
      <3> QED
        BY <2>4, <3>2 DEF SHandleDeleteFile, TaskTypes, ViewTypes, sTask
    <2> QED
      BY <2>1, <2>2, <2>3, <2>4 DEF SDoing
  <1> QED
    BY <1>1, <1>3, <1>5 DEF ViewTypes, sView, sUser

LEMMA ListTypes ==
  ASSUME STypes
  PROVE  GetFileList \in Seq(Requests)
  <1>1. SRequest("CD", NoRow) \in Requests
    BY DEF SRequest, NoRow, SRow, Requests, AnyRow
  <1> QED
    BY <1>1, AppendIs DEF GetFileList, STypes, ServerTypes

\* What dir_map_ finds.
LEMMA ItemIs ==
  ASSUME NEW map, NEW id
  PROVE  /\ (\E r \in map : r.id = id) => Item(map, id) \in map /\ Item(map, id).id = id
         /\ ~(\E r \in map : r.id = id) => Item(map, id) = NoRow
         /\ Item(map, id) \in map \cup {NoRow}
  BY DEF Item

\* The view's own variables.
Viewed ==
  /\ sItems \in Seq(Rows) /\ sShown \subseteq DOMAIN sItems
  /\ sCur \in SIds \cup {0} /\ sMap \subseteq Dirs /\ sHere \in sMap \cup {NoRow}

LEMMA LoadTypes ==
  ASSUME NEW items \in Seq(Rows), NEW map \in SUBSET Dirs, NEW dir \in SIds \cup {0},
         sItems' = items, sMap' = map, LoadDir(items, map, dir)
  PROVE  Viewed'
  BY ItemIs DEF LoadDir, Viewed

LEMMA InitViewTypes ==
  ASSUME STypes, NEW R \in Seq(Rows), InitView(R)
  PROVE  Viewed'
  <1> DEFINE dirs == {r \in ToSet(R) : r.kind = "d"}
  <1>1. dirs \subseteq Dirs
    BY DEF ToSet, Dirs
  <1>2. PICK map \in SUBSET dirs :
          sItems' = R /\ sMap' = map /\ LoadDir(R, map, Item(map, sCur).id)
    BY DEF InitView
  <1>3. Item(map, sCur).id \in SIds \cup {0}
    <2>1. \A r \in map : r.id \in SIds
      BY <1>1, <1>2 DEF Dirs, Rows
    <2>2. Item(map, sCur) \in map \/ Item(map, sCur) = NoRow
      BY ItemIs
    <2> QED
      BY <2>1, <2>2 DEF NoRow, SRow
  <1>4. map \in SUBSET Dirs
    BY <1>1, <1>2
  <1> HIDE DEF dirs
  <1> QED
    BY <1>2, <1>3, <1>4, LoadTypes

LEMMA NewItemTypes ==
  ASSUME STypes, NEW row \in Dirs, AddNewDirItem(row)
  PROVE  Viewed'
  <1>1. sItems' \in Seq(Rows) /\ Len(sItems') = Len(sItems) + 1
    BY AppendIs DEF AddNewDirItem, STypes, ViewTypes, Dirs
  <1>2. DOMAIN sItems' = 1..(Len(sItems) + 1) /\ DOMAIN sItems = 1..Len(sItems) /\ Len(sItems) \in Nat
    BY <1>1 DEF STypes, ViewTypes
  <1>3. DOMAIN sItems \subseteq DOMAIN sItems' /\ Len(sItems) + 1 \in DOMAIN sItems'
    BY <1>2
  <1>4. sShown' \subseteq DOMAIN sItems'
    BY <1>3 DEF AddNewDirItem, STypes, ViewTypes
  <1>5. sMap' \subseteq Dirs /\ sHere' \in sMap' \cup {NoRow} /\ sCur' = sCur
    BY DEF AddNewDirItem, STypes, ViewTypes
  <1> QED
    BY <1>1, <1>4, <1>5 DEF Viewed, STypes, ViewTypes

LEMMA SlotTypes ==
  ASSUME STypes, SSlots
  PROVE  STypes'
  <1> DEFINE s == Head(sGui)
  <1>1. s \in Signals /\ sGui' \in Seq(Signals)
    BY TailIs DEF SSlots, STypes, TaskTypes
  <1>2. UNCHANGED <<sTable, sWorker, sWire, sTask, sUser>>
    BY DEF SSlots
  <1>3. TaskTypes'
    BY <1>1, <1>2 DEF STypes, TaskTypes, sTask
  <1>4. sWorkQue' \in Seq(Requests) /\ Viewed' /\ sBehind' \in BOOLEAN
    <2>1. CASE s.signal = "list" /\ InitView(s.rows) /\ sBehind' = FALSE /\ UNCHANGED sWorkQue
      <3>1. s.rows \in Seq(Rows)
        BY <1>1, <2>1 DEF Signals
      <3> QED
        BY <2>1, <3>1, InitViewTypes DEF STypes, ServerTypes
    <2>2. CASE s.signal = "made" /\ AddNewDirItem(s.rows[1]) /\ UNCHANGED <<sWorkQue, sBehind>>
      <3>1. s.rows[1] \in Dirs
        BY <1>1, <2>2 DEF Signals
      <3> QED
        BY <2>2, <3>1, NewItemTypes, BehindType DEF STypes, ServerTypes
    <2>3. CASE s.signal = "deleted" /\ sWorkQue' = GetFileList /\ UNCHANGED <<sView, sBehind>>
      BY <2>3, ListTypes, BehindType DEF STypes, ViewTypes, Viewed, sView
    <2> QED
      BY <2>1, <2>2, <2>3 DEF SSlots
  <1> QED
    BY <1>2, <1>3, <1>4 DEF STypes, ServerTypes, ViewTypes, Viewed, sUser

Clicks == SRefresh \/ SMakeDir \/ SDelFile \/ SDoubleClick \/ SBack

LEMMA HastyType ==
  ASSUME sHasty \in BOOLEAN, NEW hasty \in BOOLEAN, Does(hasty)
  PROVE  sHasty' \in BOOLEAN /\ (sHasty' <=> sHasty \/ hasty)
  <1>1. sHasty' = (sHasty \/ hasty)
    BY DEF Does
  <1> QED
    BY <1>1, Zenon

\* What makes a click hasty.
LEMMA ClickIs ==
  ASSUME STypes, Clicks
  PROVE  /\ sHasty' \in BOOLEAN /\ (~sHasty' => ~sHasty /\ Quiet)
         /\ SMakeDir /\ ~sHasty' => ~sBehind
  <1>1. (~Quiet) \in BOOLEAN /\ (~Quiet \/ sBehind) \in BOOLEAN /\ sHasty \in BOOLEAN
    BY DEF STypes, ViewTypes
  <1>2. CASE SMakeDir
    <2>1. Does(~Quiet \/ sBehind)
      BY <1>2 DEF SMakeDir
    <2>2. sHasty' \in BOOLEAN /\ (sHasty' <=> sHasty \/ (~Quiet \/ sBehind))
      BY <1>1, <2>1, HastyType
    <2> QED
      BY <2>2, Zenon
  <1>3. CASE ~SMakeDir
    <2>1. Does(~Quiet)
      BY <1>3 DEF Clicks, SRefresh, SDelFile, SDoubleClick, SBack, Click
    <2>2. sHasty' \in BOOLEAN /\ (sHasty' <=> sHasty \/ ~Quiet)
      BY <1>1, <2>1, HastyType
    <2> QED
      BY <1>3, <2>2, Zenon
  <1> QED
    BY <1>2, <1>3

LEMMA ClickTypes ==
  ASSUME STypes, Clicks
  PROVE  STypes'
  <1> USE DEF STypes
  <1>1. sHasty' \in BOOLEAN
    BY ClickIs
  <1>2. /\ UNCHANGED <<sTable, sWorker, sWire, sTask, sGui, sBehind>>
    BY DEF Clicks, SRefresh, SMakeDir, SDelFile, SDoubleClick, SBack, sServer
  <1>3. TaskTypes'
    BY <1>2 DEF TaskTypes, sTask
  <1>4. ASSUME NEW q \in Requests, sWorkQue' = Append(sWorkQue, q)
        PROVE  sWorkQue' \in Seq(Requests)
    BY <1>4, AppendIs DEF ServerTypes
  <1>5. ASSUME UNCHANGED sView, sWorkQue' \in Seq(Requests)
        PROVE  STypes'
    BY <1>1, <1>2, <1>3, <1>5 DEF ServerTypes, ViewTypes, sView
  <1>6. ASSUME NEW dir \in SIds \cup {0}, LoadDir(sItems, sMap, dir),
               UNCHANGED <<sWorkQue, sItems, sMap>>
        PROVE  STypes'
    <2>1. Viewed'
      BY <1>6, LoadTypes DEF ViewTypes
    <2> QED
      BY <1>1, <1>2, <1>3, <1>6, <2>1 DEF ServerTypes, ViewTypes, Viewed
  <1>7. CASE SRefresh
    BY <1>5, <1>7, ListTypes DEF SRefresh
  <1>8. CASE SMakeDir
    <2>1. sHere.id \in SIds \cup {0}
      BY DEF ViewTypes, Dirs, Rows, NoRow, SRow
    <2>2. SRequest("MAKEDIR", SRow(0, "d", sHere.id)) \in Requests
      BY <2>1 DEF SRequest, SRow, Requests, AnyRow
    <2> QED
      BY <1>4, <1>5, <1>8, <2>2 DEF SMakeDir
  <1>9. CASE SDelFile
    <2>1. PICK i \in sShown : sWorkQue' = Append(sWorkQue, SRequest("DELETE", sItems[i]))
      BY <1>9 DEF SDelFile
    <2>2. sItems[i] \in Rows
      BY DEF ViewTypes
    <2>3. SRequest("DELETE", sItems[i]) \in Requests
      BY <2>2 DEF SRequest, Requests, AnyRow
    <2> QED
      BY <1>4, <1>5, <1>9, <2>1, <2>3 DEF SDelFile
  <1>10. CASE SDoubleClick
    <2>1. PICK i \in sShown : LoadDir(sItems, sMap, sItems[i].id)
      BY <1>10 DEF SDoubleClick
    <2>2. sItems[i].id \in SIds \cup {0}
      <3>1. sItems[i] \in Rows
        BY DEF ViewTypes
      <3> QED
        BY <3>1 DEF Rows
    <2>3. UNCHANGED <<sWorkQue, sItems, sMap>>
      BY <1>10 DEF SDoubleClick, sServer
    <2> QED
      BY <1>6, <2>1, <2>2, <2>3
  <1>11. CASE SBack
    <2>1. sHere.parent \in SIds \cup {0} /\ LoadDir(sItems, sMap, sHere.parent)
      BY <1>11 DEF SBack, ViewTypes, Dirs, Rows
    <2>2. UNCHANGED <<sWorkQue, sItems, sMap>>
      BY <1>11 DEF SBack, sServer
    <2> QED
      BY <1>6, <2>1, <2>2
  <1> QED
    BY <1>7, <1>8, <1>9, <1>10, <1>11 DEF Clicks

\* The steps of a thread of the pool.
ServerActs(w) ==
  SCdSelect(w) \/ SCdAnswer(w) \/ SSendFileInfo(w) \/ SCreateDir(w) \/ SDeleteTool(w) \/ SRespond(w)

LEMMA NextIs == SNext <=> (\E w \in SWorkers : ServerActs(w)) \/ SDoing \/ SSlots \/ Clicks
  BY DEF SNext, ServerActs, Clicks

LEMMA TypesStep ==
  ASSUME STypes, [SNext]_sVars
  PROVE  STypes'
  <1>1. ASSUME NEW w \in SWorkers, ServerActs(w) PROVE STypes'
    BY <1>1, SelectTypes, AnswerTypes, SendTypes, CreateTypes, DeleteTypes, RespondTypes DEF ServerActs
  <1>2. CASE UNCHANGED sVars
    BY <1>2 DEF sVars, STypes, ServerTypes, TaskTypes, ViewTypes
  <1> QED
    BY <1>1, <1>2, NextIs, DoingTypes, SlotTypes, ClickTypes

\* Rows, counts and the view keep their types; a list is never longer than there
\* are ids (ShortTaskManager, FileSystem, CdTool).
THEOREM SessionTypes == SSpec => []STypeOK
  <1>1. STypes => STypeOK
    <2> SUFFICES ASSUME STypes PROVE STypeOK
      OBVIOUS
    <2>1. Cardinality(SIds) = SMaxId
      BY FS_Interval, SessionAssumption DEF SIds
    <2>2. sCnt \in Nat /\ Len(sVet) \in Nat /\ sCnt + Len(sVet) <= SMaxId /\ SMaxId \in Nat
      BY SessionAssumption DEF STypes, TaskTypes
    <2>3. sCnt \in 0..Cardinality(SIds) /\ Len(sVet) <= Cardinality(SIds)
      BY <2>1, <2>2
    <2>4. \A r \in sTable : r.id \in SIds /\ r.parent \in SIds \cup {0}
      BY DEF STypes, ServerTypes, Rows
    <2>5. \A r \in sMap : r.id \in SIds /\ r.kind = "d"
      BY DEF STypes, ViewTypes, Dirs, Rows
    <2> QED
      BY <2>3, <2>4, <2>5 DEF STypeOK, STypes, ViewTypes
  <1> QED
    BY <1>1, SessionInitTypes, TypesStep, PTL DEF SSpec

-----------------------------------------------------------------------------
(* The count comes back to zero *)

\* k rows follow each other in a stream, after its first i messages.
Ahead(k, s, i) ==
  \E j \in i..Len(s) : j + k <= Len(s) /\ \A p \in (j + 1)..(j + k) : s[p].type = "ROW"

\* A thread has still to send k rows.
Owed(k) == \E w \in SWorkers : sWorker[w].at = "rows" /\ Len(sWorker[w].rows) >= k

Coming(k, i) == k = 0 \/ Owed(k) \/ Ahead(k, sWire, i)

\* Whatever is counted, or will be, comes in one piece.
CountInv ==
  /\ Coming(sCnt, 0)
  /\ \A i \in 1..Len(sWire) : sWire[i].type = "CD" => Coming(sWire[i].cnt, i)

LEMMA AheadLonger ==
  ASSUME NEW s \in Seq(Messages), NEW t \in Seq(Messages), NEW k \in Nat, NEW i \in Nat,
         Ahead(k, s, i)
  PROVE  Ahead(k, s \o t, i)
  <1> DEFINE u == s \o t
  <1>1. /\ u \in Seq(Messages) /\ Len(u) = Len(s) + Len(t) /\ Len(s) \in Nat /\ Len(t) \in Nat
        /\ \A p \in 1..Len(s) : u[p] = s[p]
    BY JoinIs
  <1>2. PICK j \in i..Len(s) : j + k <= Len(s) /\ \A p \in (j + 1)..(j + k) : s[p].type = "ROW"
    BY DEF Ahead
  <1> HIDE DEF u
  <1>3. j \in i..Len(u) /\ j + k <= Len(u)
    BY <1>1, <1>2
  <1>4. ASSUME NEW p \in (j + 1)..(j + k) PROVE u[p].type = "ROW"
    <2>1. p \in 1..Len(s)
      BY <1>1, <1>2
    <2> QED
      BY <1>1, <1>2, <2>1
  <1> QED
    BY <1>3, <1>4 DEF Ahead, u

LEMMA AheadShifted ==
  ASSUME NEW s \in Seq(Messages), NEW t \in Seq(Messages), NEW k \in Nat, NEW i \in Nat \ {0},
         Len(s) \in Nat \ {0}, Len(t) = Len(s) - 1,
         \A p \in 1..(Len(s) - 1) : t[p] = s[p + 1],
         Ahead(k, s, i)
  PROVE  Ahead(k, t, i - 1)
  <1>1. PICK j \in i..Len(s) : j + k <= Len(s) /\ \A p \in (j + 1)..(j + k) : s[p].type = "ROW"
    BY DEF Ahead
  <1>2. j - 1 \in (i - 1)..Len(t) /\ (j - 1) + k <= Len(t)
    BY <1>1
  <1>3. ASSUME NEW p \in ((j - 1) + 1)..((j - 1) + k) PROVE t[p].type = "ROW"
    <2>1. p \in 1..(Len(s) - 1) /\ p + 1 \in (j + 1)..(j + k)
      BY <1>1
    <2> QED
      BY <1>1, <2>1
  <1> QED
    BY <1>2, <1>3 DEF Ahead

\* The first row goes, and one fewer is counted.
LEMMA AheadFewer ==
  ASSUME NEW s \in Seq(Messages), NEW t \in Seq(Messages), NEW k \in Nat \ {0},
         Len(s) \in Nat \ {0}, Len(t) = Len(s) - 1,
         \A p \in 1..(Len(s) - 1) : t[p] = s[p + 1],
         Ahead(k, s, 0)
  PROVE  Ahead(k - 1, t, 0)
  <1>1. PICK j \in 0..Len(s) : j + k <= Len(s) /\ \A p \in (j + 1)..(j + k) : s[p].type = "ROW"
    BY DEF Ahead
  <1>2. j \in 0..Len(t) /\ j + (k - 1) <= Len(t)
    BY <1>1
  <1>3. ASSUME NEW p \in (j + 1)..(j + (k - 1)) PROVE t[p].type = "ROW"
    <2>1. p \in 1..(Len(s) - 1) /\ p + 1 \in (j + 1)..(j + k)
      BY <1>1
    <2> QED
      BY <1>1, <2>1
  <1> QED
    BY <1>2, <1>3 DEF Ahead

\* A message that is no row lies before the rows that are counted.
LEMMA AheadPast ==
  ASSUME NEW s \in Seq(Messages), NEW k \in Nat \ {0}, Len(s) \in Nat \ {0},
         s[1].type # "ROW", Ahead(k, s, 0)
  PROVE  Ahead(k, s, 1)
  <1>1. PICK j \in 0..Len(s) : j + k <= Len(s) /\ \A p \in (j + 1)..(j + k) : s[p].type = "ROW"
    BY DEF Ahead
  <1>2. j # 0
    <2>1. ASSUME j = 0 PROVE FALSE
      <3>1. 1 \in (j + 1)..(j + k)
        BY <2>1
      <3> QED
        BY <1>1, <3>1
    <2> QED
      BY <2>1
  <1>3. j \in 1..Len(s)
    BY <1>1, <1>2
  <1> QED
    BY <1>1, <1>3 DEF Ahead

LEMMA CountTypes ==
  ASSUME STypes
  PROVE  /\ sCnt \in Nat /\ sWire \in Seq(Messages) /\ Len(sWire) \in Nat
         /\ \A i \in 1..Len(sWire) : sWire[i].type = "CD" => sWire[i].cnt \in Nat
  <1>1. sCnt \in Nat /\ sWire \in Seq(Messages) /\ Len(sWire) \in Nat
    BY DEF STypes, ServerTypes, TaskTypes
  <1>2. \A i \in 1..Len(sWire) : sWire[i] \in Messages
    BY <1>1
  <1>3. \A i \in 1..Len(sWire) : sWire[i].type = "CD" => sWire[i].cnt \in 0..SMaxId
    BY <1>2, MessageIs
  <1> QED
    BY <1>1, <1>3, SessionAssumption

LEMMA InitCount == SInit => CountInv
  BY DEF SInit, CountInv, Coming

\* Nothing that is owed is forgotten, and messages are only added.
LEMMA CountGrows ==
  ASSUME STypes, CountInv, sCnt' = sCnt,
         NEW t \in Seq(Messages), sWire' = sWire \o t,
         \A i \in 1..Len(t) : t[i].type = "CD" => \A k : k = t[i].cnt => k = 0 \/ Owed(k)',
         \A k \in Nat : Owed(k) => Owed(k)' \/ Ahead(k, sWire', Len(sWire))
  PROVE  CountInv'
  <1> DEFINE n == Len(sWire)
  <1>1. /\ sWire' \in Seq(Messages) /\ Len(sWire') = n + Len(t) /\ n \in Nat /\ Len(t) \in Nat
        /\ \A i \in 1..n : sWire'[i] = sWire[i]
        /\ \A i \in 1..Len(t) : sWire'[n + i] = t[i]
    BY CountTypes, JoinIs
  <1>2. ASSUME NEW k \in Nat, NEW i \in 0..n, Coming(k, i)
        PROVE  k = 0 \/ Owed(k)' \/ Ahead(k, sWire', i)
    <2>1. CASE Owed(k)
      <3>1. ASSUME Ahead(k, sWire', n) PROVE Ahead(k, sWire', i)
        <4>1. PICK j \in n..Len(sWire') :
                j + k <= Len(sWire') /\ \A p \in (j + 1)..(j + k) : sWire'[p].type = "ROW"
          BY <3>1 DEF Ahead
        <4>2. j \in i..Len(sWire')
          BY <1>1, <4>1
        <4> QED
          BY <4>1, <4>2 DEF Ahead
      <3> QED
        BY <2>1, <3>1
    <2>2. CASE Ahead(k, sWire, i)
      BY <1>1, <2>2, AheadLonger, CountTypes
    <2> QED
      BY <1>2, <2>1, <2>2 DEF Coming
  <1>3. Coming(sCnt, 0)'
    <2>1. Coming(sCnt, 0) /\ sCnt \in Nat /\ 0 \in 0..n
      BY <1>1, CountTypes DEF CountInv
    <2>2. ASSUME NEW k \in Nat, k = sCnt PROVE k = 0 \/ Owed(k)' \/ Ahead(k, sWire', 0)
      BY <1>2, <2>1, <2>2
    <2> QED
      BY <2>1, <2>2 DEF Coming, Owed
  <1>4. ASSUME NEW i \in 1..Len(sWire'), sWire'[i].type = "CD", NEW k, k = sWire'[i].cnt
        PROVE  k = 0 \/ Owed(k)' \/ Ahead(k, sWire', i)
    <2>1. CASE i \in 1..n
      <3>1. sWire'[i] = sWire[i] /\ i \in 0..n
        BY <1>1, <2>1
      <3>2. k \in Nat /\ Coming(k, i)
        BY <1>4, <2>1, <3>1, CountTypes DEF CountInv
      <3> QED
        BY <1>2, <3>1, <3>2
    <2>2. CASE i \notin 1..n
      <3>1. i - n \in 1..Len(t) /\ i = n + (i - n)
        BY <1>1, <2>2
      <3>2. sWire'[i] = t[i - n]
        BY <1>1, <3>1
      <3> QED
        BY <1>4, <3>1, <3>2
    <2> QED
      BY <2>1, <2>2
  <1>5. \A i \in 1..Len(sWire') : sWire'[i].type = "CD" => Coming(sWire[i].cnt, i)'
    BY <1>4 DEF Coming, Owed
  <1> QED
    BY <1>3, <1>5 DEF CountInv

LEMMA OwedKept ==
  ASSUME NEW w \in SWorkers, sWorker[w].at # "rows",
         \A v \in SWorkers \ {w} : sWorker'[v] = sWorker[v]
  PROVE  \A k : Owed(k) => Owed(k)'
  BY DEF Owed

\* Nothing of it changes.
LEMMA CountSame ==
  ASSUME STypes, CountInv, UNCHANGED <<sCnt, sWire>>, \A k : Owed(k) => Owed(k)'
  PROVE  CountInv'
  BY DEF CountInv, Coming


LEMMA AnswerCount ==
  ASSUME STypes, CountInv, NEW w \in SWorkers, SCdAnswer(w)
  PROVE  CountInv'
  <1> DEFINE R == sWorker[w].rows
             m == Msg("CD", R # <<>>, Len(R), NoRow)
  <1>1. sWorker[w] \in Jobs /\ sWorker[w].at = "answer" /\ R \in Seq(Rows)
    BY JobIs DEF STypes, ServerTypes, SCdAnswer, Lists
  <1>2. STypes'
    BY AnswerTypes
  <1>3. sWire' = Append(sWire, m) /\ sCnt' = sCnt /\ sWire \in Seq(Messages)
    BY DEF SCdAnswer, sTask, STypes, ServerTypes
  <1>4. m \in Messages
    <2>1. sWire' \in Seq(Messages) /\ Len(sWire) \in Nat /\ Len(sWire) + 1 \in 1..Len(sWire')
          /\ sWire'[Len(sWire) + 1] = m
      BY <1>2, <1>3 DEF STypes, ServerTypes
    <2> QED
      BY <2>1
  <1>5. sWire' = sWire \o <<m>> /\ <<m>> \in Seq(Messages) /\ Len(<<m>>) = 1 /\ <<m>>[1] = m
    BY <1>3, <1>4
  <1>6. \A k : Owed(k) => Owed(k)'
    <2>1. \A v \in SWorkers \ {w} : sWorker'[v] = sWorker[v]
      BY DEF SCdAnswer, STypes, ServerTypes
    <2> QED
      BY <1>1, <2>1, OwedKept
  <1>7. ASSUME NEW k, k = m.cnt PROVE k = 0 \/ Owed(k)'
    <2>1. k = Len(R) /\ k \in Nat
      BY <1>1, <1>7 DEF Msg
    <2>2. CASE R = <<>>
      BY <2>1, <2>2
    <2>3. CASE R # <<>>
      <3>1. sWorker'[w].at = "rows" /\ sWorker'[w].rows = R
        BY <1>1, <2>3 DEF SCdAnswer, STypes, ServerTypes, Jobs
      <3>2. Len(sWorker'[w].rows) >= k
        BY <2>1, <3>1
      <3> QED
        BY <3>1, <3>2 DEF Owed
    <2> QED
      BY <2>2, <2>3
  <1> HIDE DEF m
  <1>8. \A i \in 1..Len(<<m>>) : <<m>>[i].type = "CD" => \A k : k = <<m>>[i].cnt => k = 0 \/ Owed(k)'
    BY <1>5, <1>7
  <1> QED
    BY <1>3, <1>5, <1>6, <1>8, CountGrows

LEMMA SendCount ==
  ASSUME STypes, CountInv, NEW w \in SWorkers, SSendFileInfo(w)
  PROVE  CountInv'
  <1> DEFINE R == sWorker[w].rows
             n == Len(sWire)
  <1>1. R \in Seq(Rows) /\ sWorker[w].at = "rows"
    BY JobIs DEF STypes, ServerTypes, SSendFileInfo, Lists
  <1>2. PICK t \in Seq(Messages) :
          /\ sWire' = sWire \o t /\ Len(t) = Len(R)
          /\ \A i \in 1..Len(R) : t[i] = Msg("ROW", TRUE, 0, R[i])
    BY <1>1, RowsAsMessages DEF SSendFileInfo
  <1>3. ASSUME NEW i \in 1..Len(t) PROVE t[i].type = "ROW"
    <2>1. t[i] = Msg("ROW", TRUE, 0, R[i])
      BY <1>2
    <2> QED
      BY <2>1 DEF Msg
  <1>4. /\ n \in Nat /\ Len(t) \in Nat /\ Len(sWire') = n + Len(t)
        /\ \A i \in 1..Len(t) : sWire'[n + i] = t[i]
    <2>1. sWire \in Seq(Messages) /\ n \in Nat /\ t \in Seq(Messages) /\ sWire' = sWire \o t
      BY <1>2, CountTypes
    <2>2. Len(t) \in Nat
      BY <2>1
    <2> QED
      BY <2>1, <2>2, JoinIs
  <1>5. ASSUME NEW k \in Nat, Owed(k) PROVE Owed(k)' \/ Ahead(k, sWire', n)
    <2>1. PICK v \in SWorkers : sWorker[v].at = "rows" /\ Len(sWorker[v].rows) >= k
      BY <1>5 DEF Owed
    <2>2. CASE v = w
      <3>1. n \in n..Len(sWire') /\ n + k <= Len(sWire')
        BY <1>2, <1>4, <2>1, <2>2
      <3>2. ASSUME NEW p \in (n + 1)..(n + k) PROVE sWire'[p].type = "ROW"
        <4>1. p - n \in 1..Len(t) /\ p = n + (p - n)
          BY <1>2, <1>4, <2>1, <2>2
        <4>2. sWire'[p] = t[p - n]
          BY <1>4, <4>1
        <4> QED
          BY <1>3, <4>1, <4>2
      <3> QED
        BY <3>1, <3>2 DEF Ahead
    <2>3. CASE v # w
      <3>1. sWorker'[v] = sWorker[v]
        BY <2>3 DEF SSendFileInfo, STypes, ServerTypes
      <3> QED
        BY <2>1, <3>1 DEF Owed
    <2> QED
      BY <2>2, <2>3
  <1>6. sCnt' = sCnt /\ \A i \in 1..Len(t) : t[i].type # "CD"
    BY <1>3 DEF SSendFileInfo, sTask
  <1> QED
    BY <1>2, <1>5, <1>6, CountGrows

LEMMA RespondCount ==
  ASSUME STypes, CountInv, NEW w \in SWorkers, SRespond(w)
  PROVE  CountInv'
  <1>1. sWorker[w].at = "reply" /\ \A v \in SWorkers \ {w} : sWorker'[v] = sWorker[v]
    BY DEF STypes, ServerTypes, SRespond
  <1>2. PICK m \in Answers : sWorker[w].rows = <<m>>
    BY <1>1, JobIs DEF STypes, ServerTypes
  <1>3. sWire' = sWire \o <<m>> /\ sCnt' = sCnt
    BY <1>2 DEF SRespond, sTask
  <1>4. <<m>> \in Seq(Messages) /\ Len(<<m>>) = 1 /\ <<m>>[1] = m
    BY <1>2, OneIs DEF Messages
  <1>5. m.type # "CD"
    BY <1>2 DEF Answers
  <1>6. \A i \in 1..Len(<<m>>) : <<m>>[i].type # "CD"
    BY <1>4, <1>5
  <1>7. \A k : Owed(k) => Owed(k)'
    BY <1>1, OwedKept
  <1> QED
    BY <1>3, <1>7, <1>4, <1>6, CountGrows

LEMMA TakeCount ==
  ASSUME STypes, CountInv, NEW w \in SWorkers, SCdSelect(w) \/ SCreateDir(w) \/ SDeleteTool(w)
  PROVE  CountInv'
  <1>1. sWorker[w] = Idle
    BY DEF SCdSelect, SCreateDir, SDeleteTool, Take
  <1>2. \A v \in SWorkers \ {w} : sWorker'[v] = sWorker[v]
    <2>1. CASE SDeleteTool(w)
      BY <2>1, DeleteIs DEF SDeleted, Reply, STypes, ServerTypes
    <2> QED
      BY <2>1 DEF SCdSelect, SCreateDir, Reply, STypes, ServerTypes
  <1>3. UNCHANGED <<sCnt, sWire>>
    BY DEF SCdSelect, SCreateDir, SDeleteTool, sTask
  <1>4. \A k : Owed(k) => Owed(k)'
    BY <1>1, <1>2, OwedKept, IdleIs
  <1> QED
    BY <1>3, <1>4, CountSame

LEMMA DoingCount ==
  ASSUME STypes, CountInv, SDoing
  PROVE  CountInv'
  <1> DEFINE m == sWire[1]
             n == Len(sWire)
  <1>1. /\ n \in Nat \ {0} /\ Len(sWire') = n - 1 /\ m = Head(sWire) /\ m \in Messages
        /\ \A i \in 1..(n - 1) : sWire'[i] = sWire[i + 1]
        /\ sWorker' = sWorker
    BY Received DEF STypes, sServer
  <1>2. sWire \in Seq(Messages) /\ sWire' \in Seq(Messages) /\ sCnt \in Nat
    BY Received, CountTypes DEF STypes
  <1>3. \A k : Owed(k)' <=> Owed(k)
    BY <1>1 DEF Owed
  <1>4. ASSUME NEW i \in 1..Len(sWire'), sWire'[i].type = "CD", NEW k, k = sWire'[i].cnt
        PROVE  k = 0 \/ Owed(k) \/ Ahead(k, sWire', i)
    <2>1. sWire'[i] = sWire[i + 1] /\ i + 1 \in 1..n /\ i + 1 \in Nat \ {0} /\ (i + 1) - 1 = i
      BY <1>1
    <2>2. k \in Nat /\ Coming(k, i + 1)
      BY <1>4, <2>1, CountTypes DEF CountInv
    <2>3. ASSUME Ahead(k, sWire, i + 1) PROVE Ahead(k, sWire', i)
      <3>1. Ahead(k, sWire', (i + 1) - 1)
        BY <1>1, <1>2, <2>1, <2>2, <2>3, AheadShifted
      <3> QED
        BY <2>1, <3>1
    <2> QED
      BY <2>2, <2>3 DEF Coming
  <1>5. ASSUME NEW k \in Nat, Ahead(k, sWire, 1) PROVE Ahead(k, sWire', 0)
    <2>1. Ahead(k, sWire', 1 - 1)
      BY <1>1, <1>2, <1>5, AheadShifted
    <2> QED
      BY <2>1
  <1>6. ASSUME NEW k, k = sCnt' PROVE k = 0 \/ Owed(k) \/ Ahead(k, sWire', 0)
    <2>1. CASE SHandleCD(m)
      <3>1. CASE m.ok
        <4>1. m.type = "CD" /\ k = m.cnt /\ 1 \in 1..n
          BY <1>1, <1>6, <2>1, <3>1 DEF SHandleCD
        <4>2. k \in Nat /\ Coming(k, 1)
          BY <4>1, CountTypes DEF CountInv
        <4> QED
          BY <1>5, <4>2 DEF Coming
      <3>2. CASE ~m.ok
        BY <1>6, <2>1, <3>2 DEF SHandleCD
      <3> QED
        BY <3>1, <3>2
    <2>2. CASE SHandleFileInfo(m)
      <3>1. CASE sCnt = 0
        BY <1>6, <2>2, <3>1 DEF SHandleFileInfo, sTask
      <3>2. CASE sCnt # 0
        <4>1. k = sCnt - 1 /\ k + 1 = sCnt /\ sCnt \in Nat \ {0} /\ k \in Nat
          BY <1>2, <1>6, <2>2, <3>2 DEF SHandleFileInfo
        <4>2. CASE Owed(sCnt)
          <5>1. PICK v \in SWorkers : sWorker[v].at = "rows" /\ Len(sWorker[v].rows) >= sCnt
            BY <4>2 DEF Owed
          <5>2. Len(sWorker[v].rows) \in Nat
            BY <5>1, JobIs DEF STypes, ServerTypes, Lists
          <5>3. Len(sWorker[v].rows) >= k
            BY <4>1, <5>1, <5>2
          <5> QED
            BY <5>1, <5>3 DEF Owed
        <4>3. CASE Ahead(sCnt, sWire, 0)
          BY <1>1, <1>2, <4>1, <4>3, AheadFewer
        <4> QED
          BY <3>2, <4>2, <4>3 DEF CountInv, Coming
      <3> QED
        BY <3>1, <3>2
    <2>3. CASE SHandleMakeDir(m) \/ SHandleDeleteFile(m)
      <3>1. k = sCnt /\ m.type # "ROW" /\ k \in Nat
        BY <1>2, <1>6, <2>3 DEF SHandleMakeDir, SHandleDeleteFile, sTask
      <3>2. CASE k # 0 /\ Ahead(k, sWire, 0)
        BY <1>1, <1>2, <1>5, <3>1, <3>2, AheadPast
      <3> QED
        BY <3>1, <3>2 DEF CountInv, Coming
    <2> QED
      BY <1>1, <2>1, <2>2, <2>3 DEF SDoing
  <1>7. \A i \in 1..Len(sWire') : sWire'[i].type = "CD" => Coming(sWire[i].cnt, i)'
    BY <1>3, <1>4 DEF Coming, Owed
  <1>8. Coming(sCnt, 0)'
    BY <1>3, <1>6 DEF Coming, Owed
  <1> QED
    BY <1>7, <1>8 DEF CountInv

LEMMA CountStep ==
  ASSUME STypes, CountInv, [SNext]_sVars
  PROVE  CountInv'
  <1>1. ASSUME NEW w \in SWorkers, ServerActs(w) PROVE CountInv'
    BY <1>1, AnswerCount, SendCount, RespondCount, TakeCount DEF ServerActs
  <1>2. CASE SSlots \/ Clicks \/ UNCHANGED sVars
    <2>1. UNCHANGED <<sWorker, sWire, sCnt>>
      BY <1>2 DEF SSlots, Clicks, SRefresh, SMakeDir, SDelFile, SDoubleClick, SBack, sVars, sServer, sTask
    <2>2. \A k : Owed(k) => Owed(k)'
      BY <2>1 DEF Owed
    <2> QED
      BY <2>1, <2>2, CountSame
  <1> QED
    BY <1>1, <1>2, NextIs, DoingCount

\* However answers and rows of several lists are mixed, the client's counter is zero
\* when nothing is under way, and getFileList is not refused (handleCD,
\* handleFileInfo, getFileList).
THEOREM ListsNotStuck == SSpec => []SNotStuck
  <1>1. ASSUME STypes, CountInv, Quiet PROVE sCnt = 0
    <2>1. Len(sWire) = 0 /\ \A w \in SWorkers : sWorker[w].at = "idle"
      BY <1>1, IdleIs DEF Quiet
    <2>2. ~Owed(sCnt)
      BY <2>1 DEF Owed
    <2>3. sCnt \in Nat /\ (sCnt = 0 \/ Ahead(sCnt, sWire, 0))
      BY <1>1, <2>2, CountTypes DEF CountInv, Coming
    <2> QED
      BY <2>1, <2>3 DEF Ahead
  <1>2. STypes /\ CountInv => SNotStuck
    BY <1>1 DEF SNotStuck
  <1> QED
    BY <1>2, SessionInitTypes, InitCount, TypesStep, CountStep, PTL DEF SSpec

-----------------------------------------------------------------------------
(* A user who waits sees the table, or a view that has fallen behind.  One   *)
(* thing at a time is under way, and what it is says how they differ.        *)

\* A folder's rows are there only with the folder.
Closed == \A r \in sTable : r.parent = 0 \/ \E q \in sTable : q.kind = "d" /\ q.id = r.parent

Folders(T) == {r \in T : r.kind = "d"}

Shows(T) ==
  /\ ToSet(sItems) = T /\ Len(sItems) = Cardinality(T)
  /\ sShown = {i \in DOMAIN sItems : sItems[i].parent = sCur}
  /\ sMap = Folders(T)
  /\ \/ sCur = 0 /\ sHere = NoRow
     \/ sHere \in sMap /\ sHere.id = sCur

Current == sBehind \/ Shows(sTable)

\* The view lacks a folder that was made.
Lacks(row) ==
  row \in sTable /\ row.kind = "d" /\ row.parent = sCur /\ Shows(sTable \ {row})

NoCount   == sCnt = 0 /\ sVet = <<>>
AllIdle   == \A v \in SWorkers : sWorker[v] = Idle
Others(w) == \A v \in SWorkers \ {w} : sWorker[v] = Idle

Settled == Quiet /\ NoCount /\ Current

Asks(q) ==
  \/ q.op = "CD"
  \/ q.op = "MAKEDIR" /\ q.row.parent = sCur /\ Shows(sTable)
  \/ q.op = "DELETE" /\ Current

Requested ==
  /\ AllIdle /\ NoCount /\ sWire = <<>> /\ sGui = <<>>
  /\ \E q \in Requests : sWorkQue = <<q>> /\ Asks(q)

\* A list on its way, R.
CountOf(R) == Msg("CD", TRUE, Len(R), NoRow)
RowOf(r)   == Msg("ROW", TRUE, 0, r)

Selected(R) ==
  /\ sWire = <<>> /\ sGui = <<>> /\ NoCount
  /\ \E w \in SWorkers : Others(w) /\ sWorker[w] = [at |-> "answer", rows |-> R]
Counted(R) ==
  /\ R # <<>> /\ sGui = <<>> /\ sVet = <<>>
  /\ \E w \in SWorkers : Others(w) /\ sWorker[w] = [at |-> "rows", rows |-> R]
  /\ \/ sWire = <<CountOf(R)>> /\ sCnt = 0
     \/ sWire = <<>> /\ sCnt = Len(R)
RowsSent(R) ==
  /\ AllIdle /\ sGui = <<>> /\ NoCount
  /\ R # <<>> /\ Len(sWire) = Len(R) + 1 /\ sWire[1] = CountOf(R)
  /\ \A i \in 1..Len(R) : sWire[i + 1] = RowOf(R[i])
RowsCome(R) ==
  /\ AllIdle /\ sGui = <<>>
  /\ sCnt = Len(sWire) /\ sCnt > 0 /\ Len(sVet) + sCnt = Len(R)
  /\ \A i \in 1..Len(sVet) : sVet[i] = R[i]
  /\ \A i \in 1..Len(sWire) : sWire[i] = RowOf(R[Len(sVet) + i])
Complete(R) ==
  R # <<>> /\ AllIdle /\ NoCount /\ sWire = <<>> /\ sGui = <<[signal |-> "list", rows |-> R]>>

Listed ==
  /\ sWorkQue = <<>>
  /\ \E R \in Lists :
       Listing(R) /\ (Selected(R) \/ Counted(R) \/ RowsSent(R) \/ RowsCome(R) \/ Complete(R))

\* The table is empty, or the query has failed.
Refused ==
  AllIdle /\ sWorkQue = <<>> /\ sGui = <<>> /\ sWire = <<Msg("CD", FALSE, 0, NoRow)>>

Tells(m) ==
  \/ m.type = "MAKEDIR" /\ m.ok /\ Lacks(m.row)
  \/ m.type = "DELETE" /\ m.ok
  \/ ~m.ok /\ Current

Replying ==
  /\ sWorkQue = <<>> /\ sWire = <<>> /\ sGui = <<>> /\ NoCount
  /\ \E w \in SWorkers, m \in Answers :
       Others(w) /\ sWorker[w] = [at |-> "reply", rows |-> <<m>>] /\ Tells(m)
Replied ==
  /\ AllIdle /\ sWorkQue = <<>> /\ sGui = <<>> /\ NoCount
  /\ \E m \in Answers : sWire = <<m>> /\ Tells(m)
Signalled ==
  /\ AllIdle /\ sWorkQue = <<>> /\ sWire = <<>> /\ NoCount
  /\ \E s \in Signals :
       /\ sGui = <<s>>
       /\ \/ s.signal = "made" /\ Lacks(s.rows[1])
          \/ s.signal = "deleted"

OneThing ==
  Settled \/ Requested \/ Listed \/ Refused \/ Replying \/ Replied \/ Signalled

\* A thread that deletes a folder which is in itself stays there.
Endless == \E w \in SWorkers : sWorker[w].at = "endless"

ViewInv == ~sHasty => Endless \/ (Closed /\ OneThing)

LEMMA TableSame ==
  ASSUME UNCHANGED sTable
  PROVE  (Closed' <=> Closed) /\ \A R : Listing(R)' <=> Listing(R)
  BY DEF Closed, Listing

\* What does not change the table or the view.
LEMMA ViewSame ==
  ASSUME UNCHANGED <<sTable, sView, sBehind>>
  PROVE  /\ Closed' <=> Closed
         /\ Current' <=> Current
         /\ Shows(sTable)' <=> Shows(sTable)
         /\ \A row : Lacks(row)' <=> Lacks(row)
         /\ \A m : Tells(m)' <=> Tells(m)
         /\ \A q : Asks(q)' <=> Asks(q)
         /\ \A R : Listing(R)' <=> Listing(R)
  <1>1. UNCHANGED <<sTable, sItems, sShown, sMap, sCur, sHere, sBehind>>
    BY DEF sView
  <1>2. \A T : Shows(T)' <=> Shows(T)
    BY <1>1 DEF Shows
  <1>3. Shows(sTable)' <=> Shows(sTable)
    BY <1>1 DEF Shows
  <1>4. Current' <=> Current
    <2>1. sBehind' = sBehind
      BY <1>1
    <2>2. sBehind' <=> sBehind
      BY <2>1
    <2> QED
      BY <1>3, <2>2, Zenon DEF Current
  <1>5. ASSUME NEW row PROVE Lacks(row)' <=> Lacks(row)
    BY <1>1 DEF Lacks, Shows
  <1>6. \A m : Tells(m)' <=> Tells(m)
    BY <1>4, <1>5 DEF Tells
  <1>7. \A q : Asks(q)' <=> Asks(q)
    BY <1>1, <1>3, <1>4 DEF Asks
  <1> QED
    BY <1>3, <1>4, <1>5, <1>6, <1>7, TableSame

LEMMA EndlessKept ==
  ASSUME STypes, Endless, [SNext]_sVars
  PROVE  Endless'
  <1>1. PICK v \in SWorkers : sWorker[v].at = "endless"
    BY DEF Endless
  <1>2. ASSUME NEW w \in SWorkers, ServerActs(w) PROVE sWorker'[v] = sWorker[v]
    <2>1. sWorker[w].at # "endless"
      BY <1>2, IdleIs DEF ServerActs, SCdSelect, SCdAnswer, SSendFileInfo, SCreateDir, SDeleteTool,
         SRespond, Take
    <2>2. \E j : sWorker' = [sWorker EXCEPT ![w] = j]
      <3>1. CASE SDeleteTool(w)
        BY <3>1, DeleteIs DEF SDeleted, Reply
      <3> QED
        BY <1>2, <3>1 DEF ServerActs, SCdSelect, SCdAnswer, SSendFileInfo, SCreateDir, SRespond, Reply
    <2> QED
      BY <1>1, <2>1, <2>2 DEF STypes, ServerTypes
  <1>3. CASE SDoing \/ SSlots \/ Clicks \/ UNCHANGED sVars
    BY <1>1, <1>3 DEF Endless, SDoing, SSlots, Clicks, SRefresh, SMakeDir, SDelFile, SDoubleClick,
       SBack, sVars, sServer
  <1> QED
    BY <1>1, <1>2, <1>3, NextIs DEF Endless

\* A request is taken only when it is the one thing under way.
LEMMA OneTaken ==
  ASSUME STypes, OneThing, NEW w \in SWorkers, NEW op, Take(w, op)
  PROVE  /\ AllIdle /\ NoCount /\ sWire = <<>> /\ sGui = <<>> /\ Tail(sWorkQue) = <<>>
         /\ Asked \in AnyRow /\ Asks(SRequest(op, Asked))
  <1>1. sWorkQue # <<>> /\ Head(sWorkQue).op = op
    BY DEF Take
  <1>2. Requested
    BY <1>1 DEF OneThing, Settled, Quiet, Listed, Refused, Replying, Replied, Signalled
  <1>3. PICK q \in Requests : sWorkQue = <<q>> /\ Asks(q)
    BY <1>2 DEF Requested
  <1>4. Head(sWorkQue) = q /\ Tail(sWorkQue) = <<>>
    BY <1>3
  <1>5. q = SRequest(op, Asked) /\ Asked \in AnyRow
    BY <1>1, <1>3, <1>4 DEF Requests, SRequest, Asked
  <1> QED
    BY <1>2, <1>3, <1>4, <1>5 DEF Requested

LEMMA SelectView ==
  ASSUME STypes, Closed, OneThing, NEW w \in SWorkers, SCdSelect(w)
  PROVE  Closed' /\ OneThing'
  <1>1. PICK R \in SetToSeqs(sTable) \cup {<<>>} :
          sWorker' = [sWorker EXCEPT ![w] = [at |-> "answer", rows |-> R]]
    BY DEF SCdSelect
  <1>2. Listing(R)
    BY <1>1, SelectLists DEF STypes
  <1>3. UNCHANGED <<sTable, sView, sBehind>>
    BY DEF SCdSelect
  <1>4. Closed' /\ Listing(R)' /\ R \in Lists
    BY <1>2, <1>3, ViewSame DEF Listing
  <1>5. sWorker'[w] = [at |-> "answer", rows |-> R] /\ \A v \in SWorkers \ {w} : sWorker'[v] = sWorker[v]
    BY <1>1 DEF STypes, ServerTypes
  <1>6. Take(w, "CD")
    BY DEF SCdSelect
  <1>7. AllIdle /\ NoCount /\ sWire = <<>> /\ sGui = <<>> /\ Tail(sWorkQue) = <<>>
    BY <1>6, OneTaken
  <1>8. NoCount' /\ sWire' = <<>> /\ sGui' = <<>> /\ sWorkQue' = <<>>
    BY <1>7 DEF SCdSelect, NoCount, sTask
  <1>9. Others(w)'
    BY <1>5, <1>7 DEF AllIdle, Others
  <1>10. Selected(R)'
    BY <1>5, <1>8, <1>9 DEF Selected
  <1> QED
    BY <1>4, <1>8, <1>10 DEF OneThing, Listed

\* By the step of a thread, what is under way.
LEMMA OneWorks ==
  ASSUME STypes, OneThing, NEW w \in SWorkers
  PROVE  /\ sWorker[w].at = "answer" =>
              sWorkQue = <<>> /\ Others(w) /\ Listing(sWorker[w].rows) /\ Selected(sWorker[w].rows)
         /\ sWorker[w].at = "rows" =>
              sWorkQue = <<>> /\ Others(w) /\ Listing(sWorker[w].rows) /\ Counted(sWorker[w].rows)
         /\ sWorker[w].at = "reply" =>
              /\ sWorkQue = <<>> /\ sWire = <<>> /\ sGui = <<>> /\ NoCount /\ Others(w)
              /\ \E m \in Answers : sWorker[w].rows = <<m>> /\ Tells(m)
  <1>1. \A v \in SWorkers : sWorker[v].at # "idle" => sWorker[v] # Idle
    BY IdleIs
  <1>2. ASSUME sWorker[w].at \in {"answer", "rows", "reply"}
        PROVE  \/ \E R \in Lists : sWorkQue = <<>> /\ Listing(R) /\ (Selected(R) \/ Counted(R))
               \/ Replying
    <2>1. ~AllIdle
      BY <1>1, <1>2 DEF AllIdle
    <2>2. Listed \/ Replying
      BY <2>1 DEF OneThing, Settled, Quiet, AllIdle, Requested, Refused, Replied, Signalled
    <2> QED
      BY <2>1, <2>2 DEF Listed, RowsSent, RowsCome, Complete
  <1>3. ASSUME NEW R, Selected(R), sWorker[w].at \in {"answer", "rows", "reply"}
        PROVE  Others(w) /\ sWorker[w] = [at |-> "answer", rows |-> R]
    <2>1. PICK v \in SWorkers : Others(v) /\ sWorker[v] = [at |-> "answer", rows |-> R]
      BY <1>3 DEF Selected
    <2>2. v = w
      BY <1>1, <1>3, <2>1 DEF Others
    <2> QED
      BY <2>1, <2>2
  <1>4. ASSUME NEW R, Counted(R), sWorker[w].at \in {"answer", "rows", "reply"}
        PROVE  Others(w) /\ sWorker[w] = [at |-> "rows", rows |-> R]
    <2>1. PICK v \in SWorkers : Others(v) /\ sWorker[v] = [at |-> "rows", rows |-> R]
      BY <1>4 DEF Counted
    <2>2. v = w
      BY <1>1, <1>4, <2>1 DEF Others
    <2> QED
      BY <2>1, <2>2
  <1>5. ASSUME Replying, sWorker[w].at \in {"answer", "rows", "reply"}
        PROVE  /\ sWorkQue = <<>> /\ sWire = <<>> /\ sGui = <<>> /\ NoCount /\ Others(w)
               /\ sWorker[w].at = "reply"
               /\ \E m \in Answers : sWorker[w].rows = <<m>> /\ Tells(m)
    <2>1. PICK v \in SWorkers, m \in Answers :
            Others(v) /\ sWorker[v] = [at |-> "reply", rows |-> <<m>>] /\ Tells(m)
      BY <1>5 DEF Replying
    <2>2. v = w
      BY <1>1, <1>5, <2>1 DEF Others
    <2>3. sWorker[w].at = "reply" /\ sWorker[w].rows = <<m>>
      BY <2>1, <2>2
    <2> QED
      BY <1>5, <2>1, <2>2, <2>3 DEF Replying
  <1>6. CASE sWorker[w].at \in {"answer", "rows", "reply"}
    <2>1. CASE Replying
      BY <1>5, <1>6, <2>1
    <2>2. CASE \E R \in Lists : sWorkQue = <<>> /\ Listing(R) /\ (Selected(R) \/ Counted(R))
      <3>1. PICK R \in Lists : sWorkQue = <<>> /\ Listing(R) /\ (Selected(R) \/ Counted(R))
        BY <2>2
      <3>2. CASE Selected(R)
        <4>1. Others(w) /\ sWorker[w] = [at |-> "answer", rows |-> R]
          BY <1>3, <1>6, <3>2
        <4>2. Others(w) /\ sWorker[w].at = "answer" /\ sWorker[w].rows = R
          BY <4>1
        <4> QED
          BY <3>1, <3>2, <4>2
      <3>3. CASE Counted(R)
        <4>1. Others(w) /\ sWorker[w] = [at |-> "rows", rows |-> R]
          BY <1>4, <1>6, <3>3
        <4>2. Others(w) /\ sWorker[w].at = "rows" /\ sWorker[w].rows = R
          BY <4>1
        <4> QED
          BY <3>1, <3>3, <4>2
      <3> QED
        BY <3>1, <3>2, <3>3
    <2> QED
      BY <1>2, <1>6, <2>1, <2>2
  <1>7. CASE sWorker[w].at \notin {"answer", "rows", "reply"}
    BY <1>7
  <1> QED
    BY <1>6, <1>7

LEMMA AnswerView ==
  ASSUME STypes, Closed, OneThing, NEW w \in SWorkers, SCdAnswer(w)
  PROVE  Closed' /\ OneThing'
  <1> DEFINE R == sWorker[w].rows
  <1>1. UNCHANGED <<sTable, sView, sBehind>> /\ sWorker[w].at = "answer"
    BY DEF SCdAnswer
  <1>2. \A v \in SWorkers \ {w} : sWorker'[v] = sWorker[v]
    BY DEF SCdAnswer, STypes, ServerTypes
  <1>3. Closed'
    BY <1>1, ViewSame
  <1>4. sWorkQue = <<>> /\ Others(w) /\ Listing(R) /\ sWire = <<>> /\ sGui = <<>> /\ NoCount
    BY <1>1, OneWorks DEF Selected
  <1>5. NoCount' /\ sGui' = <<>> /\ sWorkQue' = <<>> /\ Others(w)' /\ Listing(R)
    BY <1>2, <1>4 DEF SCdAnswer, NoCount, sTask, Others
  <1>6. sWire' = <<Msg("CD", R # <<>>, Len(R), NoRow)>>
    BY <1>4 DEF SCdAnswer
  <1>7. CASE R = <<>>
    <2>1. (R # <<>>) = FALSE /\ Len(R) = 0
      BY <1>7
    <2>2. sWire' = <<Msg("CD", FALSE, 0, NoRow)>>
      BY <1>6, <2>1
    <2>3. AllIdle'
      BY <1>5, <1>7 DEF SCdAnswer, AllIdle, Others, STypes, ServerTypes
    <2> QED
      BY <1>3, <1>5, <2>2, <2>3 DEF OneThing, Refused
  <1>8. CASE R # <<>>
    <2>1. (R # <<>>) = TRUE
      BY <1>8
    <2>2. sWire' = <<CountOf(R)>>
      BY <1>6, <2>1 DEF CountOf
    <2>3. sWorker[w] \in Jobs /\ sWorker[w] = [at |-> "answer", rows |-> R]
      BY <1>1 DEF STypes, ServerTypes, Jobs
    <2>4. sWorker'[w] = [at |-> "rows", rows |-> R]
      BY <1>8, <2>3 DEF SCdAnswer, STypes, ServerTypes
    <2>5. \A S : S = R => Counted(S)' /\ Listing(S)' /\ S \in Lists
      <3> TAKE S
      <3> HAVE S = R
      <3>1. Counted(S)'
        BY <1>5, <1>8, <2>2, <2>4 DEF Counted, NoCount, CountOf
      <3>2. Listing(S)' /\ S \in Lists
        BY <1>1, <1>4, ViewSame DEF Listing
      <3> QED
        BY <3>1, <3>2
    <2> QED
      BY <1>3, <1>5, <2>5 DEF OneThing, Listed
  <1> QED
    BY <1>7, <1>8

LEMMA SendView ==
  ASSUME STypes, Closed, OneThing, NEW w \in SWorkers, SSendFileInfo(w)
  PROVE  Closed' /\ OneThing'
  <1>1. UNCHANGED <<sTable, sView, sBehind>> /\ sWorker[w].at = "rows"
    BY DEF SSendFileInfo
  <1>2. sWorker'[w] = Idle /\ \A v \in SWorkers \ {w} : sWorker'[v] = sWorker[v]
    BY DEF SSendFileInfo, STypes, ServerTypes
  <1>3. Closed'
    BY <1>1, ViewSame
  <1>4. PICK R : R = sWorker[w].rows
    OBVIOUS
  <1>5. sWorkQue = <<>> /\ Others(w) /\ Listing(R) /\ Counted(R)
    BY <1>1, <1>4, OneWorks
  <1>6. R \in Seq(Rows) /\ R \in Lists /\ Len(R) \in Nat /\ R # <<>>
    BY <1>5 DEF Listing, Lists, Counted
  <1>7. Len(R) > 0
    BY <1>6
  <1>8. sWorkQue' = <<>> /\ sGui' = <<>> /\ AllIdle' /\ Listing(R)'
        /\ sVet' = <<>> /\ sCnt' = sCnt
    BY <1>1, <1>2, <1>5, ViewSame DEF SSendFileInfo, sTask, Counted, AllIdle, Others
  <1>9. PICK t \in Seq(Messages) :
          /\ sWire' = sWire \o t /\ Len(t) = Len(R)
          /\ \A i \in 1..Len(R) : t[i] = RowOf(R[i])
    BY <1>4, <1>6, RowsAsMessages DEF SSendFileInfo, RowOf
  <1>10. CASE sWire = <<CountOf(R)>> /\ sCnt = 0
    <2>1. sWire \in Seq(Messages) /\ Len(sWire) = 1 /\ sWire[1] = CountOf(R)
      BY <1>10, CountTypes
    <2>2. /\ Len(sWire') = 1 + Len(R) /\ sWire'[1] = CountOf(R)
          /\ \A i \in 1..Len(t) : sWire'[1 + i] = t[i]
      <3>1. /\ Len(sWire \o t) = Len(sWire) + Len(t)
            /\ \A i \in 1..Len(sWire) : (sWire \o t)[i] = sWire[i]
            /\ \A i \in 1..Len(t) : (sWire \o t)[Len(sWire) + i] = t[i]
        <4>1. sWire \in Seq(Messages) /\ t \in Seq(Messages)
          BY <1>9, <2>1
        <4> QED
          BY <4>1, JoinIs
      <3>2. 1 \in 1..Len(sWire)
        BY <2>1
      <3> QED
        BY <1>9, <2>1, <3>1, <3>2
    <2>3. \A i \in 1..Len(R) : sWire'[i + 1] = RowOf(R[i])
      <3> TAKE i \in 1..Len(R)
      <3>1. i + 1 = 1 + i /\ i \in 1..Len(t)
        BY <1>6, <1>9
      <3> QED
        BY <1>9, <2>2, <3>1
    <2>4. Len(sWire') = Len(R) + 1
      BY <1>6, <2>2
    <2>5. RowsSent(R)'
      BY <1>6, <1>8, <1>10, <2>2, <2>3, <2>4 DEF RowsSent, NoCount, CountOf, RowOf
    <2> QED
      BY <1>3, <1>6, <1>8, <2>5 DEF OneThing, Listed
  <1>11. CASE sWire = <<>> /\ sCnt = Len(R)
    <2>1. sWire' = t
      BY <1>9, <1>11
    <2>2. Len(sVet') = 0
      BY <1>8
    <2>3. sCnt' = Len(sWire') /\ sCnt' > 0 /\ 0 + sCnt' = Len(R)
      BY <1>6, <1>7, <1>8, <1>9, <1>11, <2>1
    <2>4. \A i \in 1..Len(sWire') : sWire'[i] = RowOf(R[0 + i])
      BY <1>6, <1>9, <2>1
    <2>5. Len(sVet') + sCnt' = Len(R)
      BY <2>2, <2>3
    <2>6. \A i \in 1..Len(sVet') : sVet'[i] = R[i]
      BY <2>2
    <2>7. \A i \in 1..Len(sWire') : sWire'[i] = RowOf(R[Len(sVet') + i])
      BY <2>2, <2>4
    <2>8. RowsCome(R)'
      BY <1>8, <2>3, <2>5, <2>6, <2>7 DEF RowsCome, RowOf
    <2> QED
      BY <1>3, <1>6, <1>8, <2>8 DEF OneThing, Listed
  <1> QED
    BY <1>5, <1>10, <1>11 DEF Counted

\* A thread that took the one request has the one answer.
LEMMA ReplyView ==
  ASSUME STypes, NEW w \in SWorkers, NEW m \in Answers, Reply(w, m), Tells(m)',
         AllIdle, NoCount, sWire = <<>>, sGui = <<>>, Tail(sWorkQue) = <<>>,
         UNCHANGED <<sWire, sTask, sGui>>, sWorkQue' = Tail(sWorkQue)
  PROVE  OneThing'
  <1>1. /\ sWorker'[w] = [at |-> "reply", rows |-> <<m>>]
        /\ \A v \in SWorkers \ {w} : sWorker'[v] = Idle
    BY DEF Reply, STypes, ServerTypes, AllIdle
  <1>2. sWorkQue' = <<>> /\ sWire' = <<>> /\ sGui' = <<>> /\ NoCount'
    BY DEF NoCount, sTask
  <1> QED
    BY <1>1, <1>2 DEF OneThing, Replying, Others

LEMMA CreateView ==
  ASSUME STypes, Closed, OneThing, NEW w \in SWorkers, SCreateDir(w)
  PROVE  Closed' /\ OneThing'
  <1>1. Take(w, "MAKEDIR") /\ UNCHANGED <<sWire, sTask, sGui, sView>> /\ sWorkQue' = Tail(sWorkQue)
    BY DEF SCreateDir
  <1>2. /\ AllIdle /\ NoCount /\ sWire = <<>> /\ sGui = <<>> /\ Tail(sWorkQue) = <<>>
        /\ Asks(SRequest("MAKEDIR", Asked))
    BY <1>1, OneTaken
  <1>3. Asked.parent = sCur /\ Shows(sTable)
    BY <1>2 DEF Asks, SRequest
  <1>4. ASSUME NEW m \in Answers, Reply(w, m), Tells(m)' PROVE OneThing'
    BY <1>1, <1>2, <1>4, ReplyView
  <1>5. \A m : m = Msg("MAKEDIR", FALSE, 0, NoRow) => m \in Answers /\ m.ok = FALSE
    BY DEF Msg, Answers
  <1>6. ASSUME NEW id \in SIds, \A r \in sTable : r.id < id,
               NEW row, row = SRow(id, "d", Asked.parent), sTable' = sTable \cup {row},
               \/ Reply(w, Msg("MAKEDIR", TRUE, 0, row))
               \/ Reply(w, Msg("MAKEDIR", FALSE, 0, NoRow)) /\ FailsWith(TRUE)
        PROVE  Closed' /\ OneThing'
    <2>1. row \in Dirs /\ row.id = id /\ row.kind = "d" /\ row.parent = sCur
      BY <1>3, <1>6 DEF SRow, Rows, Dirs, STypes, ViewTypes
    <2>2. row \notin sTable
      BY <1>6, <2>1 DEF SIds
    <2>3. sTable' \ {row} = sTable
      BY <1>6, <2>2
    <2>4. Lacks(row)'
      BY <1>1, <1>3, <1>6, <2>1, <2>3 DEF Lacks, Shows, sView
    <2>5. sCur = 0 \/ \E q \in sTable : q.kind = "d" /\ q.id = sCur
      BY <1>3 DEF Shows, Folders
    <2>6. Closed'
      BY <1>6, <2>1, <2>5 DEF Closed
    <2>7. \A m : m = Msg("MAKEDIR", TRUE, 0, row) => m \in Answers /\ Tells(m)'
      BY <2>1, <2>4 DEF Msg, Answers, Tells
    <2>8. ASSUME FailsWith(TRUE) PROVE Current'
      BY <2>8, Zenon DEF FailsWith, Current
    <2>9. ASSUME FailsWith(TRUE), NEW m, m = Msg("MAKEDIR", FALSE, 0, NoRow)
          PROVE  m \in Answers /\ Tells(m)'
      BY <1>5, <2>8, <2>9 DEF Tells
    <2> QED
      BY <1>4, <1>6, <2>6, <2>7, <2>9
  <1>7. ASSUME Reply(w, Msg("MAKEDIR", FALSE, 0, NoRow)), UNCHANGED <<sTable, sBehind>>
        PROVE  Closed' /\ OneThing'
    <2>1. Closed' /\ Current'
      BY <1>1, <1>3, <1>7, ViewSame DEF Current
    <2>2. \A m : m = Msg("MAKEDIR", FALSE, 0, NoRow) => m \in Answers /\ Tells(m)'
      BY <1>5, <2>1 DEF Tells
    <2> QED
      BY <1>4, <1>7, <2>1, <2>2
  <1> QED
    BY <1>6, <1>7 DEF SCreateDir

\* A row of what is deleted, and a row in it, are deleted together.
LEMMA UnderIs ==
  ASSUME ServerTypes, NEW id
  PROVE  \A r \in sTable : r.parent \in {id} \cup Under(id) => r.id \in Under(id)
  <1>1. ASSUME NEW r \in sTable, r.parent \in {id} \cup Under(id),
               NEW S \in SUBSET SIds, \A q \in sTable : q.parent \in S \cup {id} => q.id \in S
        PROVE  r.id \in S
    BY <1>1 DEF Under
  <1>2. \A r \in sTable : r.id \in SIds
    BY DEF ServerTypes, Rows
  <1> QED
    BY <1>1, <1>2 DEF Under

\* Whatever a deletion takes and whether it is whole, no row is left without its folder.
LEMMA StaysClosed ==
  ASSUME STypes, Closed, NEW gone \in SUBSET sTable, sTable' = sTable \ gone,
         \A q \in gone : q.kind = "d" => \A r \in sTable : r.parent = q.id => r \in gone
  PROVE  Closed'
  <1> SUFFICES ASSUME NEW r \in sTable', r.parent # 0
               PROVE  \E q \in sTable' : q.kind = "d" /\ q.id = r.parent
    BY DEF Closed
  <1>1. r \in sTable /\ r \notin gone
    OBVIOUS
  <1>2. PICK q \in sTable : q.kind = "d" /\ q.id = r.parent
    BY <1>1 DEF Closed
  <1>3. q \notin gone
    BY <1>1, <1>2
  <1> QED
    BY <1>2, <1>3

LEMMA DeleteView ==
  ASSUME STypes, Closed, OneThing, NEW w \in SWorkers, SDeleteTool(w)
  PROVE  Endless' \/ (Closed' /\ OneThing')
  <1> DEFINE id == Asked.id
  <1>1. Take(w, "DELETE") /\ UNCHANGED <<sWire, sTask, sGui, sView>> /\ sWorkQue' = Tail(sWorkQue)
    BY DEF SDeleteTool
  <1>2. /\ AllIdle /\ NoCount /\ sWire = <<>> /\ sGui = <<>> /\ Tail(sWorkQue) = <<>>
        /\ Asks(SRequest("DELETE", Asked))
    BY <1>1, OneTaken
  <1>3. Current
    BY <1>2 DEF Asks, SRequest
  <1>4. ASSUME NEW gone \in SUBSET sTable, NEW ok \in BOOLEAN, SDeleted(w, gone, ok),
               \A q \in gone : q.kind = "d" => \A r \in sTable : r.parent = q.id => r \in gone
        PROVE  Closed' /\ OneThing'
    <2>1. sTable' = sTable \ gone /\ Reply(w, Msg("DELETE", ok, 0, NoRow))
      BY <1>4 DEF SDeleted
    <2>2. Closed'
      BY <1>4, <2>1, StaysClosed
    <2>3. PICK m : m = Msg("DELETE", ok, 0, NoRow)
      OBVIOUS
    <2>4. m \in Answers /\ m.type = "DELETE" /\ m.ok = ok
      BY <2>3 DEF Msg, Answers
    <2>5. CASE ok
      <3>1. Tells(m)'
        BY <2>4, <2>5 DEF Tells
      <3> QED
        BY <1>1, <1>2, <2>1, <2>2, <2>3, <2>4, <3>1, ReplyView
    <2>6. CASE ~ok
      <3>1. sBehind' = (sBehind \/ gone # {})
        BY <1>4, <2>6 DEF SDeleted, FailsWith
      <3>2. ASSUME gone # {} PROVE Current'
        BY <3>1, <3>2, Zenon DEF Current
      <3>3. ASSUME gone = {} PROVE Current'
        <4>1. sBehind' <=> sBehind
          BY <3>1, <3>3, Zenon
        <4>2. Shows(sTable)' <=> Shows(sTable)
          BY <1>1, <2>1, <3>3 DEF Shows, sView
        <4> QED
          BY <1>3, <4>1, <4>2, Zenon DEF Current
      <3>4. Current'
        BY <3>2, <3>3
      <3>5. Tells(m)'
        BY <2>4, <2>6, <3>4 DEF Tells
      <3> QED
        BY <1>1, <1>2, <2>1, <2>2, <2>3, <2>4, <3>5, ReplyView
    <2> QED
      BY <2>5, <2>6
  <1>5. CASE Asked.kind # "d"
    <2>1. PICK gone \in SUBSET {r \in sTable : r.id = id /\ r.kind # "d"}, ok \in BOOLEAN :
            SDeleted(w, gone, ok)
      BY <1>5 DEF SDeleteTool, SDeleteOneFile
    <2>2. gone \in SUBSET sTable /\ \A q \in gone : q.kind # "d"
      BY <2>1
    <2> QED
      BY <1>4, <2>1, <2>2
  <1>6. CASE Asked.kind = "d"
    <2>1. SDeleteOneDir(w, id)
      BY <1>6 DEF SDeleteTool
    <2>2. CASE SDeleted(w, {r \in sTable : r.id \in {id} \cup Under(id)}, TRUE)
      <3>1. PICK gone : gone = {r \in sTable : r.id \in {id} \cup Under(id)}
        OBVIOUS
      <3>2. gone \in SUBSET sTable /\ SDeleted(w, gone, TRUE)
        BY <2>2, <3>1
      <3>3. \A q \in gone, r \in sTable : r.parent = q.id => r \in gone
        BY <3>1, UnderIs DEF STypes
      <3> QED
        BY <1>4, <3>2, <3>3
    <2>3. CASE \E gone \in HalfGone(id) : SDeleted(w, gone, FALSE)
      <3>1. PICK gone \in HalfGone(id) : SDeleted(w, gone, FALSE)
        BY <2>3
      <3>2. gone \in SUBSET sTable /\ \A q \in gone, r \in sTable : r.parent = q.id => r \in gone
        BY <3>1 DEF HalfGone
      <3> QED
        BY <1>4, <3>1, <3>2
    <2>4. CASE sWorker' = [sWorker EXCEPT ![w].at = "endless"]
      <3>1. sWorker'[w] = [Idle EXCEPT !.at = "endless"]
        BY <1>1, <2>4 DEF Take, STypes, ServerTypes
      <3>2. sWorker'[w].at = "endless"
        BY <3>1 DEF Idle
      <3> QED
        BY <3>2 DEF Endless
    <2> QED
      BY <2>1, <2>2, <2>3, <2>4 DEF SDeleteOneDir
  <1> QED
    BY <1>5, <1>6

LEMMA RespondView ==
  ASSUME STypes, Closed, OneThing, NEW w \in SWorkers, SRespond(w)
  PROVE  Closed' /\ OneThing'
  <1>1. UNCHANGED <<sTable, sWorkQue, sGui, sView, sTask, sBehind>> /\ sWorker[w].at = "reply"
    BY DEF SRespond
  <1>2. /\ sWorkQue = <<>> /\ sWire = <<>> /\ sGui = <<>> /\ NoCount /\ Others(w)
        /\ \E m \in Answers : sWorker[w].rows = <<m>> /\ Tells(m)
    BY <1>1, OneWorks
  <1>3. PICK m \in Answers : sWorker[w].rows = <<m>> /\ Tells(m)
    BY <1>2
  <1>4. sWire' = <<m>>
    BY <1>2, <1>3 DEF SRespond
  <1>5. AllIdle'
    BY <1>2 DEF SRespond, STypes, ServerTypes, Others, AllIdle
  <1>6. Closed' /\ Tells(m)'
    BY <1>1, <1>3, ViewSame
  <1>7. sWorkQue' = <<>> /\ sGui' = <<>> /\ NoCount'
    BY <1>1, <1>2 DEF NoCount, sTask
  <1> QED
    BY <1>4, <1>5, <1>6, <1>7 DEF OneThing, Replied

\* By a message on the way, what is under way.
LEMMA OneSent ==
  ASSUME STypes, OneThing, sWire # <<>>
  PROVE  /\ sWorkQue = <<>> /\ sGui = <<>>
         /\ \/ \E R \in Lists : Listing(R) /\ (Counted(R) \/ RowsSent(R) \/ RowsCome(R))
            \/ Refused
            \/ Replied
  BY DEF OneThing, Settled, Quiet, Requested, Listed, Selected, Complete, Refused, Replying,
     Replied, Signalled, Counted, RowsSent, RowsCome

\* What a message is, by its type, so that one handler takes it.
LEMMA HandledAs ==
  ASSUME STypes, SDoing, NEW m, m = sWire[1]
  PROVE  /\ m.type = "CD"      => SHandleCD(m)
         /\ m.type = "ROW"     => SHandleFileInfo(m)
         /\ m.type = "MAKEDIR" => SHandleMakeDir(m)
         /\ m.type = "DELETE"  => SHandleDeleteFile(m)
  <1>1. m = Head(sWire)
    BY Received DEF STypes
  <1> QED
    BY <1>1 DEF SDoing, SHandleCD, SHandleFileInfo, SHandleMakeDir, SHandleDeleteFile

LEMMA CountedDoing ==
  ASSUME STypes, SDoing, NEW R \in Lists, Counted(R), sWire # <<>>
  PROVE  Counted(R)'
  <1>1. sWire = <<CountOf(R)>> /\ sWire[1] = CountOf(R) /\ R # <<>> /\ sGui = <<>> /\ sVet = <<>>
    BY DEF Counted
  <1>2. CountOf(R).type = "CD" /\ CountOf(R).ok = TRUE /\ CountOf(R).cnt = Len(R)
    BY DEF CountOf, Msg
  <1>3. SHandleCD(CountOf(R))
    BY <1>1, <1>2, HandledAs
  <1>4. sCnt' = Len(R) /\ sVet' = <<>> /\ sGui' = <<>>
    BY <1>1, <1>2, <1>3 DEF SHandleCD
  <1>5. sWire' = <<>> /\ sWorker' = sWorker
    BY <1>1 DEF SDoing, sServer
  <1>6. \E w \in SWorkers : Others(w) /\ sWorker[w] = [at |-> "rows", rows |-> R]
    BY DEF Counted
  <1>7. \E w \in SWorkers : Others(w)' /\ sWorker'[w] = [at |-> "rows", rows |-> R]
    BY <1>5, <1>6 DEF Others
  <1> QED
    BY <1>1, <1>4, <1>5, <1>7 DEF Counted

LEMMA RowsSentDoing ==
  ASSUME STypes, SDoing, NEW R \in Lists, RowsSent(R)
  PROVE  RowsCome(R)'
  <1>1. Len(sWire) = Len(R) + 1 /\ sWire[1] = CountOf(R) /\ R # <<>> /\ sGui = <<>> /\ sVet = <<>>
    BY DEF RowsSent, NoCount
  <1>2. CountOf(R).type = "CD" /\ CountOf(R).ok = TRUE /\ CountOf(R).cnt = Len(R)
    BY DEF CountOf, Msg
  <1>3. SHandleCD(CountOf(R))
    BY <1>1, <1>2, HandledAs
  <1>4. sCnt' = Len(R) /\ sVet' = <<>> /\ sGui' = <<>>
    BY <1>1, <1>2, <1>3 DEF SHandleCD
  <1>5. Len(R) \in Nat \ {0}
    BY <1>1 DEF Lists
  <1>6. Len(sWire') = Len(R) /\ \A i \in 1..Len(R) : sWire'[i] = sWire[i + 1]
    BY <1>1, <1>5, Received DEF STypes
  <1>7. \A i \in 1..Len(R) : sWire'[i] = RowOf(R[i])
    BY <1>6 DEF RowsSent
  <1>8. AllIdle'
    BY Received DEF RowsSent, AllIdle, STypes, sServer
  <1>9. Len(sVet') = 0 /\ sCnt' > 0 /\ sCnt' = Len(sWire')
    BY <1>4, <1>5, <1>6
  <1>10. Len(sVet') + sCnt' = Len(R)
    BY <1>4, <1>5, <1>9
  <1>11. \A i \in 1..Len(sVet') : sVet'[i] = R[i]
    BY <1>9
  <1>12. \A i \in 1..Len(sWire') : sWire'[i] = RowOf(R[Len(sVet') + i])
    <2> TAKE i \in 1..Len(sWire')
    <2>1. Len(sVet') + i = i /\ i \in 1..Len(R)
      BY <1>6, <1>9
    <2> QED
      BY <1>7, <2>1
  <1> QED
    BY <1>4, <1>8, <1>9, <1>10, <1>11, <1>12 DEF RowsCome, RowOf

\* Each row is put behind those that came, and with the last one the list is whole.
LEMMA RowsComeDoing ==
  ASSUME STypes, SDoing, NEW R \in Lists, RowsCome(R)
  PROVE  RowsCome(R)' \/ Complete(R)'
  <1> DEFINE n == Len(sWire)
             k == Len(sVet)
  <1>1. /\ n \in Nat \ {0} /\ sCnt = n /\ k + n = Len(R) /\ k \in Nat /\ sGui = <<>>
        /\ sVet \in Seq(Rows) /\ R \in Seq(Rows) /\ Len(R) \in Nat
    BY Received, CountTypes DEF RowsCome, STypes, TaskTypes, Lists
  <1>2. 1 \in 1..n /\ k + 1 \in 1..Len(R)
    BY <1>1
  <1>3. sWire[1] = RowOf(R[k + 1])
    BY <1>2 DEF RowsCome
  <1>4. R[k + 1] \in Rows
    BY <1>1, <1>2
  <1>5. RowOf(R[k + 1]).type = "ROW" /\ RowOf(R[k + 1]).row = R[k + 1]
    BY DEF RowOf, Msg
  <1>6. SHandleFileInfo(RowOf(R[k + 1]))
    BY <1>3, <1>5, HandledAs
  <1>7. Len(sWire') = n - 1 /\ \A i \in 1..(n - 1) : sWire'[i] = sWire[i + 1]
    BY Received DEF STypes
  <1>8. AllIdle'
    BY Received DEF RowsCome, AllIdle, STypes, sServer
  <1>9. PICK v : v = Append(sVet, R[k + 1])
    OBVIOUS
  <1>10. /\ v \in Seq(Rows) /\ Len(v) = k + 1
         /\ \A i \in 1..k : v[i] = sVet[i]
         /\ v[k + 1] = R[k + 1]
    BY <1>1, <1>4, <1>9, AppendIs
  <1>11. \A i \in 1..Len(v) : v[i] = R[i]
    <2> TAKE i \in 1..Len(v)
    <2>1. i \in 1..k \/ i = k + 1
      BY <1>1, <1>10
    <2> QED
      BY <1>10, <2>1 DEF RowsCome
  <1>12. CASE n = 1
    <2>1. /\ sCnt' = 0 /\ sVet' = <<>>
          /\ sGui' = Append(sGui, [signal |-> "list", rows |-> v])
      BY <1>1, <1>5, <1>6, <1>9, <1>12 DEF SHandleFileInfo
    <2>2. v = R
      <3>1. Len(v) = Len(R)
        BY <1>1, <1>10, <1>12
      <3> QED
        BY <1>1, <1>10, <1>11, <3>1
    <2>3. sWire' = <<>>
      BY <1>7, <1>12, EmptyIsLenZero, Received DEF STypes
    <2>4. R # <<>>
      BY <1>1, <1>12
    <2> QED
      BY <1>1, <1>8, <2>1, <2>2, <2>3, <2>4 DEF Complete, NoCount
  <1>13. CASE n > 1
    <2>1. sCnt' = n - 1 /\ sVet' = v /\ sGui' = <<>>
      <3>1. sCnt = n /\ sCnt # 0 /\ sCnt # 1
        BY <1>1, <1>13
      <3>2. /\ sCnt' = sCnt - 1 /\ sVet' = Append(sVet, RowOf(R[k + 1]).row)
            /\ sGui' = sGui
        BY <1>6, <3>1 DEF SHandleFileInfo
      <3> QED
        BY <1>1, <1>5, <1>9, <3>1, <3>2
    <2>2. \A i \in 1..(n - 1) : sWire'[i] = RowOf(R[(k + 1) + i])
      <3> TAKE i \in 1..(n - 1)
      <3>1. i + 1 \in 1..n /\ k + (i + 1) = (k + 1) + i
        BY <1>1
      <3>2. sWire[i + 1] = RowOf(R[k + (i + 1)])
        BY <3>1 DEF RowsCome
      <3> QED
        BY <1>7, <3>1, <3>2
    <2>3. Len(sVet') = k + 1
      BY <1>10, <2>1
    <2>4. sCnt' = Len(sWire') /\ sCnt' > 0 /\ (k + 1) + sCnt' = Len(R)
      <3>1. n \in Nat /\ k \in Nat /\ k + n = Len(R) /\ n > 1
        BY <1>1, <1>13
      <3>2. (k + 1) + (n - 1) = Len(R) /\ n - 1 > 0
        BY <3>1
      <3>3. sCnt' = n - 1 /\ Len(sWire') = n - 1
        BY <1>7, <2>1
      <3> QED
        BY <3>2, <3>3
    <2>5. Len(sVet') + sCnt' = Len(R)
      BY <2>3, <2>4
    <2>6. \A i \in 1..Len(sVet') : sVet'[i] = R[i]
      BY <1>11, <2>1
    <2>7. \A i \in 1..Len(sWire') : sWire'[i] = RowOf(R[Len(sVet') + i])
      BY <1>7, <2>2, <2>3
    <2> QED
      BY <1>8, <2>1, <2>4, <2>5, <2>6, <2>7 DEF RowsCome, RowOf
  <1> QED
    BY <1>1, <1>12, <1>13

LEMMA RepliedDoing ==
  ASSUME STypes, SDoing, Replied
  PROVE  Signalled' \/ Settled'
  <1>1. PICK m \in Answers : sWire = <<m>> /\ Tells(m)
    BY DEF Replied
  <1>2. sWire[1] = m /\ sWire' = <<>>
    BY <1>1 DEF SDoing
  <1>3. AllIdle' /\ sWorkQue' = <<>> /\ UNCHANGED <<sTable, sView>>
    BY Received DEF Replied, AllIdle, STypes, sServer
  <1>4. sGui = <<>> /\ NoCount
    BY DEF Replied
  <1>5. m.type \in {"MAKEDIR", "DELETE"} /\ (m.type = "MAKEDIR" /\ m.ok => m.row \in Dirs)
        /\ m.ok \in BOOLEAN
    BY DEF Answers
  <1>6. NoCount'
    BY <1>2, <1>4, <1>5, HandledAs DEF SHandleMakeDir, SHandleDeleteFile, NoCount, sTask
  <1>7. UNCHANGED sBehind
    BY <1>2, <1>5, HandledAs DEF SHandleMakeDir, SHandleDeleteFile
  <1>8. CASE m.type = "MAKEDIR" /\ m.ok
    <2>1. sGui' = <<[signal |-> "made", rows |-> <<m.row>>]>>
      BY <1>2, <1>4, <1>8, HandledAs DEF SHandleMakeDir
    <2>2. Lacks(m.row)'
      BY <1>1, <1>3, <1>8, <1>7, ViewSame DEF Tells
    <2>3. \A s : s = [signal |-> "made", rows |-> <<m.row>>] =>
            s \in Signals /\ s.signal = "made" /\ s.rows[1] = m.row
      BY <1>5, <1>8 DEF Signals
    <2>4. \E s \in Signals : sGui' = <<s>> /\ s.signal = "made" /\ s.rows[1] = m.row
      BY <2>1, <2>3
    <2> QED
      BY <1>2, <1>3, <1>6, <2>2, <2>4 DEF Signalled
  <1>9. CASE ~m.ok
    <2>1. sGui' = <<>>
      BY <1>2, <1>4, <1>5, <1>9, HandledAs DEF SHandleMakeDir, SHandleDeleteFile
    <2>2. Current'
      BY <1>1, <1>3, <1>9, <1>7, ViewSame DEF Tells
    <2> QED
      BY <1>2, <1>3, <1>6, <2>1, <2>2 DEF Settled, Quiet, AllIdle
  <1>10. CASE m.type = "DELETE" /\ m.ok
    <2>1. sGui' = <<[signal |-> "deleted", rows |-> <<>>]>>
      BY <1>2, <1>4, <1>10, HandledAs DEF SHandleDeleteFile
    <2>2. \A s : s = [signal |-> "deleted", rows |-> <<>>] => s \in Signals /\ s.signal = "deleted"
      BY DEF Signals
    <2> QED
      BY <1>2, <1>3, <1>6, <2>1, <2>2 DEF Signalled
  <1> QED
    BY <1>5, <1>8, <1>9, <1>10

LEMMA DoingView ==
  ASSUME STypes, Closed, OneThing, SDoing
  PROVE  Closed' /\ OneThing'
  <1>1. UNCHANGED <<sTable, sView>> /\ sWire # <<>> /\ sWorkQue' = sWorkQue
    BY DEF SDoing, sServer
  <1>2. Closed' /\ \A R : Listing(R)' <=> Listing(R)
    BY <1>1, TableSame
  <1>3. sWorkQue' = <<>>
    BY <1>1, OneSent
  <1>4. CASE \E R \in Lists : Listing(R) /\ (Counted(R) \/ RowsSent(R) \/ RowsCome(R))
    <2>1. PICK R \in Lists : Listing(R) /\ (Counted(R) \/ RowsSent(R) \/ RowsCome(R))
      BY <1>4
    <2>2. Listing(R)' /\ (Counted(R)' \/ RowsCome(R)' \/ Complete(R)')
      BY <1>1, <1>2, <2>1, CountedDoing, RowsSentDoing, RowsComeDoing
    <2> QED
      BY <1>2, <1>3, <2>2 DEF OneThing, Listed
  <1>5. CASE Refused
    <2>1. sWire[1] = Msg("CD", FALSE, 0, NoRow)
      BY <1>5 DEF Refused
    <2>2. SHandleCD(Msg("CD", FALSE, 0, NoRow))
      BY <2>1, HandledAs DEF Msg
    <2>3. sBehind' = (sBehind \/ ~FALSE) /\ sCnt' = 0 /\ sVet' = <<>> /\ sGui' = sGui
      BY <2>2 DEF SHandleCD, Msg
    <2>4. Current'
      BY <2>3, Zenon DEF Current
    <2>5. sWire' = <<>> /\ AllIdle'
      BY <1>5, Received DEF Refused, AllIdle, STypes, sServer, SDoing
    <2> QED
      BY <1>2, <1>3, <1>5, <2>3, <2>4, <2>5 DEF OneThing, Settled, Quiet, AllIdle, NoCount, Refused
  <1>6. CASE Replied
    BY <1>2, <1>6, RepliedDoing DEF OneThing
  <1> QED
    BY <1>1, <1>4, <1>5, <1>6, OneSent

\* initView and loadDir show a whole list.
LEMMA InitShows ==
  ASSUME STypes, NEW R, Listing(R), R # <<>>, InitView(R), UNCHANGED sTable
  PROVE  Shows(sTable)'
  <1>1. ToSet(R) = sTable /\ Len(R) = Cardinality(sTable)
    BY DEF Listing
  <1>2. PICK map \in SUBSET Folders(sTable) :
          /\ \A r \in Folders(sTable) : \E q \in map : q.id = r.id
          /\ sItems' = R /\ sMap' = map /\ LoadDir(R, map, Item(map, sCur).id)
    BY <1>1 DEF InitView, Folders
  <1>3. map = Folders(sTable)
    BY <1>2 DEF Folders, STypes, ServerTypes
  <1>4. PICK dir : dir = Item(map, sCur).id
    OBVIOUS
  <1>5. sCur' = dir /\ sHere' = Item(map, dir) /\ sShown' = {i \in DOMAIN R : R[i].parent = dir}
    BY <1>2, <1>4 DEF LoadDir
  <1>6. \/ sCur' = 0 /\ sHere' = NoRow
        \/ sHere' \in map /\ sHere'.id = sCur'
    <2>1. CASE \E r \in map : r.id = sCur
      <3>1. dir = sCur
        BY <1>4, <2>1, ItemIs
      <3> QED
        BY <1>5, <2>1, <3>1, ItemIs
    <2>2. CASE ~\E r \in map : r.id = sCur
      <3>1. dir = 0
        BY <1>4, <2>2, ItemIs DEF NoRow, SRow
      <3>2. \A r \in map : r.id # 0
        BY <1>3 DEF Folders, STypes, ServerTypes, Rows, SIds
      <3> QED
        BY <1>5, <3>1, <3>2, ItemIs
    <2> QED
      BY <2>1, <2>2
  <1> QED
    BY <1>1, <1>2, <1>3, <1>5, <1>6 DEF Shows, Folders

\* addNewDirItem completes a view that lacks the folder.
LEMMA NewItemShows ==
  ASSUME STypes, NEW row \in Dirs, Lacks(row), AddNewDirItem(row), UNCHANGED sTable
  PROVE  Shows(sTable)'
  <1> DEFINE T == sTable \ {row}
             n == Len(sItems)
  <1>1. row \in sTable /\ row.kind = "d" /\ row.parent = sCur /\ Shows(T)
    BY DEF Lacks
  <1>2. sItems \in Seq(Rows) /\ n \in Nat
    BY DEF STypes, ViewTypes
  <1>3. /\ sItems' \in Seq(Rows) /\ Len(sItems') = n + 1
        /\ \A i \in 1..n : sItems'[i] = sItems[i]
        /\ sItems'[n + 1] = row
    BY <1>2, AppendIs DEF AddNewDirItem, Dirs
  <1>4. DOMAIN sItems = 1..n /\ DOMAIN sItems' = (1..n) \cup {n + 1} /\ n + 1 \notin 1..n
    BY <1>2, <1>3
  <1>5. ToSet(sItems') = sTable
    <2>1. ToSet(sItems') = {sItems'[i] : i \in (1..n) \cup {n + 1}}
      BY <1>4 DEF ToSet
    <2>2. T = {sItems[i] : i \in 1..n}
      BY <1>1, <1>4 DEF Shows, ToSet
    <2>3. {sItems'[i] : i \in (1..n) \cup {n + 1}} = {sItems[i] : i \in 1..n} \cup {row}
      BY <1>3
    <2>4. T \cup {row} = sTable
      BY <1>1
    <2> QED
      BY <2>1, <2>2, <2>3, <2>4
  <1>6. Len(sItems') = Cardinality(sTable)
    <2>1. IsFiniteSet(sTable) /\ Cardinality(sTable) \in Nat
      BY FiniteTable, SessionAssumption DEF STypes
    <2>2. Cardinality(T) = Cardinality(sTable) - 1
      BY <1>1, <2>1, FS_RemoveElement
    <2>3. n = Cardinality(sTable) - 1
      BY <1>1, <2>2 DEF Shows
    <2> QED
      BY <1>3, <2>1, <2>3
  <1>7. sShown' = {i \in DOMAIN sItems' : sItems'[i].parent = sCur'}
    <2>1. sShown' = sShown \cup {n + 1} /\ sCur' = sCur
      BY DEF AddNewDirItem
    <2>2. sShown = {i \in 1..n : sItems[i].parent = sCur}
      BY <1>1, <1>4 DEF Shows
    <2> QED
      BY <1>1, <1>3, <1>4, <2>1, <2>2
  <1>8. sMap' = Folders(sTable)
    <2>1. \A r \in Folders(T) : r.id # row.id
      BY <1>1 DEF Folders, STypes, ServerTypes
    <2>2. sMap' = Folders(T) \cup {row}
      BY <1>1, <2>1 DEF AddNewDirItem, Shows
    <2> QED
      BY <1>1, <2>2 DEF Folders
  <1>9. (sCur' = 0 /\ sHere' = NoRow) \/ (sHere' \in sMap' /\ sHere'.id = sCur')
    BY <1>1 DEF AddNewDirItem, Shows
  <1> QED
    BY <1>5, <1>6, <1>7, <1>8, <1>9 DEF Shows, Folders

LEMMA SlotView ==
  ASSUME STypes, Closed, OneThing, SSlots
  PROVE  Closed' /\ OneThing'
  <1>1. sGui # <<>> /\ UNCHANGED <<sTable, sWorker, sWire, sTask>>
    BY DEF SSlots
  <1>2. Closed'
    BY <1>1 DEF Closed
  <1>3. (\E R \in Lists : sWorkQue = <<>> /\ Listing(R) /\ Complete(R)) \/ Signalled
    BY <1>1 DEF OneThing, Settled, Quiet, Requested, Listed, Selected, Counted, RowsSent, RowsCome,
       Refused, Replying, Replied
  <1>4. AllIdle /\ NoCount /\ sWire = <<>> /\ sWorkQue = <<>>
    BY <1>3 DEF Complete, Signalled
  <1>5. AllIdle' /\ NoCount' /\ sWire' = <<>>
    BY <1>1, <1>4 DEF AllIdle, NoCount, sTask
  <1>6. ASSUME NEW R \in Lists, Listing(R), Complete(R) PROVE OneThing'
    <2>1. Head(sGui).signal = "list" /\ Head(sGui).rows = R /\ sGui' = <<>>
      BY <1>6 DEF Complete, SSlots
    <2>2. InitView(R) /\ sWorkQue' = <<>>
      BY <1>4, <2>1 DEF SSlots
    <2>3. Shows(sTable)'
      BY <1>1, <1>6, <2>2, InitShows DEF Complete
    <2> QED
      BY <1>5, <2>1, <2>2, <2>3 DEF OneThing, Settled, Quiet, AllIdle, Current
  <1>7. ASSUME Signalled PROVE OneThing'
    <2>1. PICK s \in Signals :
            /\ sGui = <<s>>
            /\ (s.signal = "made" /\ Lacks(s.rows[1])) \/ s.signal = "deleted"
      BY <1>7 DEF Signalled
    <2>2. Head(sGui) = s /\ sGui' = <<>>
      BY <2>1 DEF SSlots
    <2>3. CASE s.signal = "made" /\ Lacks(s.rows[1])
      <3>1. AddNewDirItem(s.rows[1]) /\ sWorkQue' = <<>>
        BY <1>4, <2>2, <2>3 DEF SSlots
      <3>2. s.rows[1] \in Dirs
        BY <2>3 DEF Signals
      <3>3. Shows(sTable)'
        BY <1>1, <2>3, <3>1, <3>2, NewItemShows
      <3> QED
        BY <1>5, <2>2, <3>1, <3>3 DEF OneThing, Settled, Quiet, AllIdle, Current
    <2>4. CASE s.signal = "deleted"
      <3>1. sWorkQue' = GetFileList
        BY <2>2, <2>4 DEF SSlots
      <3>2. sWorkQue' = <<SRequest("CD", NoRow)>>
        BY <1>4, <3>1 DEF GetFileList, NoCount
      <3>3. \A q : q = SRequest("CD", NoRow) => q \in Requests /\ Asks(q)'
        BY DEF SRequest, NoRow, SRow, Requests, AnyRow, Asks
      <3> QED
        BY <1>5, <2>2, <3>2, <3>3 DEF OneThing, Requested
    <2> QED
      BY <2>1, <2>3, <2>4
  <1> QED
    BY <1>2, <1>3, <1>6, <1>7

LEMMA QuietRests ==
  ASSUME STypes, OneThing, Quiet
  PROVE  Settled
  <1>1. \A w \in SWorkers : sWorker[w].at = "idle"
    BY IdleIs DEF Quiet
  <1>2. ~Requested /\ ~Refused /\ ~Replied /\ ~Signalled
    BY DEF Quiet, Requested, Refused, Replied, Signalled
  <1>3. ASSUME NEW w \in SWorkers, NEW j, j.at # "idle" PROVE sWorker[w] # j
    BY <1>1, <1>3
  <1>4. ~Replying
    <2>1. \A m : [at |-> "reply", rows |-> <<m>>].at # "idle"
      OBVIOUS
    <2> QED
      BY <1>3, <2>1 DEF Replying
  <1>5. \A R \in Lists : ~Selected(R) /\ ~Counted(R)
    <2>1. \A R : [at |-> "answer", rows |-> R].at # "idle" /\ [at |-> "rows", rows |-> R].at # "idle"
      OBVIOUS
    <2> QED
      BY <1>3, <2>1 DEF Selected, Counted
  <1>6. \A R \in Lists : ~RowsSent(R) /\ ~RowsCome(R) /\ ~Complete(R)
    BY EmptyIsLenZero DEF Quiet, RowsSent, RowsCome, Complete, Lists
  <1> QED
    BY <1>2, <1>4, <1>5, <1>6 DEF OneThing, Listed

\* A user who waits acts when nothing is under way, and makes no folder in a view that
\* is behind.
LEMMA ClickView ==
  ASSUME STypes, Closed, OneThing, Clicks, ~sHasty'
  PROVE  Closed' /\ OneThing'
  <1>1. Quiet /\ (SMakeDir => ~sBehind)
    BY ClickIs
  <1>2. Settled
    BY <1>1, QuietRests
  <1>3. NoCount /\ Current /\ sWorkQue = <<>>
    BY <1>2 DEF Settled, Quiet
  <1>4. UNCHANGED <<sTable, sWorker, sWire, sTask, sGui, sBehind>>
    BY DEF Clicks, SRefresh, SMakeDir, SDelFile, SDoubleClick, SBack, sServer
  <1>5. Closed' /\ AllIdle' /\ NoCount' /\ sWire' = <<>> /\ sGui' = <<>>
    BY <1>1, <1>3, <1>4 DEF Closed, AllIdle, NoCount, Quiet, sTask
  <1>6. ASSUME NEW q \in Requests, sWorkQue' = Append(<<>>, q), Asks(q)' PROVE OneThing'
    <2>1. sWorkQue' = <<q>>
      BY <1>6
    <2> QED
      BY <1>5, <1>6, <2>1 DEF OneThing, Requested
  <1>7. CASE SRefresh
    <2>1. sWorkQue' = Append(<<>>, SRequest("CD", NoRow))
      BY <1>3, <1>7 DEF SRefresh, GetFileList, NoCount
    <2>2. SRequest("CD", NoRow) \in Requests /\ \A q : q = SRequest("CD", NoRow) => Asks(q)'
      BY DEF SRequest, NoRow, SRow, Requests, AnyRow, Asks
    <2> QED
      BY <1>5, <1>6, <2>1, <2>2
  <1>8. CASE SMakeDir
    <2>1. PICK q : q = SRequest("MAKEDIR", SRow(0, "d", sHere.id))
      OBVIOUS
    <2>2. sWorkQue' = Append(<<>>, q) /\ UNCHANGED sView
      BY <1>3, <1>8, <2>1 DEF SMakeDir
    <2>3. Shows(sTable)
      BY <1>1, <1>3, <1>8 DEF Current
    <2>4. sHere.id = sCur
      BY <2>3 DEF Shows, NoRow, SRow
    <2>5. q \in Requests /\ q.op = "MAKEDIR" /\ q.row.parent = sCur
      BY <2>1, <2>4 DEF SRequest, SRow, Requests, AnyRow, STypes, ViewTypes
    <2>6. Shows(sTable)' /\ sCur' = sCur
      BY <1>4, <2>2, <2>3, ViewSame DEF sView
    <2>7. Asks(q)'
      BY <2>5, <2>6 DEF Asks
    <2> QED
      BY <1>5, <1>6, <2>2, <2>5, <2>7
  <1>9. CASE SDelFile
    <2>1. PICK i \in sShown : sWorkQue' = Append(<<>>, SRequest("DELETE", sItems[i])) /\ UNCHANGED sView
      BY <1>3, <1>9 DEF SDelFile
    <2>2. sItems[i] \in Rows
      BY DEF STypes, ViewTypes
    <2>3. PICK q : q = SRequest("DELETE", sItems[i])
      OBVIOUS
    <2>4. q \in Requests /\ q.op = "DELETE"
      BY <2>2, <2>3 DEF SRequest, Requests, AnyRow
    <2>5. Asks(q)'
      BY <1>3, <1>4, <2>1, <2>4, ViewSame DEF Asks
    <2> QED
      BY <1>5, <1>6, <2>1, <2>3, <2>4, <2>5
  <1>10. ASSUME NEW dir, LoadDir(sItems, sMap, dir), UNCHANGED <<sServer, sItems, sMap>>,
                Shows(sTable) => dir = 0 \/ \E r \in sMap : r.id = dir
         PROVE  OneThing'
    <2>1. sWorkQue' = <<>>
      BY <1>3, <1>10 DEF sServer
    <2>2. ASSUME Shows(sTable) PROVE Shows(sTable)'
      <3>1. sCur' = dir /\ sHere' = Item(sMap, dir)
            /\ sShown' = {i \in DOMAIN sItems : sItems[i].parent = dir}
        BY <1>10 DEF LoadDir
      <3>2. (sCur' = 0 /\ sHere' = NoRow) \/ (sHere' \in sMap /\ sHere'.id = sCur')
        <4>1. CASE \E r \in sMap : r.id = dir
          BY <3>1, <4>1, ItemIs
        <4>2. CASE ~\E r \in sMap : r.id = dir
          BY <1>10, <2>2, <3>1, <4>2, ItemIs
        <4> QED
          BY <4>1, <4>2
      <3> QED
        BY <1>4, <1>10, <2>2, <3>1, <3>2 DEF Shows, Folders
    <2>3. Current'
      <3>1. sBehind' <=> sBehind
        BY <1>4, Zenon
      <3> QED
        BY <1>3, <2>2, <3>1, Zenon DEF Current
    <2> QED
      BY <1>5, <2>1, <2>3 DEF OneThing, Settled, Quiet, AllIdle
  <1>11. CASE SDoubleClick
    <2>1. PICK i \in sShown : sItems[i].kind = "d" /\ LoadDir(sItems, sMap, sItems[i].id)
      BY <1>11 DEF SDoubleClick
    <2>2. ASSUME Shows(sTable) PROVE \E r \in sMap : r.id = sItems[i].id
      <3>1. sItems[i] \in sTable
        BY <2>1, <2>2 DEF Shows, ToSet
      <3> QED
        BY <2>1, <2>2, <3>1 DEF Shows, Folders
    <2> QED
      BY <1>5, <1>10, <1>11, <2>1, <2>2 DEF SDoubleClick
  <1>12. CASE SBack
    <2>1. sCur # 0 /\ LoadDir(sItems, sMap, sHere.parent)
      BY <1>12 DEF SBack
    <2>2. ASSUME Shows(sTable) PROVE sHere.parent = 0 \/ \E r \in sMap : r.id = sHere.parent
      <3>1. sHere \in sTable
        BY <2>1, <2>2 DEF Shows, Folders
      <3> QED
        BY <2>2, <3>1 DEF Shows, Folders, Closed
    <2> QED
      BY <1>5, <1>10, <1>12, <2>1, <2>2 DEF SBack
  <1> QED
    BY <1>5, <1>7, <1>8, <1>9, <1>11, <1>12 DEF Clicks

LEMMA InitViewInv == SInit => ViewInv
  <1> SUFFICES ASSUME SInit PROVE Closed /\ OneThing
    BY DEF ViewInv
  <1>1. Closed
    BY DEF SInit, Closed, SRow
  <1>2. SRequest("CD", NoRow) \in Requests /\ \A q : q = SRequest("CD", NoRow) => Asks(q)
    BY DEF SRequest, NoRow, SRow, Requests, AnyRow, Asks
  <1>3. AllIdle /\ NoCount
    BY DEF SInit, AllIdle, NoCount
  <1> QED
    BY <1>1, <1>2, <1>3 DEF SInit, OneThing, Requested

LEMMA ViewStep ==
  ASSUME STypes, ViewInv, [SNext]_sVars
  PROVE  ViewInv'
  <1>1. sHasty => sHasty'
    <2>1. CASE Clicks
      BY <2>1, ClickIs
    <2>2. CASE SDoing \/ SSlots \/ UNCHANGED sVars \/ \E w \in SWorkers : ServerActs(w)
      BY <2>2, Zenon DEF SDoing, SSlots, sVars, ServerActs, SCdSelect, SCdAnswer, SSendFileInfo,
         SCreateDir, SDeleteTool, SRespond, sUser
    <2> QED
      BY <2>1, <2>2, NextIs
  <1> SUFFICES ASSUME ~sHasty' PROVE Endless' \/ (Closed' /\ OneThing')
    BY DEF ViewInv
  <1>2. Endless \/ (Closed /\ OneThing)
    BY <1>1 DEF ViewInv
  <1>3. CASE Endless
    BY <1>3, EndlessKept
  <1>4. CASE Closed /\ OneThing
    <2>1. ASSUME NEW w \in SWorkers, ServerActs(w) PROVE Endless' \/ (Closed' /\ OneThing')
      BY <1>4, <2>1, SelectView, AnswerView, SendView, CreateView, DeleteView, RespondView DEF ServerActs
    <2>2. CASE UNCHANGED sVars
      <3>1. UNCHANGED <<sTable, sView, sWorkQue, sWorker, sWire, sTask, sGui, sBehind>>
        BY <2>2 DEF sVars, sView, sTask
      <3> QED
        BY <1>4, <2>2, ZenonT(30) DEF sVars, Closed, OneThing, Settled, Requested, Listed, Refused, Replying,
           Replied, Signalled, Quiet, NoCount, AllIdle, Others, Shows, Current, Lacks, Asks, Listing,
           Selected, Counted, RowsSent, RowsCome, Complete, Tells
    <2> QED
      BY <1>4, <2>1, <2>2, NextIs, DoingView, SlotView, ClickView
  <1> QED
    BY <1>2, <1>3, <1>4

\* A user who waits for each answer is shown the rows of the table, whatever pool
\* thread serves which request, unless the client was told nothing of a change: a list
\* was refused or a request failed half-way, and no list has been shown since
\* (handleFileInfo, initView, addNewDirItem, getFileList, deleteOneDir).
THEOREM ViewIsTable == SSpec => []SViewIsTable
  <1>1. ASSUME STypes, ViewInv, Quiet, ~sHasty, ~sBehind PROVE Shows(sTable)
    <2>1. ~Endless
      BY <1>1, IdleIs DEF Quiet, Endless
    <2>2. OneThing
      BY <1>1, <2>1 DEF ViewInv
    <2> QED
      BY <1>1, <2>2, QuietRests DEF Settled, Current
  <1>2. ASSUME Shows(sTable)
        PROVE  /\ ToSet(sItems) = sTable /\ Len(sItems) = Cardinality(sTable)
               /\ {sItems[i] : i \in sShown} = {r \in sTable : r.parent = sCur}
               /\ sMap = {r \in sTable : r.kind = "d"}
    <2>1. {sItems[i] : i \in sShown} = {r \in ToSet(sItems) : r.parent = sCur}
      BY <1>2 DEF Shows, ToSet
    <2> QED
      BY <1>2, <2>1 DEF Shows, Folders
  <1>3. STypes /\ ViewInv => SViewIsTable
    BY <1>1, <1>2 DEF SViewIsTable
  <1> QED
    BY <1>3, SessionInitTypes, InitViewInv, TypesStep, ViewStep, PTL DEF SSpec
=============================================================================
