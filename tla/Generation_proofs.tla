--------------------------- MODULE Generation_proofs ---------------------------
(***************************************************************************)
(* For any number of sessions, requests and generations: a session that     *)
(* says generated has its output, and, in the executions without the        *)
(* meetings each property excludes, its archive, no container left behind   *)
(* and no sweep that condemns a generation that runs.                       *)
(***************************************************************************)
EXTENDS Generation, TLAPS

(* The types of what a step changes.                                         *)
GenState == [s : MaybeSession, won : BOOLEAN, copy : SUBSET Gen,
             pc : {"none", "mark", "create", "start", "wait", "job",
                   "generated", "copy", "upload", "crash"}]
BoxState == [g : MaybeGen, st : {"none", "created", "running", "done", "failed"}]
RequestState == [op : {"none", "generate", "delete", "drop"}, s : MaybeSession, new : BOOLEAN]
RowState == [status : Status, job : MaybeGen, file : MaybeGen]

(* What is at work is at work on a session.                                  *)
Known ==
    /\ \A g \in Gen : gen[g] = NoGoroutine \/ (gen[g].s \in Session /\ gen[g].pc # "none")
    /\ \A q \in Request : req[q] = NoRequest \/ (req[q].s \in Session /\ req[q].op # "none")

(* A container of a generation that ended well has put its output there.     *)
BoxKnown ==
    \A s \in Session :
        /\ box[s] = NoBox \/ (box[s].g \in Gen /\ box[s].st # "none")
        /\ box[s].st = "done" => box[s].g \in vol[s]

(* A goroutine past its container that won has its output in the volume, if  *)
(* the answer it had was no error.                                            *)
WonHasOutput ==
    "delete" \notin env =>
        \A g \in Gen :
            /\ gen[g].pc \in {"generated", "copy"} => gen[g].won
            /\ (gen[g].won /\ gen[g].pc \in {"job", "generated", "copy"})
                 => g \in vol[gen[g].s] \cup misread

(* So has every row that names one, whatever it says.                        *)
RowHasOutput ==
    "delete" \notin env =>
        \A s \in Session :
            /\ rows[s].file # NoGen \/ rows[s].status = "generated"
            /\ ~DeleteOn(s)
            => rows[s].file \in vol[s] \cup misread

(* A deletion nothing meets has its session for itself.                      *)
DeleteAlone ==
    "delete" \notin env =>
        \A q \in Request : req[q].op \in {"delete", "drop"} =>
            /\ \A g \in Gen : gen[g].s # req[q].s
            /\ \A p \in Request : req[p].s = req[q].s => p = q

------------------------------------------------------------------------------
LEMMA NoneOf ==
    /\ NoGoroutine.s = NoSession /\ NoGoroutine.pc = "none" /\ NoGoroutine.won = FALSE
    /\ NoRequest.s = NoSession /\ NoRequest.op = "none"
    /\ NoBox.g = NoGen /\ NoBox.st = "none"
    /\ NoItem.s = NoSession /\ NoItem.job = NoGen
    /\ Asleep.todo = {} /\ Asleep.cur = NoItem
    /\ NoSession \notin Session /\ NoGen \notin Gen
BY GenerationAssumption DEF NoGoroutine, NoRequest, NoBox, NoItem, Asleep

LEMMA TypeInit == Init => TypeOK
<1> SUFFICES ASSUME Init PROVE TypeOK
  OBVIOUS
<1>1. rows \in [Session -> [status : Status, job : MaybeGen, file : MaybeGen]]
  BY DEF Init, NoRow, Status, MaybeGen
<1>2. box \in [Session -> [g : MaybeGen, st : {"none", "created", "running", "done", "failed"}]]
  BY DEF Init, NoBox, MaybeGen
<1>3. gen \in [Gen -> GenState]
  BY DEF Init, NoGoroutine, GenState, MaybeSession
<1>4. req \in [Request -> [op : {"none", "generate", "delete", "drop"},
                          s : MaybeSession, new : BOOLEAN]]
  BY DEF Init, NoRequest, MaybeSession
<1>5. sw \in [todo : SUBSET Item, cur : Item \cup {NoItem}]
  BY DEF Init, Asleep
<1>6. vol \in [Session -> SUBSET Gen] /\ art \in [Session -> SUBSET Gen]
  BY DEF Init
<1>7. /\ phase \in {"boot", "crash", "serve"} /\ env \in SUBSET Meetings /\ restarted \in BOOLEAN
      /\ misread \in SUBSET Gen /\ relaunched \in SUBSET Session
  BY GenerationAssumption DEF Init
<1> QED BY <1>1, <1>2, <1>3, <1>4, <1>5, <1>6, <1>7 DEF TypeOK, GenState

------------------------------------------------------------------------------
LEMMA Typing ==
    TypeOK <=>
        /\ rows \in [Session -> RowState] /\ box \in [Session -> BoxState]
        /\ vol \in [Session -> SUBSET Gen] /\ art \in [Session -> SUBSET Gen]
        /\ gen \in [Gen -> GenState] /\ req \in [Request -> RequestState]
        /\ sw \in [todo : SUBSET Item, cur : Item \cup {NoItem}]
        /\ phase \in {"boot", "crash", "serve"} /\ env \in SUBSET Meetings /\ restarted \in BOOLEAN
        /\ misread \in SUBSET Gen /\ relaunched \in SUBSET Session
BY DEF TypeOK, RowState, GenState, BoxState, RequestState

LEMMA UpdateTypes ==
    ASSUME TypeOK, NEW s \in Session, NEW row \in RowState, Update(s, row)
    PROVE  /\ rows' \in [Session -> RowState]
           /\ rows'[s] = IF Present(s) THEN row ELSE rows[s]
           /\ \A t \in Session : t # s => rows'[t] = rows[t]
BY Typing DEF Update

(* The four updates, each of one row, if there is one.                       *)
LEMMA Updates ==
    ASSUME TypeOK, NEW s \in Session
    PROVE  /\ UpdatePending(s) =>
                /\ rows' \in [Session -> RowState]
                /\ \A t \in Session : t # s => rows'[t] = rows[t]
                /\ rows'[s].status = IF Present(s) THEN "pending" ELSE "absent"
                /\ rows'[s].job = rows[s].job /\ rows'[s].file = rows[s].file
           /\ \A job \in MaybeGen : UpdateGenerating(s, job) =>
                /\ rows' \in [Session -> RowState]
                /\ \A t \in Session : t # s => rows'[t] = rows[t]
                /\ rows'[s].status = IF Present(s) THEN "generating" ELSE "absent"
                /\ Present(s) => rows'[s].job = job
                /\ rows'[s].file = rows[s].file
           /\ \A file \in MaybeGen : UpdateGenerated(s, file) =>
                /\ rows' \in [Session -> RowState]
                /\ \A t \in Session : t # s => rows'[t] = rows[t]
                /\ rows'[s].status = IF Present(s) THEN "generated" ELSE "absent"
                /\ Present(s) => rows'[s].file = file
           /\ UpdateCrashed(s) =>
                /\ rows' \in [Session -> RowState]
                /\ \A t \in Session : t # s => rows'[t] = rows[t]
                /\ rows'[s].status = IF Present(s) THEN "crashed" ELSE "absent"
                /\ rows'[s].job = rows[s].job /\ rows'[s].file = rows[s].file
<1>1. rows[s] \in RowState /\ (~Present(s) => rows[s].status = "absent")
  BY Typing DEF Present
<1>2. ASSUME UpdatePending(s)
      PROVE  /\ rows' \in [Session -> RowState]
             /\ \A t \in Session : t # s => rows'[t] = rows[t]
             /\ rows'[s].status = IF Present(s) THEN "pending" ELSE "absent"
             /\ rows'[s].job = rows[s].job /\ rows'[s].file = rows[s].file
  BY <1>1, <1>2, UpdateTypes DEF UpdatePending, RowState, Status
<1>3. ASSUME NEW job \in MaybeGen, UpdateGenerating(s, job)
      PROVE  /\ rows' \in [Session -> RowState]
             /\ \A t \in Session : t # s => rows'[t] = rows[t]
             /\ rows'[s].status = IF Present(s) THEN "generating" ELSE "absent"
             /\ Present(s) => rows'[s].job = job
             /\ rows'[s].file = rows[s].file
  BY <1>1, <1>3, UpdateTypes DEF UpdateGenerating, RowState, Status
<1>4. ASSUME NEW file \in MaybeGen, UpdateGenerated(s, file)
      PROVE  /\ rows' \in [Session -> RowState]
             /\ \A t \in Session : t # s => rows'[t] = rows[t]
             /\ rows'[s].status = IF Present(s) THEN "generated" ELSE "absent"
             /\ Present(s) => rows'[s].file = file
  BY <1>1, <1>4, UpdateTypes DEF UpdateGenerated, RowState, Status, MaybeGen
<1>5. ASSUME UpdateCrashed(s)
      PROVE  /\ rows' \in [Session -> RowState]
             /\ \A t \in Session : t # s => rows'[t] = rows[t]
             /\ rows'[s].status = IF Present(s) THEN "crashed" ELSE "absent"
             /\ rows'[s].job = rows[s].job /\ rows'[s].file = rows[s].file
  BY <1>1, <1>5, UpdateTypes DEF UpdateCrashed, RowState, Status
<1> QED BY <1>2, <1>3, <1>4, <1>5

------------------------------------------------------------------------------
(* What the helpers of a goroutine do to the goroutines.                     *)
Onward == {"create", "start", "wait", "job", "generated", "copy", "crash"}

LEMMA Moves ==
    ASSUME TypeOK, Known, NEW g \in Gen, gen[g].pc # "none"
    PROVE  /\ gen[g].s \in Session
           /\ \A pc \in Onward, won \in BOOLEAN : Goto(g, pc, won) =>
                /\ gen' \in [Gen -> GenState]
                /\ \A h \in Gen : h # g => gen'[h] = gen[h]
                /\ gen'[g].s = gen[g].s /\ gen'[g].pc = pc /\ gen'[g].won = won
           /\ GoCrash(g) =>
                /\ gen' \in [Gen -> GenState]
                /\ \A h \in Gen : h # g => gen'[h] = gen[h]
                /\ gen'[g].s = gen[g].s /\ gen'[g].pc = "crash" /\ gen'[g].won = FALSE
           /\ Done(g) =>
                /\ gen' \in [Gen -> GenState]
                /\ \A h \in Gen : h # g => gen'[h] = gen[h]
                /\ gen'[g] = NoGoroutine
<1>1. gen[g].s \in Session
  BY NoneOf DEF Known
<1>2. gen \in [Gen -> GenState] /\ NoGoroutine \in GenState
  BY Typing DEF NoGoroutine, GenState, MaybeSession
<1>3. ASSUME NEW pc \in Onward, NEW won \in BOOLEAN, Goto(g, pc, won)
      PROVE  /\ gen' \in [Gen -> GenState]
             /\ \A h \in Gen : h # g => gen'[h] = gen[h]
             /\ gen'[g].s = gen[g].s /\ gen'[g].pc = pc /\ gen'[g].won = won
  <2>1. [s |-> gen[g].s, pc |-> pc, won |-> won, copy |-> {}] \in GenState
    BY <1>1 DEF GenState, MaybeSession, Onward
  <2> QED BY <1>2, <1>3, <2>1 DEF Goto
<1>4. Done(g) =>
         /\ gen' \in [Gen -> GenState]
         /\ \A h \in Gen : h # g => gen'[h] = gen[h]
         /\ gen'[g] = NoGoroutine
  BY <1>2 DEF Done
<1>5. GoCrash(g) => Goto(g, "crash", FALSE) /\ "crash" \in Onward /\ FALSE \in BOOLEAN
  BY DEF GoCrash, Onward
<1> QED BY <1>1, <1>3, <1>4, <1>5

LEMMA SetsBox ==
    ASSUME TypeOK, NEW s \in Session, NEW g \in Gen,
           NEW st \in {"created", "running", "done", "failed"},
           box' = [box EXCEPT ![s] = [g |-> g, st |-> st]]
    PROVE  /\ box' \in [Session -> BoxState]
           /\ \A r \in Session : r # s => box'[r] = box[r]
           /\ box'[s] = [g |-> g, st |-> st] /\ box'[s].g = g /\ box'[s].st = st
<1>1. box \in [Session -> BoxState]
  BY Typing
<1>2. [g |-> g, st |-> st] \in BoxState
  BY DEF BoxState, MaybeGen
<1> QED BY <1>1, <1>2

(* A removal takes the container away, if it is obeyed.                      *)
Removes(g) ==
    \/ box'[gen[g].s] = IF box[gen[g].s].g = g THEN NoBox ELSE box[gen[g].s]
    \/ "refused" \in env /\ box'[gen[g].s] = box[gen[g].s]

LEMMA RemovesBox ==
    ASSUME TypeOK, NEW g \in Gen, gen[g].s \in Session, RemoveBox(g)
    PROVE  /\ box' \in [Session -> BoxState]
           /\ \A s \in Session : s # gen[g].s => box'[s] = box[s]
           /\ Removes(g)
<1>1. box \in [Session -> BoxState] /\ NoBox \in BoxState
  BY DEF TypeOK, BoxState, NoBox, MaybeGen
<1> QED BY <1>1 DEF RemoveBox, Removes

------------------------------------------------------------------------------
(* Types and work known: every goroutine.                                    *)
KnownInv == TypeOK /\ Known

LEMMA RunKnown ==
    ASSUME KnownInv, NEW g \in Gen,
           \/ MarkGenerating(g) \/ CreateBox(g) \/ StartBox(g) \/ WaitBox(g) \/ StoreJob(g)
           \/ MarkGenerated(g) \/ CopyOutput(g) \/ UploadOutput(g) \/ MarkCrashed(g)
    PROVE  KnownInv'
<1> DEFINE s == gen[g].s
<1>1. TypeOK /\ Known
  BY DEF KnownInv
<1>2. gen[g].pc # "none" /\ s \in Session /\ gen[g].won \in BOOLEAN
  <2>1. gen[g].pc # "none" /\ gen[g] \in GenState
    BY <1>1, Typing DEF MarkGenerating, CreateBox, StartBox, WaitBox, StoreJob, MarkGenerated,
         CopyOutput, UploadOutput, MarkCrashed, At
  <2> QED BY <2>1, <1>1, Moves DEF GenState
<1>3. UNCHANGED <<req, sw, phase, env, restarted>>
  BY DEF MarkGenerating, CreateBox, StartBox, WaitBox, StoreJob, MarkGenerated,
         CopyOutput, UploadOutput, MarkCrashed, At, Serving, disk
<1>h. misread' \in SUBSET Gen /\ relaunched' \in SUBSET Session
  BY <1>1, Typing DEF MarkGenerating, CreateBox, StartBox, WaitBox, StoreJob, MarkGenerated,
         CopyOutput, UploadOutput, MarkCrashed, WaitAnsweredByError, known
<1>4. ASSUME UNCHANGED <<req, sw, phase, env, restarted>>,
             rows' \in [Session -> RowState], box' \in [Session -> BoxState],
             vol' = vol, art' \in [Session -> SUBSET Gen],
             gen' \in [Gen -> GenState], \A h \in Gen : h # g => gen'[h] = gen[h],
             gen'[g] = NoGoroutine \/ (gen'[g].s = s /\ gen'[g].pc # "none")
      PROVE  KnownInv'
  <2>1. TypeOK'
    BY <1>1, <1>4, <1>h, Typing DEF TypeOK, RowState, BoxState, GenState, RequestState
  <2>2. Known'
    BY <1>1, <1>2, <1>4 DEF Known
  <2> QED BY <2>1, <2>2 DEF KnownInv
<1> DEFINE GenKnown ==
             /\ gen' \in [Gen -> GenState]
             /\ \A h \in Gen : h # g => gen'[h] = gen[h]
             /\ gen'[g] = NoGoroutine \/ (gen'[g].s = s /\ gen'[g].pc # "none")
<1>5. ASSUME NEW pc \in Onward, NEW won \in BOOLEAN, Goto(g, pc, won)
      PROVE  GenKnown
  <2>1. pc # "none"
    BY DEF Onward
  <2> QED BY <1>1, <1>2, <1>5, <2>1, Moves
<1>6. (GoCrash(g) => GenKnown) /\ (Done(g) => GenKnown)
  BY <1>1, <1>2, Moves
<1>7. UNCHANGED rows => rows' \in [Session -> RowState]
  BY <1>1, Typing
<1>8. UNCHANGED box => box' \in [Session -> BoxState]
  BY <1>1, Typing
<1>9. UNCHANGED art => art' \in [Session -> SUBSET Gen]
  BY <1>1, Typing
<1>10. RemoveBox(g) => box' \in [Session -> BoxState]
  BY <1>1, <1>2, RemovesBox
<1> HIDE DEF GenKnown
<1>11. CASE MarkGenerating(g)
  <2>1. rows' \in [Session -> RowState]
    BY <1>11, <1>1, <1>2, Updates DEF MarkGenerating, MaybeGen
  <2>2. GenKnown
    BY <1>11, <1>5 DEF Onward, MarkGenerating
  <2> QED BY <2>1, <2>2, <1>11, <1>4, <1>3, <1>8, <1>9 DEF MarkGenerating, GenKnown
<1>12. CASE CreateBox(g)
  <2>1. box' \in [Session -> BoxState]
    BY <1>12, <1>1, <1>2, <1>8, SetsBox DEF CreateBox
  <2>2. GenKnown
    BY <1>12, <1>5, <1>6 DEF Onward, CreateBox
  <2> QED BY <2>1, <2>2, <1>12, <1>4, <1>3, <1>7, <1>9 DEF CreateBox, GenKnown
<1>13. CASE StartBox(g)
  <2>1. box' \in [Session -> BoxState]
    BY <1>13, <1>1, <1>2, <1>10, SetsBox DEF StartBox
  <2>2. GenKnown
    BY <1>13, <1>5, <1>6 DEF Onward, StartBox
  <2> QED BY <2>1, <2>2, <1>13, <1>4, <1>3, <1>7, <1>9 DEF StartBox, GenKnown
<1>14. CASE WaitBox(g)
  <2>1. GenKnown
    BY <1>14, <1>5, <1>6 DEF Onward, WaitBox, WaitAnsweredByError
  <2> QED BY <2>1, <1>14, <1>4, <1>3, <1>7, <1>9, <1>10 DEF WaitBox, GenKnown
<1>15. CASE StoreJob(g)
  <2>1. rows' \in [Session -> RowState]
    BY <1>15, <1>1, <1>2, Updates DEF StoreJob, MaybeGen
  <2>2. GenKnown
    BY <1>15, <1>5, <1>6 DEF Onward, StoreJob
  <2> QED BY <2>1, <2>2, <1>15, <1>4, <1>3, <1>8, <1>9 DEF StoreJob, GenKnown
<1>16. CASE MarkGenerated(g)
  <2>1. rows' \in [Session -> RowState]
    BY <1>16, <1>1, <1>2, Updates DEF MarkGenerated, MaybeGen
  <2>2. GenKnown
    BY <1>16, <1>5, <1>6 DEF Onward, MarkGenerated
  <2> QED BY <2>1, <2>2, <1>16, <1>4, <1>3, <1>8, <1>9 DEF MarkGenerated, GenKnown
<1>17. CASE CopyOutput(g)
  <2>1. vol[s] \in SUBSET Gen /\ gen \in [Gen -> GenState]
    BY <1>1, <1>2, Typing
  <2>2. [s |-> s, pc |-> "upload", won |-> TRUE, copy |-> vol[s]] \in GenState
    BY <2>1, <1>2 DEF GenState, MaybeSession
  <2>4. ASSUME GoCrash(g) PROVE GenKnown
    BY <1>6, <2>4
  <2>5. ASSUME gen' = [gen EXCEPT ![g] = [s |-> s, pc |-> "upload", won |-> TRUE, copy |-> vol[s]]]
        PROVE  GenKnown
    BY <2>5, <2>1, <2>2 DEF GenKnown
  <2>3. GenKnown
    BY <1>17, <2>4, <2>5 DEF CopyOutput
  <2> QED BY <2>3, <1>17, <1>4, <1>3, <1>7, <1>8, <1>9 DEF CopyOutput, GenKnown, disk
<1>18. CASE UploadOutput(g)
  <2>1. gen[g].copy \in SUBSET Gen
    BY <1>1, Typing DEF GenState
  <2>2. art' \in [Session -> SUBSET Gen]
    BY <1>18, <1>1, <1>2, <1>9, <2>1, Typing DEF UploadOutput
  <2>3. GenKnown
    BY <1>18, <1>6 DEF UploadOutput
  <2> QED BY <2>2, <2>3, <1>18, <1>4, <1>3, <1>7, <1>8 DEF UploadOutput, GenKnown
<1>19. CASE MarkCrashed(g)
  <2>1. rows' \in [Session -> RowState]
    BY <1>19, <1>1, <1>2, Updates DEF MarkCrashed, MaybeGen
  <2>2. GenKnown
    BY <1>19, <1>6 DEF MarkCrashed
  <2> QED BY <2>1, <2>2, <1>19, <1>4, <1>3, <1>8, <1>9 DEF MarkCrashed, GenKnown
<1> QED BY <1>11, <1>12, <1>13, <1>14, <1>15, <1>16, <1>17, <1>18, <1>19

(* Requests: what each does to the requests, and the rows and volumes.       *)
LEMMA AskKnown ==
    ASSUME KnownInv, NEW q \in Request,
           \/ Enqueue(q) \/ Refuse(q) \/ RemoveVolume(q) \/ DeleteRow(q)
           \/ \E s \in Session : BeginGenerate(q, s) \/ BeginDelete(q, s)
    PROVE  KnownInv'
<1>1. TypeOK /\ Known /\ req \in [Request -> RequestState] /\ gen \in [Gen -> GenState]
  BY Typing DEF KnownInv
<1>2. NoRequest \in RequestState /\ \A g \in Gen : \A s \in Session :
        [s |-> s, pc |-> "mark", won |-> FALSE, copy |-> {}] \in GenState
  BY DEF NoRequest, RequestState, MaybeSession, GenState
<1>h. misread' \in SUBSET Gen /\ relaunched' \in SUBSET Session
  BY <1>1, Typing DEF Enqueue, Refuse, RemoveVolume, DeleteRow, BeginGenerate, BeginDelete, known
<1>3. ASSUME UNCHANGED <<box, art, sw, phase, env, restarted>>,
             rows' \in [Session -> RowState], vol' \in [Session -> SUBSET Gen],
             gen' \in [Gen -> GenState], req' \in [Request -> RequestState],
             \A g \in Gen : gen'[g] = gen[g] \/ (gen'[g].s \in Session /\ gen'[g].pc # "none"),
             \A p \in Request : \/ req'[p] = req[p] \/ req'[p] = NoRequest
                                \/ (req'[p].s \in Session /\ req'[p].op # "none")
      PROVE  KnownInv'
  <2>1. TypeOK'
    BY <1>1, <1>3, <1>h, Typing DEF TypeOK, RowState, BoxState, GenState, RequestState
  <2>2. Known'
    BY <1>1, <1>3 DEF Known
  <2> QED BY <2>1, <2>2 DEF KnownInv
<1>4. (UNCHANGED rows => rows' \in [Session -> RowState]) /\ (UNCHANGED vol => vol' \in [Session -> SUBSET Gen])
  BY <1>1, Typing
<1>5. ASSUME NEW s \in Session, NEW op \in {"generate", "delete"}, NEW new \in BOOLEAN,
             req' = [req EXCEPT ![q] = [op |-> op, s |-> s, new |-> new]]
      PROVE  /\ req' \in [Request -> RequestState]
             /\ \A p \in Request : req'[p] = req[p] \/ (req'[p].s \in Session /\ req'[p].op # "none")
  <2>1. [op |-> op, s |-> s, new |-> new] \in RequestState
    BY DEF RequestState, MaybeSession
  <2> QED BY <1>1, <1>5, <2>1
<1>6. ASSUME req' = [req EXCEPT ![q] = NoRequest]
      PROVE  req' \in [Request -> RequestState] /\ \A p \in Request : req'[p] = req[p] \/ req'[p] = NoRequest
  BY <1>1, <1>2, <1>6
<1>7. req[q].op # "none" => req[q].s \in Session
  BY <1>1, NoneOf DEF Known
<1>8. CASE \E s \in Session : BeginGenerate(q, s)
  <2> PICK s \in Session : BeginGenerate(q, s)
    BY <1>8
  <2>1. (~Present(s)) \in BOOLEAN
    BY DEF Present
  <2>2. /\ req' \in [Request -> RequestState]
        /\ \A p \in Request : req'[p] = req[p] \/ (req'[p].s \in Session /\ req'[p].op # "none")
    BY <1>5, <2>1 DEF BeginGenerate
  <2> QED BY <1>1, <1>3, <1>4, <2>2 DEF BeginGenerate, Serving, disk
<1>9. CASE \E s \in Session : BeginDelete(q, s)
  <2> PICK s \in Session : BeginDelete(q, s)
    BY <1>9
  <2>2. /\ req' \in [Request -> RequestState]
        /\ \A p \in Request : req'[p] = req[p] \/ (req'[p].s \in Session /\ req'[p].op # "none")
    BY <1>5 DEF BeginDelete
  <2> QED BY <1>1, <1>3, <1>4, <2>2 DEF BeginDelete, Serving, disk
<1>10. CASE Refuse(q)
  BY <1>10, <1>1, <1>3, <1>4, <1>6 DEF Refuse, Serving, disk
<1>11. CASE RemoveVolume(q)
  <2> DEFINE s == req[q].s
  <2>1. s \in Session
    BY <1>7, <1>11 DEF RemoveVolume
  <2>2. [op |-> "drop", s |-> s, new |-> FALSE] \in RequestState
    BY <2>1 DEF RequestState, MaybeSession
  <2>3. /\ req' \in [Request -> RequestState]
        /\ \A p \in Request : req'[p] = req[p] \/ (req'[p].s \in Session /\ req'[p].op # "none")
    BY <1>1, <1>11, <2>1, <2>2 DEF RemoveVolume
  <2>4. vol' \in [Session -> SUBSET Gen]
    BY <1>1, <1>11, <2>1, Typing DEF RemoveVolume
  <2> QED BY <1>1, <1>3, <1>4, <1>11, <2>3, <2>4 DEF RemoveVolume, Serving
<1>12. CASE DeleteRow(q)
  <2>1. req[q].s \in Session /\ NoRow \in RowState
    BY <1>7, <1>12 DEF DeleteRow, NoRow, RowState, Status, MaybeGen
  <2>2. rows' \in [Session -> RowState]
    BY <1>1, <1>12, <2>1, Typing DEF DeleteRow
  <2> QED BY <1>1, <1>3, <1>4, <1>6, <1>12, <2>2 DEF DeleteRow, Serving
<1>13. CASE Enqueue(q)
  <2> DEFINE s == req[q].s
  <2>1. s \in Session
    BY <1>7, <1>13 DEF Enqueue
  <2>2. [status |-> "pending", job |-> NoGen, file |-> NoGen] \in RowState
    BY DEF RowState, Status, MaybeGen
  <2>3. rows' \in [Session -> RowState]
    BY <1>1, <1>13, <2>1, <2>2, Typing, Updates DEF Enqueue
  <2>4. PICK g \in Gen : gen' = [gen EXCEPT ![g] = [s |-> s, pc |-> "mark", won |-> FALSE, copy |-> {}]]
    BY <1>13 DEF Enqueue
  <2>5. /\ gen' \in [Gen -> GenState]
        /\ \A h \in Gen : gen'[h] = gen[h] \/ (gen'[h].s \in Session /\ gen'[h].pc # "none")
    BY <1>1, <1>2, <2>1, <2>4
  <2> QED BY <1>1, <1>3, <1>4, <1>6, <1>13, <2>3, <2>5 DEF Enqueue, Serving
<1> QED BY <1>8, <1>9, <1>10, <1>11, <1>12, <1>13

(* The sweeper, a new process, and what goes on around them.                 *)
LEMMA SweepKnown ==
    ASSUME KnownInv,
           \/ \E due \in SUBSET Session : ListExpired(due)
           \/ \E i \in sw.todo : Inspect(i)
           \/ SweepCrash
    PROVE  KnownInv'
<1>1. TypeOK /\ Known /\ sw \in [todo : SUBSET Item, cur : Item \cup {NoItem}]
  BY Typing DEF KnownInv
<1>2. ASSUME UNCHANGED <<box, vol, art, gen, req, phase, env, restarted, known>>,
             rows' \in [Session -> RowState], sw' \in [todo : SUBSET Item, cur : Item \cup {NoItem}]
      PROVE  KnownInv'
  <2>1. TypeOK'
    BY <1>1, <1>2, Typing DEF known, TypeOK, RowState, BoxState, GenState, RequestState
  <2>2. Known'
    BY <1>1, <1>2 DEF Known
  <2> QED BY <2>1, <2>2 DEF KnownInv
<1>3. rows \in [Session -> RowState]
  BY <1>1, Typing
<1>4. CASE \E due \in SUBSET Session : ListExpired(due)
  <2> PICK due \in SUBSET Session : ListExpired(due)
    BY <1>4
  <2>1. \A s \in due : [s |-> s, job |-> rows[s].job] \in Item
    BY <1>3 DEF Item, RowState
  <2>2. {[s |-> s, job |-> rows[s].job] : s \in due} \in SUBSET Item
    BY <2>1
  <2>3. sw' \in [todo : SUBSET Item, cur : Item \cup {NoItem}]
    BY <2>2 DEF ListExpired
  <2> QED BY <1>2, <1>3, <2>3 DEF ListExpired, Serving, disk
<1>5. CASE \E i \in sw.todo : Inspect(i)
  <2> PICK i \in sw.todo : Inspect(i)
    BY <1>5
  <2>1. sw' \in [todo : SUBSET Item, cur : Item \cup {NoItem}]
    BY <1>1 DEF Inspect
  <2> QED BY <1>2, <1>3, <2>1 DEF Inspect, Serving, disk
<1>6. CASE SweepCrash
  <2>1. sw' \in [todo : SUBSET Item, cur : Item \cup {NoItem}]
    BY <1>1, <1>6 DEF SweepCrash
  <2>2. sw.cur.s \in Session
    BY <1>1, <1>6 DEF SweepCrash, Item
  <2>3. rows' \in [Session -> RowState]
    BY <1>1, <1>6, <2>2, Updates DEF SweepCrash
  <2> QED BY <1>2, <1>6, <2>1, <2>3 DEF SweepCrash, Serving
<1> QED BY <1>4, <1>5, <1>6

LEMMA AroundKnown ==
    ASSUME KnownInv, BoxKnown,
           \/ Boot \/ Crash \/ (\E s \in Session : Play(s) \/ Relaunch(s) \/ BoxEnds(s)) \/ UNCHANGED vars
    PROVE  KnownInv'
<1>1. /\ TypeOK /\ Known /\ rows \in [Session -> RowState] /\ box \in [Session -> BoxState]
      /\ vol \in [Session -> SUBSET Gen] /\ gen \in [Gen -> GenState] /\ req \in [Request -> RequestState]
  BY Typing DEF KnownInv
<1>2. ASSUME UNCHANGED <<art, env>>, sw' = sw \/ sw' = Asleep,
             rows' \in [Session -> RowState], box' \in [Session -> BoxState],
             vol' \in [Session -> SUBSET Gen],
             gen' = gen \/ gen' = [g \in Gen |-> NoGoroutine],
             req' = req \/ req' = [q \in Request |-> NoRequest],
             phase' \in {"boot", "crash", "serve"}, restarted' \in BOOLEAN,
             misread' = misread, relaunched' \in SUBSET Session
      PROVE  KnownInv'
  <2>1. gen' \in [Gen -> GenState] /\ req' \in [Request -> RequestState]
    <3>1. NoGoroutine \in GenState /\ NoRequest \in RequestState
      BY DEF NoGoroutine, NoRequest, GenState, RequestState, MaybeSession
    <3> QED BY <1>1, <1>2, <3>1
  <2>2. sw' \in [todo : SUBSET Item, cur : Item \cup {NoItem}]
    BY <1>1, <1>2, Typing DEF Asleep
  <2>3. TypeOK'
    BY <1>1, <1>2, <2>1, <2>2, Typing DEF TypeOK, RowState, BoxState, GenState, RequestState
  <2>4. Known'
    BY <1>1, <1>2 DEF Known
  <2> QED BY <2>3, <2>4 DEF KnownInv
<1>3. /\ phase \in {"boot", "crash", "serve"} /\ restarted \in BOOLEAN
      /\ relaunched \in SUBSET Session
  BY <1>1, Typing
<1>4. CASE BootRemove
  <2>1. box' \in [Session -> BoxState]
    BY <1>1, <1>4 DEF BootRemove, NoBox, BoxState, MaybeGen
  <2> QED BY <1>1, <1>2, <1>3, <1>4, <2>1 DEF BootRemove, known
<1>5. CASE BootCrash
  <2>1. \A s \in Session : [status |-> "crashed", job |-> NoGen, file |-> rows[s].file] \in RowState
    BY <1>1 DEF RowState, Status, MaybeGen
  <2>2. rows' \in [Session -> RowState]
    BY <1>1, <1>5, <2>1 DEF BootCrash
  <2> QED BY <1>1, <1>2, <1>3, <1>5, <2>2 DEF BootCrash, known
<1>6. CASE Crash
  BY <1>1, <1>2, <1>3, <1>6 DEF Crash, disk, known
<1>7. ASSUME NEW s \in Session, Play(s) PROVE KnownInv'
  <2>1. rows' \in [Session -> RowState]
    BY <1>1, <1>7 DEF Play, RowState, Status
  <2> QED BY <1>1, <1>2, <1>3, <1>7, <2>1 DEF Play, Serving
<1>r. ASSUME NEW s \in Session, Relaunch(s) PROVE KnownInv'
  <2>1. rows' \in [Session -> RowState]
    BY <1>1, <1>r DEF Relaunch, RowState, Status
  <2> QED BY <1>1, <1>2, <1>3, <1>r, <2>1 DEF Relaunch, Serving
<1>8. ASSUME NEW s \in Session, BoxEnds(s) PROVE KnownInv'
  <2>1. box[s].g \in MaybeGen
    BY <1>1 DEF BoxState
  <2>2. box' \in [Session -> BoxState]
    <3>1. \A st \in {"done", "failed"} : [g |-> box[s].g, st |-> st] \in BoxState
      BY <2>1 DEF BoxState
    <3> QED BY <1>1, <1>8, <3>1 DEF BoxEnds
  <2>3. box[s].g \in Gen
    BY <1>8, NoneOf DEF BoxEnds, BoxKnown
  <2>4. vol' \in [Session -> SUBSET Gen]
    BY <1>1, <1>8, <2>3 DEF BoxEnds
  <2> QED BY <1>1, <1>2, <1>3, <1>8, <2>2, <2>4 DEF BoxEnds, known
<1>9. CASE UNCHANGED vars
  BY <1>1, <1>2, <1>3, <1>9 DEF vars, disk, known
<1> QED BY <1>4, <1>5, <1>6, <1>7, <1>8, <1>9, <1>r DEF Boot

------------------------------------------------------------------------------
(* What each step of a goroutine does, session by session and goroutine by   *)
(* goroutine.                                                                *)
OthersStay(g) == \A h \in Gen : h # g => gen'[h] = gen[h]
RunFrame(g) ==
    /\ phase = "serve" /\ UNCHANGED <<vol, req, sw, phase, env, restarted>>
    /\ gen[g].s \in Session /\ OthersStay(g)
    /\ misread \subseteq misread'
    /\ \A t \in Session : t # gen[g].s => (t \in relaunched' <=> t \in relaunched)
    /\ \A t \in Session : t # gen[g].s => rows'[t] = rows[t] /\ box'[t] = box[t] /\ art'[t] = art[t]
Reaches(g, pc, won) == gen'[g].s = gen[g].s /\ gen'[g].pc = pc /\ gen'[g].won = won
Writes(s, status) == rows'[s].status = IF Present(s) THEN status ELSE "absent"

LEMMA AtWork ==
    ASSUME KnownInv, NEW g \in Gen, gen[g].pc # "none"
    PROVE  /\ gen[g].s \in Session /\ gen[g].won \in BOOLEAN /\ TypeOK /\ Known
           /\ g \in MaybeGen /\ NoGen \in MaybeGen
BY Moves, Typing DEF KnownInv, GenState, MaybeGen

LEMMA Reaching ==
    ASSUME KnownInv, NEW g \in Gen, gen[g].pc # "none",
           NEW pc \in Onward, NEW won \in BOOLEAN, Goto(g, pc, won)
    PROVE  OthersStay(g) /\ Reaches(g, pc, won)
BY Moves DEF KnownInv, OthersStay, Reaches

LEMMA Crashing ==
    ASSUME KnownInv, NEW g \in Gen, gen[g].pc # "none", GoCrash(g)
    PROVE  OthersStay(g) /\ Reaches(g, "crash", FALSE)
BY Moves DEF KnownInv, OthersStay, Reaches

LEMMA Ending ==
    ASSUME KnownInv, NEW g \in Gen, gen[g].pc # "none", Done(g)
    PROVE  OthersStay(g) /\ gen'[g] = NoGoroutine
BY Moves DEF KnownInv, OthersStay

LEMMA Writing ==
    ASSUME KnownInv, NEW s \in Session
    PROVE  /\ UpdateGenerating(s, NoGen) =>
                /\ \A t \in Session : t # s => rows'[t] = rows[t]
                /\ Writes(s, "generating") /\ rows'[s].file = rows[s].file
                /\ rows'[s].status = "generating" => rows'[s].job = NoGen
           /\ \A g \in Gen : UpdateGenerating(s, g) =>
                /\ \A t \in Session : t # s => rows'[t] = rows[t]
                /\ Writes(s, "generating") /\ rows'[s].file = rows[s].file
                /\ rows'[s].status = "generating" => rows'[s].job = g
           /\ \A g \in Gen : UpdateGenerated(s, g) =>
                /\ \A t \in Session : t # s => rows'[t] = rows[t]
                /\ Writes(s, "generated")
                /\ rows'[s].status # "absent" => rows'[s].file = g
                /\ rows'[s].file \in {rows[s].file, g}
           /\ UpdateCrashed(s) =>
                /\ \A t \in Session : t # s => rows'[t] = rows[t]
                /\ Writes(s, "crashed") /\ rows'[s].file = rows[s].file
<1>1. TypeOK /\ NoGen \in MaybeGen /\ \A g \in Gen : g \in MaybeGen
  BY DEF KnownInv, MaybeGen
<1>2. ASSUME NEW g \in Gen, UpdateGenerated(s, g), ~Present(s)
      PROVE  rows' = rows
  BY <1>2 DEF UpdateGenerated, Update
<1> QED BY <1>1, <1>2, Updates DEF Writes, Present

LEMMA MarkGeneratingDoes ==
    ASSUME KnownInv, NEW g \in Gen, MarkGenerating(g)
    PROVE  /\ RunFrame(g) /\ gen[g].pc = "mark" /\ Reaches(g, "create", FALSE)
           /\ UNCHANGED <<box, art>>
           /\ Writes(gen[g].s, "generating") /\ rows'[gen[g].s].file = rows[gen[g].s].file
           /\ rows'[gen[g].s].status = "generating" => rows'[gen[g].s].job = NoGen
<1>1. gen[g].pc = "mark" /\ gen[g].pc # "none" /\ phase = "serve" /\ UNCHANGED <<vol, req, sw, phase, env, restarted, misread, relaunched>>
  BY DEF MarkGenerating, At, Serving, disk, known
<1>2. gen[g].s \in Session /\ TypeOK /\ Known
  BY <1>1, AtWork
<1>3. Reaches(g, "create", FALSE) /\ OthersStay(g)
  BY <1>1, Reaching DEF MarkGenerating, Onward
<1>4. UpdateGenerating(gen[g].s, NoGen) /\ UNCHANGED <<box, art>>
  BY DEF MarkGenerating
<1> QED BY <1>1, <1>2, <1>3, <1>4, Writing DEF RunFrame

LEMMA CreateBoxDoes ==
    ASSUME KnownInv, NEW g \in Gen, CreateBox(g)
    PROVE  /\ RunFrame(g) /\ gen[g].pc = "create" /\ UNCHANGED <<rows, art>>
           /\ \/ /\ Reaches(g, "start", FALSE) /\ box[gen[g].s] = NoBox
                 /\ box'[gen[g].s].g = g /\ box'[gen[g].s].st = "created"
              \/ Reaches(g, "crash", FALSE) /\ UNCHANGED box
<1>1. gen[g].pc = "create" /\ gen[g].pc # "none" /\ phase = "serve" /\ UNCHANGED <<vol, req, sw, phase, env, restarted, misread, relaunched>>
  BY DEF CreateBox, At, Serving, disk, known
<1>2. gen[g].s \in Session /\ TypeOK /\ Known
  BY <1>1, AtWork
<1>3. UNCHANGED <<rows, art>>
  BY DEF CreateBox
<1>4. ASSUME UNCHANGED box, GoCrash(g)
      PROVE  RunFrame(g) /\ Reaches(g, "crash", FALSE)
  BY <1>1, <1>2, <1>3, <1>4, Crashing DEF RunFrame
<1>5. ASSUME box[gen[g].s] = NoBox, Goto(g, "start", FALSE),
             box' = [box EXCEPT ![gen[g].s] = [g |-> g, st |-> "created"]]
      PROVE  /\ RunFrame(g) /\ Reaches(g, "start", FALSE)
             /\ box'[gen[g].s].g = g /\ box'[gen[g].s].st = "created"
  <2>1. Reaches(g, "start", FALSE) /\ OthersStay(g)
    BY <1>1, <1>5, Reaching DEF Onward
  <2> QED BY <1>1, <1>2, <1>3, <1>5, <2>1, SetsBox DEF RunFrame
<1> QED BY <1>1, <1>3, <1>4, <1>5 DEF CreateBox

LEMMA StartBoxDoes ==
    ASSUME KnownInv, NEW g \in Gen, StartBox(g)
    PROVE  /\ RunFrame(g) /\ gen[g].pc = "start" /\ UNCHANGED <<rows, art>>
           /\ \/ /\ Reaches(g, "wait", FALSE)
                 /\ box'[gen[g].s].g = g /\ box'[gen[g].s].st = "running"
              \/ /\ Reaches(g, "job", FALSE)
                 /\ Removes(g)
<1>1. gen[g].pc = "start" /\ gen[g].pc # "none" /\ phase = "serve" /\ UNCHANGED <<vol, req, sw, phase, env, restarted, misread, relaunched>>
  BY DEF StartBox, At, Serving, disk, known
<1>2. gen[g].s \in Session /\ TypeOK /\ Known
  BY <1>1, AtWork
<1>3. UNCHANGED <<rows, art>>
  BY DEF StartBox
<1>4. ASSUME RemoveBox(g), Goto(g, "job", FALSE)
      PROVE  RunFrame(g) /\ Reaches(g, "job", FALSE) /\ Removes(g)
  <2>1. Reaches(g, "job", FALSE) /\ OthersStay(g)
    BY <1>1, <1>4, Reaching DEF Onward
  <2> QED BY <1>1, <1>2, <1>3, <1>4, <2>1, RemovesBox DEF RunFrame
<1>5. ASSUME Goto(g, "wait", FALSE), box' = [box EXCEPT ![gen[g].s] = [g |-> g, st |-> "running"]]
      PROVE  /\ RunFrame(g) /\ Reaches(g, "wait", FALSE)
             /\ box'[gen[g].s].g = g /\ box'[gen[g].s].st = "running"
  <2>1. Reaches(g, "wait", FALSE) /\ OthersStay(g)
    BY <1>1, <1>5, Reaching DEF Onward
  <2> QED BY <1>1, <1>2, <1>3, <1>5, <2>1, SetsBox DEF RunFrame
<1> QED BY <1>1, <1>3, <1>4, <1>5 DEF StartBox

LEMMA WaitBoxDoes ==
    ASSUME KnownInv, NEW g \in Gen, WaitBox(g)
    PROVE  /\ RunFrame(g) /\ gen[g].pc = "wait" /\ UNCHANGED <<rows, art>>
           /\ \/ Reaches(g, "job", TRUE) /\ box[gen[g].s].g = g /\ box[gen[g].s].st = "done"
              \/ Reaches(g, "job", TRUE) /\ g \in misread'
              \/ Reaches(g, "job", FALSE)
           /\ Removes(g)
<1>1. gen[g].pc = "wait" /\ gen[g].pc # "none" /\ phase = "serve" /\ UNCHANGED <<vol, req, sw, phase, env, restarted, relaunched>>
  BY DEF WaitBox, At, Serving, disk
<1>2. gen[g].s \in Session /\ TypeOK /\ Known
  BY <1>1, AtWork
<1>3. UNCHANGED <<rows, art>> /\ RemoveBox(g)
  BY DEF WaitBox
<1>4. /\ Goto(g, "job", TRUE) => OthersStay(g) /\ Reaches(g, "job", TRUE)
      /\ Goto(g, "job", FALSE) => OthersStay(g) /\ Reaches(g, "job", FALSE)
  BY <1>1, Reaching DEF Onward
<1>5. CASE WaitAnsweredByError(g)
  <2>1. OthersStay(g) /\ Reaches(g, "job", TRUE) /\ g \in misread' /\ misread \subseteq misread'
    BY <1>4, <1>5 DEF WaitAnsweredByError
  <2> QED BY <1>1, <1>2, <1>3, <2>1, RemovesBox DEF RunFrame
<1>6. CASE ~WaitAnsweredByError(g)
  <2>1. \/ box[gen[g].s] = [g |-> g, st |-> "done"] /\ Goto(g, "job", TRUE) /\ misread' = misread
        \/ Goto(g, "job", FALSE) /\ misread' = misread
    BY <1>6 DEF WaitBox
  <2>2. box[gen[g].s] = [g |-> g, st |-> "done"] =>
           box[gen[g].s].g = g /\ box[gen[g].s].st = "done"
    OBVIOUS
  <2>3. OthersStay(g) /\ misread' = misread
    BY <1>4, <2>1
  <2>4. \/ Reaches(g, "job", TRUE) /\ box[gen[g].s].g = g /\ box[gen[g].s].st = "done"
        \/ Reaches(g, "job", FALSE)
    BY <1>4, <2>1, <2>2, Zenon
  <2> QED BY <1>1, <1>2, <1>3, <2>3, <2>4, RemovesBox DEF RunFrame
<1> QED BY <1>5, <1>6

LEMMA StoreJobDoes ==
    ASSUME KnownInv, NEW g \in Gen, StoreJob(g)
    PROVE  /\ RunFrame(g) /\ gen[g].pc = "job" /\ UNCHANGED <<box, art>>
           /\ Writes(gen[g].s, "generating") /\ rows'[gen[g].s].file = rows[gen[g].s].file
           /\ rows'[gen[g].s].status = "generating" => rows'[gen[g].s].job = g
           /\ IF gen[g].won THEN Reaches(g, "generated", TRUE) ELSE Reaches(g, "crash", FALSE)
<1>1. gen[g].pc = "job" /\ gen[g].pc # "none" /\ phase = "serve" /\ UNCHANGED <<vol, req, sw, phase, env, restarted, misread, relaunched>>
  BY DEF StoreJob, At, Serving, disk, known
<1>2. gen[g].s \in Session /\ TypeOK /\ Known
  BY <1>1, AtWork
<1>3. /\ Goto(g, "generated", TRUE) => OthersStay(g) /\ Reaches(g, "generated", TRUE)
      /\ GoCrash(g) => OthersStay(g) /\ Reaches(g, "crash", FALSE)
  BY <1>1, Reaching, Crashing DEF Onward
<1>4. OthersStay(g) /\ IF gen[g].won THEN Reaches(g, "generated", TRUE) ELSE Reaches(g, "crash", FALSE)
  BY <1>3 DEF StoreJob
<1>5. UpdateGenerating(gen[g].s, g) /\ UNCHANGED <<box, art>>
  BY DEF StoreJob
<1> QED BY <1>1, <1>2, <1>4, <1>5, Writing DEF RunFrame

LEMMA MarkGeneratedDoes ==
    ASSUME KnownInv, NEW g \in Gen, MarkGenerated(g)
    PROVE  /\ RunFrame(g) /\ gen[g].pc = "generated" /\ Reaches(g, "copy", TRUE)
           /\ UNCHANGED <<box, art>> /\ Writes(gen[g].s, "generated")
           /\ rows'[gen[g].s].status # "absent" => rows'[gen[g].s].file = g
           /\ rows'[gen[g].s].file \in {rows[gen[g].s].file, g}
<1>1. gen[g].pc = "generated" /\ gen[g].pc # "none" /\ phase = "serve" /\ UNCHANGED <<vol, req, sw, phase, env, restarted, misread>>
  BY DEF MarkGenerated, At, Serving, disk
<1>2. gen[g].s \in Session /\ TypeOK /\ Known
  BY <1>1, AtWork
<1>3. Reaches(g, "copy", TRUE) /\ OthersStay(g)
  BY <1>1, Reaching DEF MarkGenerated, Onward
<1>4. UpdateGenerated(gen[g].s, g) /\ UNCHANGED <<box, art>>
  BY DEF MarkGenerated
<1>5. \A s \in Session : s # gen[g].s => (s \in relaunched' <=> s \in relaunched)
  BY DEF MarkGenerated
<1> QED BY <1>1, <1>2, <1>3, <1>4, <1>5, Writing DEF RunFrame

LEMMA CopyOutputDoes ==
    ASSUME KnownInv, NEW g \in Gen, CopyOutput(g)
    PROVE  /\ RunFrame(g) /\ gen[g].pc = "copy" /\ UNCHANGED <<rows, box, art>>
           /\ \/ Reaches(g, "upload", TRUE) /\ gen'[g].copy = vol[gen[g].s]
              \/ Reaches(g, "crash", FALSE)
<1>1. gen[g].pc = "copy" /\ gen[g].pc # "none" /\ phase = "serve" /\ UNCHANGED <<vol, req, sw, phase, env, restarted, misread, relaunched>>
  BY DEF CopyOutput, At, Serving, disk, known
<1>2. gen[g].s \in Session /\ TypeOK /\ Known
  BY <1>1, AtWork
<1>3. UNCHANGED <<rows, box, art>>
  BY DEF CopyOutput, disk
<1>4. ASSUME gen' = [gen EXCEPT ![g] = [s |-> gen[g].s, pc |-> "upload", won |-> TRUE,
                                     copy |-> vol[gen[g].s]]]
      PROVE  OthersStay(g) /\ Reaches(g, "upload", TRUE) /\ gen'[g].copy = vol[gen[g].s]
  <2>1. gen \in [Gen -> GenState]
    BY <1>2, Typing
  <2> QED BY <1>4, <2>1 DEF OthersStay, Reaches
<1>5. GoCrash(g) => OthersStay(g) /\ Reaches(g, "crash", FALSE)
  BY <1>1, Crashing
<1>6. /\ OthersStay(g)
      /\ \/ Reaches(g, "upload", TRUE) /\ gen'[g].copy = vol[gen[g].s]
         \/ Reaches(g, "crash", FALSE)
  BY <1>4, <1>5 DEF CopyOutput
<1> QED BY <1>1, <1>2, <1>3, <1>6 DEF RunFrame

LEMMA UploadOutputDoes ==
    ASSUME KnownInv, NEW g \in Gen, UploadOutput(g)
    PROVE  /\ RunFrame(g) /\ gen[g].pc = "upload" /\ UNCHANGED <<rows, box>>
           /\ \/ gen'[g] = NoGoroutine /\ art'[gen[g].s] = gen[g].copy
              \/ Reaches(g, "crash", FALSE) /\ UNCHANGED art
<1>1. gen[g].pc = "upload" /\ gen[g].pc # "none" /\ phase = "serve" /\ UNCHANGED <<vol, req, sw, phase, env, restarted, misread, relaunched>>
  BY DEF UploadOutput, At, Serving, disk, known
<1>2. gen[g].s \in Session /\ TypeOK /\ Known
  BY <1>1, AtWork
<1>3. UNCHANGED <<rows, box>>
  BY DEF UploadOutput
<1>4. ASSUME art' = [art EXCEPT ![gen[g].s] = gen[g].copy]
      PROVE  art'[gen[g].s] = gen[g].copy /\ \A t \in Session : t # gen[g].s => art'[t] = art[t]
  BY <1>2, <1>4, Typing
<1>5. /\ GoCrash(g) => OthersStay(g) /\ Reaches(g, "crash", FALSE)
      /\ Done(g) => OthersStay(g) /\ gen'[g] = NoGoroutine
  BY <1>1, Crashing, Ending
<1> QED BY <1>1, <1>2, <1>3, <1>4, <1>5 DEF UploadOutput, RunFrame

LEMMA MarkCrashedDoes ==
    ASSUME KnownInv, NEW g \in Gen, MarkCrashed(g)
    PROVE  /\ RunFrame(g) /\ gen[g].pc = "crash" /\ gen'[g] = NoGoroutine
           /\ UNCHANGED <<box, art>>
           /\ Writes(gen[g].s, "crashed") /\ rows'[gen[g].s].file = rows[gen[g].s].file
<1>1. gen[g].pc = "crash" /\ gen[g].pc # "none" /\ phase = "serve" /\ UNCHANGED <<vol, req, sw, phase, env, restarted, misread, relaunched>>
  BY DEF MarkCrashed, At, Serving, disk, known
<1>2. gen[g].s \in Session /\ TypeOK /\ Known
  BY <1>1, AtWork
<1>3. OthersStay(g) /\ gen'[g] = NoGoroutine
  BY <1>1, Ending DEF MarkCrashed
<1>4. UpdateCrashed(gen[g].s) /\ UNCHANGED <<box, art>>
  BY DEF MarkCrashed
<1> QED BY <1>1, <1>2, <1>3, <1>4, Writing DEF RunFrame

(* What they have in common.                                                 *)
LEMMA RunDoes ==
    ASSUME KnownInv, NEW g \in Gen,
           \/ MarkGenerating(g) \/ CreateBox(g) \/ StartBox(g) \/ WaitBox(g) \/ StoreJob(g)
           \/ MarkGenerated(g) \/ CopyOutput(g) \/ UploadOutput(g) \/ MarkCrashed(g)
    PROVE  /\ RunFrame(g)
           /\ gen'[g] = NoGoroutine \/ gen'[g].s = gen[g].s
           /\ \/ box'[gen[g].s] = box[gen[g].s] \/ box'[gen[g].s] = NoBox
              \/ box'[gen[g].s].g = g /\ box'[gen[g].s].st \in {"created", "running"}
<1>1. CASE MarkGenerating(g) \/ StoreJob(g)
  BY <1>1, MarkGeneratingDoes, StoreJobDoes DEF Reaches
<1>2. CASE CreateBox(g)
  BY <1>2, CreateBoxDoes DEF Reaches
<1>3. CASE StartBox(g)
  BY <1>3, StartBoxDoes DEF Reaches, Removes
<1>4. CASE WaitBox(g)
  BY <1>4, WaitBoxDoes DEF Reaches, Removes
<1>5. CASE MarkGenerated(g) \/ MarkCrashed(g)
  BY <1>5, MarkGeneratedDoes, MarkCrashedDoes DEF Reaches
<1>6. CASE CopyOutput(g) \/ UploadOutput(g)
  BY <1>6, CopyOutputDoes, UploadOutputDoes DEF Reaches
<1> QED BY <1>1, <1>2, <1>3, <1>4, <1>5, <1>6

------------------------------------------------------------------------------
(* What the steps of the requests do.                                        *)
AskFrame(q) ==
    /\ phase = "serve" /\ UNCHANGED <<box, art, sw, phase, env, restarted>>
    /\ \A p \in Request : p # q => req'[p] = req[p]

LEMMA Asking ==
    ASSUME KnownInv, NEW q \in Request
    PROVE  /\ req[q].op # "none" => req[q].s \in Session
           /\ req' = [req EXCEPT ![q] = NoRequest] =>
                (\A p \in Request : p # q => req'[p] = req[p]) /\ req'[q] = NoRequest
<1>1. req \in [Request -> RequestState] /\ Known
  BY Typing DEF KnownInv
<1>2. req[q].op # "none" => req[q].s \in Session
  BY <1>1, NoneOf DEF Known
<1> QED BY <1>1, <1>2

LEMMA Requesting ==
    ASSUME KnownInv, NEW q \in Request, NEW op \in {"generate", "delete", "drop"}, NEW s \in Session,
           NEW new \in BOOLEAN,
           req' = [req EXCEPT ![q] = [op |-> op, s |-> s, new |-> new]]
    PROVE  /\ \A p \in Request : p # q => req'[p] = req[p]
           /\ req'[q].op = op /\ req'[q].s = s /\ req'[q].new = new
<1>1. req \in [Request -> RequestState]
  BY Typing DEF KnownInv
<1> QED BY <1>1

LEMMA BeginGenerateDoes ==
    ASSUME KnownInv, NEW q \in Request, NEW s \in Session, BeginGenerate(q, s)
    PROVE  /\ AskFrame(q) /\ UNCHANGED <<rows, vol, gen, known>> /\ req[q] = NoRequest
           /\ req'[q].op = "generate" /\ req'[q].s = s /\ (req'[q].new <=> ~Present(s))
           /\ Busy(s) => "twice" \in env /\ (DeleteOn(s) => "delete" \in env)
           /\ rows[s].status # "generating"
<1>1. req' = [req EXCEPT ![q] = [op |-> "generate", s |-> s, new |-> ~Present(s)]]
  BY DEF BeginGenerate
<1>2. /\ \A p \in Request : p # q => req'[p] = req[p]
      /\ req'[q].op = "generate" /\ req'[q].s = s /\ (req'[q].new <=> ~Present(s))
  <2> DEFINE new == ~Present(s)
  <2>1. new \in BOOLEAN
    BY DEF Present
  <2>2. req' = [req EXCEPT ![q] = [op |-> "generate", s |-> s, new |-> new]]
    BY <1>1
  <2> HIDE DEF new
  <2>3. /\ \A p \in Request : p # q => req'[p] = req[p]
        /\ req'[q].op = "generate" /\ req'[q].s = s /\ req'[q].new = new
    BY <2>1, <2>2, Requesting
  <2> QED BY <2>3 DEF new
<1>3. /\ req[q] = NoRequest /\ phase = "serve"
      /\ UNCHANGED <<rows, vol, gen, box, art, sw, phase, env, restarted, known>>
      /\ Busy(s) => "twice" \in env /\ (DeleteOn(s) => "delete" \in env)
      /\ rows[s].status # "generating"
  BY DEF BeginGenerate, Serving, disk, InProgress
<1> QED BY <1>2, <1>3 DEF AskFrame

LEMMA BeginDeleteDoes ==
    ASSUME KnownInv, NEW q \in Request, NEW s \in Session, BeginDelete(q, s)
    PROVE  /\ AskFrame(q) /\ UNCHANGED <<rows, vol, gen, known>> /\ req[q] = NoRequest
           /\ req'[q].op = "delete" /\ req'[q].s = s
           /\ Busy(s) => "delete" \in env
<1>1. req' = [req EXCEPT ![q] = [op |-> "delete", s |-> s, new |-> FALSE]]
  BY DEF BeginDelete
<1>2. /\ \A p \in Request : p # q => req'[p] = req[p]
      /\ req'[q].op = "delete" /\ req'[q].s = s
  BY <1>1, Requesting
<1>3. /\ req[q] = NoRequest /\ phase = "serve"
      /\ UNCHANGED <<rows, vol, gen, box, art, sw, phase, env, restarted, known>>
      /\ Busy(s) => "delete" \in env
  BY DEF BeginDelete, Serving, disk
<1> QED BY <1>2, <1>3 DEF AskFrame

LEMMA RefuseDoes ==
    ASSUME KnownInv, NEW q \in Request, Refuse(q)
    PROVE  /\ AskFrame(q) /\ UNCHANGED <<rows, vol, gen, known>>
           /\ req[q].op = "generate" /\ req'[q] = NoRequest
BY Asking DEF Refuse, AskFrame, Serving, disk

LEMMA RemoveVolumeDoes ==
    ASSUME KnownInv, NEW q \in Request, RemoveVolume(q)
    PROVE  /\ AskFrame(q) /\ UNCHANGED <<rows, gen, known>>
           /\ req[q].op = "delete" /\ req[q].s \in Session
           /\ req'[q].op = "drop" /\ req'[q].s = req[q].s
           /\ \A t \in Session : t # req[q].s \/ box[t] # NoBox => vol'[t] = vol[t]
<1>1. vol \in [Session -> SUBSET Gen] /\ req[q].op = "delete" /\ req[q].s \in Session
  BY Asking, Typing DEF KnownInv, RemoveVolume
<1>2. \A t \in Session : t # req[q].s \/ box[t] # NoBox => vol'[t] = vol[t]
  BY <1>1 DEF RemoveVolume
<1>3. req' = [req EXCEPT ![q] = [op |-> "drop", s |-> req[q].s, new |-> FALSE]]
  BY DEF RemoveVolume
<1>4. /\ \A p \in Request : p # q => req'[p] = req[p]
      /\ req'[q].op = "drop" /\ req'[q].s = req[q].s
  BY <1>1, <1>3, Requesting
<1>5. phase = "serve" /\ UNCHANGED <<rows, gen, box, art, sw, phase, env, restarted, known>>
  BY DEF RemoveVolume, Serving
<1> QED BY <1>1, <1>2, <1>4, <1>5 DEF AskFrame

LEMMA DeleteRowDoes ==
    ASSUME KnownInv, NEW q \in Request, DeleteRow(q)
    PROVE  /\ AskFrame(q) /\ UNCHANGED <<vol, gen, known>>
           /\ req[q].op = "drop" /\ req[q].s \in Session /\ req'[q] = NoRequest
           /\ rows'[req[q].s].status = "absent" /\ rows'[req[q].s].file = NoGen
           /\ \A t \in Session : t # req[q].s => rows'[t] = rows[t]
<1>1. rows \in [Session -> RowState] /\ req[q].op = "drop" /\ req[q].s \in Session
  BY Asking, Typing DEF KnownInv, DeleteRow
<1>2. /\ rows'[req[q].s].status = "absent" /\ rows'[req[q].s].file = NoGen
      /\ \A t \in Session : t # req[q].s => rows'[t] = rows[t]
  BY <1>1 DEF DeleteRow, NoRow
<1> QED BY <1>1, <1>2, Asking DEF DeleteRow, AskFrame, Serving

(* A new goroutine has a generation nothing remembers.                       *)
LEMMA EnqueueDoes ==
    ASSUME KnownInv, NEW q \in Request, Enqueue(q)
    PROVE  /\ AskFrame(q) /\ UNCHANGED vol
           /\ req[q].op = "generate" /\ req[q].s \in Session /\ req'[q] = NoRequest
           /\ \A t \in Session : t # req[q].s => rows'[t] = rows[t]
           /\ rows'[req[q].s].status \in {"pending", "absent"}
           /\ rows'[req[q].s].file \in {rows[req[q].s].file, NoGen}
           /\ relaunched' = relaunched \ {req[q].s}
           /\ (req[q].new <=> ~Present(req[q].s)) => rows'[req[q].s].status = "pending"
           /\ \E g \in Gen :
                /\ gen[g] = NoGoroutine /\ OthersStay(g)
                /\ gen'[g].s = req[q].s /\ gen'[g].pc = "mark" /\ gen'[g].won = FALSE
                /\ misread' = misread \ {g} /\ \A t \in Session : rows[t].file # g
<1>1. /\ rows \in [Session -> RowState] /\ req[q].op = "generate" /\ req[q].s \in Session
      /\ gen \in [Gen -> GenState] /\ TypeOK
  BY Asking, Typing DEF KnownInv, Enqueue
<1>2. /\ \A t \in Session : t # req[q].s => rows'[t] = rows[t]
      /\ rows'[req[q].s].status \in {"pending", "absent"}
      /\ rows'[req[q].s].file \in {rows[req[q].s].file, NoGen}
      /\ (req[q].new <=> ~Present(req[q].s)) => rows'[req[q].s].status = "pending"
  <2>1. CASE rows' = [rows EXCEPT ![req[q].s] = [status |-> "pending", job |-> NoGen, file |-> NoGen]]
    BY <1>1, <2>1
  <2>2. CASE ~req[q].new /\ UpdatePending(req[q].s)
    BY <1>1, <2>2, Updates
  <2> QED BY <2>1, <2>2 DEF Enqueue
<1>3. \E g \in Gen :
        /\ gen[g] = NoGoroutine /\ OthersStay(g)
        /\ gen'[g].s = req[q].s /\ gen'[g].pc = "mark" /\ gen'[g].won = FALSE
        /\ misread' = misread \ {g} /\ \A t \in Session : rows[t].file # g
  <2>1. PICK g \in Gen :
           /\ gen[g] = NoGoroutine
           /\ gen' = [gen EXCEPT ![g] = [s |-> req[q].s, pc |-> "mark", won |-> FALSE, copy |-> {}]]
           /\ misread' = misread \ {g} /\ \A t \in Session : rows[t].file # g
    BY DEF Enqueue, Unused
  <2> QED BY <1>1, <2>1 DEF OthersStay
<1> QED BY <1>1, <1>2, <1>3, Asking DEF Enqueue, AskFrame, Serving

------------------------------------------------------------------------------
(* What the sweeper, the boot and the rest do.                               *)
SweepFrame == phase = "serve" /\ UNCHANGED <<box, vol, art, gen, req, phase, env, restarted, known>>

LEMMA SweeperKnown ==
    ASSUME KnownInv
    PROVE  /\ sw \in [todo : SUBSET Item, cur : Item \cup {NoItem}]
           /\ \A i \in sw.todo : i \in Item /\ i.s \in Session
           /\ sw.cur # NoItem => sw.cur \in Item /\ sw.cur.s \in Session
BY Typing DEF KnownInv, Item

LEMMA SweepCrashDoes ==
    ASSUME KnownInv, SweepCrash
    PROVE  /\ SweepFrame /\ sw.cur # NoItem /\ sw.cur.s \in Session
           /\ sw'.todo = sw.todo /\ sw'.cur = NoItem
           /\ \A t \in Session : t # sw.cur.s => rows'[t] = rows[t]
           /\ Writes(sw.cur.s, "crashed") /\ rows'[sw.cur.s].file = rows[sw.cur.s].file
<1>1. sw.cur # NoItem /\ sw.cur.s \in Session
  BY SweeperKnown DEF SweepCrash
<1>2. /\ \A t \in Session : t # sw.cur.s => rows'[t] = rows[t]
      /\ Writes(sw.cur.s, "crashed") /\ rows'[sw.cur.s].file = rows[sw.cur.s].file
  BY <1>1, Writing DEF SweepCrash
<1> QED BY <1>1, <1>2 DEF SweepCrash, SweepFrame, Serving

LEMMA InspectDoes ==
    ASSUME KnownInv, NEW i \in sw.todo, Inspect(i)
    PROVE  /\ SweepFrame /\ UNCHANGED rows /\ i.s \in Session
           /\ sw.cur = NoItem /\ sw'.todo = sw.todo \ {i}
           /\ \/ sw'.cur = NoItem
              \/ sw'.cur = i /\ (~SeesRunning(i) \/ "blind" \in env)
BY SweeperKnown DEF Inspect, SweepFrame, Serving, disk

LEMMA ListExpiredDoes ==
    ASSUME KnownInv, NEW due \in SUBSET Session, ListExpired(due)
    PROVE  /\ SweepFrame /\ UNCHANGED rows
           /\ sw = Asleep /\ sw'.cur = NoItem
           /\ \A i \in sw'.todo : i.s \in due /\ i.s \in Session /\ i.job = rows[i.s].job
           /\ \A s \in due : Due(s)
BY DEF ListExpired, SweepFrame, Serving, disk

LEMMA PlayDoes ==
    ASSUME KnownInv, NEW s \in Session, Play(s)
    PROVE  /\ phase = "serve" /\ UNCHANGED <<box, vol, art, gen, req, sw, phase, env, restarted, misread>>
           /\ Playable(s) /\ rows[s].status \in {"generated", "running"}
           /\ rows'[s].status \in {"running", "stopped"} /\ rows'[s].file = rows[s].file
           /\ \A t \in Session : t # s => rows'[t] = rows[t]
           /\ relaunched' = relaunched \ {s}
<1>1. rows \in [Session -> RowState] /\ rows[s] \in RowState
  BY Typing DEF KnownInv
<1>2. ASSUME NEW status, rows' = [rows EXCEPT ![s].status = status]
      PROVE  /\ rows'[s].status = status /\ rows'[s].file = rows[s].file
             /\ \A t \in Session : t # s => rows'[t] = rows[t]
  BY <1>1, <1>2 DEF RowState
<1>3. /\ rows[s].status \in {"generated", "running"}
      /\ rows'[s].status \in {"running", "stopped"} /\ rows'[s].file = rows[s].file
      /\ \A t \in Session : t # s => rows'[t] = rows[t]
  BY <1>2 DEF Play
<1> QED BY <1>3 DEF Play, Serving

LEMMA RelaunchDoes ==
    ASSUME KnownInv, NEW s \in Session, Relaunch(s)
    PROVE  /\ phase = "serve" /\ UNCHANGED <<box, vol, art, gen, req, sw, phase, env, restarted, misread>>
           /\ Playable(s) /\ rows[s].status \in {"pending", "stopped", "crashed"}
           /\ rows[s].file # NoGen
           /\ rows'[s].status = "generated" /\ rows'[s].file = rows[s].file
           /\ \A t \in Session : t # s => rows'[t] = rows[t]
           /\ relaunched' = relaunched \cup {s}
<1>1. rows \in [Session -> RowState] /\ rows[s] \in RowState
  BY Typing DEF KnownInv
<1>2. /\ rows'[s].status = "generated" /\ rows'[s].file = rows[s].file
      /\ \A t \in Session : t # s => rows'[t] = rows[t]
  BY <1>1 DEF Relaunch, RowState
<1> QED BY <1>2 DEF Relaunch, Serving

LEMMA BoxEndsDoes ==
    ASSUME KnownInv, BoxKnown, NEW s \in Session, BoxEnds(s)
    PROVE  /\ UNCHANGED <<rows, art, gen, req, sw, phase, env, restarted, known>>
           /\ SweeperOn(s) => "late" \in env
           /\ box[s] # NoBox /\ box[s].st = "running" /\ box'[s] # NoBox
           /\ box'[s].g = box[s].g /\ box[s].g \in Gen /\ box'[s].st \in {"done", "failed"}
           /\ box'[s].st = "done" => box[s].g \in vol'[s]
           /\ \A t \in Session : t # s => box'[t] = box[t]
           /\ \A t \in Session : vol[t] \subseteq vol'[t]
<1>1. /\ box \in [Session -> BoxState] /\ vol \in [Session -> SUBSET Gen]
      /\ box[s] # NoBox /\ box[s].g \in Gen /\ box[s].st = "running"
  BY Typing, NoneOf DEF KnownInv, BoxKnown, BoxEnds
<1>2. CASE /\ box' = [box EXCEPT ![s] = [g |-> box[s].g, st |-> "done"]]
           /\ vol' = [vol EXCEPT ![s] = vol[s] \cup {box[s].g}]
  BY <1>1, <1>2, NoneOf DEF BoxEnds
<1>3. CASE /\ box' = [box EXCEPT ![s] = [g |-> box[s].g, st |-> "failed"]]
           /\ UNCHANGED vol
  BY <1>1, <1>3, NoneOf DEF BoxEnds
<1> QED BY <1>2, <1>3 DEF BoxEnds

------------------------------------------------------------------------------
(* What a step must keep, besides types and work known.                      *)
Outputs == BoxKnown /\ WonHasOutput /\ DeleteAlone /\ RowHasOutput

(* What a row names is the same, or nothing; volumes only grow.              *)
SameOutput(s) ==
    rows'[s].file # NoGen \/ rows'[s].status = "generated" =>
        /\ rows'[s].file = rows[s].file
        /\ rows[s].file # NoGen \/ rows[s].status = "generated"
        /\ rows[s].file \in misread => rows[s].file \in misread'
KeepsOutput(s) ==
    /\ vol[s] \subseteq vol'[s]
    /\ \A q \in Request : req[q].s = s /\ req[q].op \in {"delete", "drop"} =>
            "delete" \in env \/ \E p \in Request : req'[p].s = s /\ req'[p].op \in {"delete", "drop"}

LEMMA RowsKeep ==
    ASSUME RowHasOutput, env' = env, \A s \in Session : SameOutput(s), \A s \in Session : KeepsOutput(s)
    PROVE  RowHasOutput'
<1> SUFFICES ASSUME "delete" \notin env, NEW t \in Session,
                    rows'[t].file # NoGen \/ rows'[t].status = "generated", ~DeleteOn(t)'
             PROVE  rows'[t].file \in vol'[t] \/ rows'[t].file \in misread'
  BY DEF RowHasOutput
<1>1. SameOutput(t) /\ KeepsOutput(t)
  OBVIOUS
<1>2. ~DeleteOn(t) /\ vol[t] \subseteq vol'[t]
  BY <1>1 DEF KeepsOutput, DeleteOn
<1>3. rows[t].file \in vol[t] \/ rows[t].file \in misread
  BY <1>1, <1>2 DEF RowHasOutput, SameOutput
<1> QED BY <1>1, <1>2, <1>3 DEF SameOutput

LEMMA OutputRun ==
    ASSUME KnownInv, KnownInv', Outputs, NEW g \in Gen,
           \/ MarkGenerating(g) \/ CreateBox(g) \/ StartBox(g) \/ WaitBox(g) \/ StoreJob(g)
           \/ MarkGenerated(g) \/ CopyOutput(g) \/ UploadOutput(g) \/ MarkCrashed(g)
    PROVE  Outputs'
<1> DEFINE s == gen[g].s
<1>1. RunFrame(g) /\ (gen'[g] = NoGoroutine \/ gen'[g].s = s)
  BY RunDoes
<1>2. /\ box'[s] = box[s] \/ box'[s] = NoBox \/ (box'[s].g = g /\ box'[s].st \in {"created", "running"})
      /\ \A t \in Session : t # s => box'[t] = box[t]
  BY RunDoes DEF RunFrame
<1>3. BoxKnown'
  BY <1>1, <1>2, NoneOf DEF Outputs, BoxKnown, RunFrame
<1>4. DeleteAlone'
  BY <1>1, NoneOf DEF KnownInv, Known, Outputs, DeleteAlone, RunFrame, OthersStay
<1>5. "delete" \notin env =>
      /\ gen'[g].pc \in {"generated", "copy"} => gen'[g].won
      /\ (gen'[g].won /\ gen'[g].pc \in {"job", "generated", "copy"}) =>
            \/ gen[g].won /\ gen[g].pc \in {"job", "generated", "copy"}
            \/ box[s].g = g /\ box[s].st = "done"
            \/ g \in misread'
  <2>1. CASE MarkGenerating(g) \/ CreateBox(g)
    BY <2>1, MarkGeneratingDoes, CreateBoxDoes DEF Reaches
  <2>2. CASE StartBox(g)
    BY <2>2, StartBoxDoes DEF Reaches
  <2>3. CASE WaitBox(g)
    BY <2>3, WaitBoxDoes DEF Reaches
  <2>4. CASE StoreJob(g)
    BY <2>4, StoreJobDoes DEF Reaches
  <2>5. CASE MarkGenerated(g)
    BY <2>5, MarkGeneratedDoes DEF Reaches, Outputs, WonHasOutput
  <2>6. CASE CopyOutput(g) \/ UploadOutput(g) \/ MarkCrashed(g)
    BY <2>6, CopyOutputDoes, UploadOutputDoes, MarkCrashedDoes, NoneOf DEF Reaches
  <2> QED BY <2>1, <2>2, <2>3, <2>4, <2>5, <2>6
<1>6. WonHasOutput'
  BY <1>1, <1>5, NoneOf DEF Outputs, BoxKnown, WonHasOutput, RunFrame, OthersStay
<1>7. \/ gen[g].pc = "generated" /\ rows'[s].file = g
      \/ /\ rows'[s].file = rows[s].file
         /\ rows'[s].status = "generated" => rows' = rows \/ gen[g].pc = "generated"
  BY MarkGeneratingDoes, CreateBoxDoes, StartBoxDoes, WaitBoxDoes, StoreJobDoes,
     MarkGeneratedDoes, CopyOutputDoes, UploadOutputDoes, MarkCrashedDoes DEF Writes
<1>8. RowHasOutput'
  <2>1. CASE gen[g].pc = "generated" /\ rows'[s].file = g
    BY <1>1, <2>1 DEF Outputs, RowHasOutput, WonHasOutput, RunFrame, DeleteOn
  <2>2. CASE /\ rows'[s].file = rows[s].file
             /\ rows'[s].status = "generated" => rows[s].status = "generated"
    BY <1>1, <2>2 DEF Outputs, RowHasOutput, RunFrame, DeleteOn
  <2>3. gen[g].pc = "generated" /\ rows'[s].file = rows[s].file =>
           rows'[s].file = g \/ rows'[s].status # "generated"
    BY <1>1, MarkGeneratingDoes, CreateBoxDoes, StartBoxDoes, WaitBoxDoes, StoreJobDoes,
       MarkGeneratedDoes, CopyOutputDoes, UploadOutputDoes, MarkCrashedDoes
  <2> QED BY <1>7, <2>1, <2>2, <2>3
<1> QED BY <1>3, <1>4, <1>6, <1>8 DEF Outputs

LEMMA OutputAsk ==
    ASSUME KnownInv, KnownInv', Outputs, NEW q \in Request,
           \/ Enqueue(q) \/ Refuse(q) \/ RemoveVolume(q) \/ DeleteRow(q)
           \/ \E s \in Session : BeginGenerate(q, s) \/ BeginDelete(q, s)
    PROVE  Outputs'
<1>1. ASSUME NEW s \in Session, BeginGenerate(q, s) PROVE Outputs'
  <2>1. DeleteAlone'
    BY <1>1, BeginGenerateDoes, NoneOf DEF KnownInv, Known, Outputs, DeleteAlone, AskFrame, Busy, DeleteOn, RequestOn
  <2>2. RowHasOutput'
    BY <1>1, BeginGenerateDoes, NoneOf DEF known, Outputs, RowHasOutput, AskFrame, Busy, DeleteOn, RequestOn
  <2> QED BY <1>1, <2>1, <2>2, BeginGenerateDoes DEF known, Outputs, BoxKnown, WonHasOutput, AskFrame
<1>2. ASSUME NEW s \in Session, BeginDelete(q, s) PROVE Outputs'
  <2>1. DeleteAlone'
    BY <1>2, BeginDeleteDoes, NoneOf DEF KnownInv, Known, Outputs, DeleteAlone, AskFrame, Busy, GoroutineOn, RequestOn
  <2>2. RowHasOutput'
    BY <1>2, BeginDeleteDoes, NoneOf DEF known, Outputs, RowHasOutput, AskFrame, DeleteOn
  <2> QED BY <1>2, <2>1, <2>2, BeginDeleteDoes DEF known, Outputs, BoxKnown, WonHasOutput, AskFrame
<1>3. CASE Refuse(q)
  <2>1. DeleteAlone'
    BY <1>3, RefuseDoes, NoneOf DEF KnownInv, Known, Outputs, DeleteAlone, AskFrame
  <2>2. RowHasOutput'
    BY <1>3, RefuseDoes DEF known, Outputs, RowHasOutput, AskFrame, DeleteOn
  <2> QED BY <1>3, <2>1, <2>2, RefuseDoes DEF known, Outputs, BoxKnown, WonHasOutput, AskFrame
<1>4. CASE RemoveVolume(q)
  <2>1. DeleteAlone'
    BY <1>4, RemoveVolumeDoes, NoneOf DEF KnownInv, Known, Outputs, DeleteAlone, AskFrame
  <2>2. BoxKnown'
    BY <1>4, RemoveVolumeDoes, NoneOf DEF Outputs, BoxKnown, AskFrame
  <2>3. WonHasOutput'
    BY <1>4, RemoveVolumeDoes, NoneOf DEF known, KnownInv, Known, Outputs, DeleteAlone, WonHasOutput, AskFrame
  <2>4. RowHasOutput'
    BY <1>4, RemoveVolumeDoes DEF known, Outputs, RowHasOutput, AskFrame, DeleteOn
  <2> QED BY <2>1, <2>2, <2>3, <2>4 DEF Outputs
<1>5. CASE DeleteRow(q)
  <2>1. DeleteAlone'
    BY <1>5, DeleteRowDoes, NoneOf DEF KnownInv, Known, Outputs, DeleteAlone, AskFrame
  <2>2. RowHasOutput'
    BY <1>5, DeleteRowDoes DEF known, Outputs, RowHasOutput, AskFrame, DeleteOn
  <2> QED BY <1>5, <2>1, <2>2, DeleteRowDoes DEF known, Outputs, BoxKnown, WonHasOutput, AskFrame
<1>6. CASE Enqueue(q)
  <2>1. DeleteAlone'
    <3> SUFFICES ASSUME "delete" \notin env, NEW p \in Request, req'[p].op \in {"delete", "drop"}
                 PROVE  /\ \A h \in Gen : gen'[h].s # req'[p].s
                        /\ \A r \in Request : req'[r].s = req'[p].s => r = p
      BY <1>6, EnqueueDoes DEF DeleteAlone, AskFrame
    <3>1. p # q /\ req'[p] = req[p] /\ req[p].s \in Session
      BY <1>6, EnqueueDoes, NoneOf DEF AskFrame, KnownInv, Known
    <3>2. /\ \A h \in Gen : gen[h].s # req[p].s
          /\ \A r \in Request : req[r].s = req[p].s => r = p
      BY <3>1 DEF Outputs, DeleteAlone
    <3>3. \A h \in Gen : gen'[h] = gen[h] \/ gen'[h].s = req[q].s
      BY <1>6, EnqueueDoes DEF OthersStay
    <3>4. \A r \in Request : req'[r] = req[r] \/ req'[r] = NoRequest
      BY <1>6, EnqueueDoes DEF AskFrame
    <3> QED BY <3>1, <3>2, <3>3, <3>4, NoneOf
  <2>2. WonHasOutput'
    <3>1. PICK g \in Gen :
             /\ gen[g] = NoGoroutine /\ OthersStay(g) /\ gen'[g].pc = "mark" /\ gen'[g].won = FALSE
             /\ misread' = misread \ {g}
      BY <1>6, EnqueueDoes
    <3>2. UNCHANGED <<vol, env>>
      BY <1>6, EnqueueDoes DEF AskFrame
    <3> QED BY <3>1, <3>2, NoneOf DEF Outputs, WonHasOutput, OthersStay
  <2>3. RowHasOutput'
    <3>1. PICK g \in Gen : misread' = misread \ {g} /\ \A t \in Session : rows[t].file # g
      BY <1>6, EnqueueDoes
    <3>2. \A t \in Session : /\ rows'[t].file \in {rows[t].file, NoGen}
                             /\ rows'[t].status = "generated" => rows'[t] = rows[t]
      BY <1>6, EnqueueDoes
    <3>3. env' = env /\ vol' = vol /\ \A p \in Request : p # q => req'[p] = req[p]
      BY <1>6, EnqueueDoes DEF AskFrame
    <3>4. req[q].op = "generate"
      BY <1>6, EnqueueDoes
    <3>5. \A t \in Session : KeepsOutput(t)
      BY <3>3, <3>4 DEF KeepsOutput
    <3>6. \A t \in Session : SameOutput(t)
      BY <3>1, <3>2 DEF SameOutput
    <3> QED BY <3>3, <3>5, <3>6, RowsKeep DEF Outputs
  <2>4. BoxKnown'
    BY <1>6, EnqueueDoes DEF Outputs, BoxKnown, AskFrame
  <2> QED BY <2>1, <2>2, <2>3, <2>4 DEF Outputs
<1> QED BY <1>1, <1>2, <1>3, <1>4, <1>5, <1>6

LEMMA OutputSweep ==
    ASSUME KnownInv, Outputs,
           \/ \E due \in SUBSET Session : ListExpired(due)
           \/ \E i \in sw.todo : Inspect(i)
           \/ SweepCrash
    PROVE  Outputs'
<1>1. SweepFrame
  BY ListExpiredDoes, InspectDoes, SweepCrashDoes
<1>2. \A t \in Session : /\ rows'[t].file = rows[t].file
                         /\ rows'[t].status = "generated" => rows'[t] = rows[t]
  BY ListExpiredDoes, InspectDoes, SweepCrashDoes DEF Writes
<1>3. RowHasOutput'
  <2>1. UNCHANGED <<vol, req, env, misread>>
    BY <1>1 DEF SweepFrame, known
  <2>2. \A t \in Session : KeepsOutput(t)
    BY <2>1 DEF KeepsOutput
  <2>3. \A t \in Session : SameOutput(t)
    BY <1>2, <2>1 DEF SameOutput
  <2> QED BY <2>1, <2>2, <2>3, RowsKeep DEF Outputs
<1>4. BoxKnown' /\ DeleteAlone'
  BY <1>1 DEF Outputs, BoxKnown, DeleteAlone, SweepFrame
<1>5. WonHasOutput'
  BY <1>1 DEF known, Outputs, WonHasOutput, SweepFrame
<1> QED BY <1>3, <1>4, <1>5 DEF Outputs

LEMMA OutputAround ==
    ASSUME KnownInv, KnownInv', Outputs,
           \/ Boot \/ Crash \/ (\E s \in Session : Play(s) \/ Relaunch(s) \/ BoxEnds(s)) \/ UNCHANGED vars
    PROVE  Outputs'
<1>1. CASE BootRemove
  <2>1. \A s \in Session : box'[s] = NoBox \/ box'[s] = box[s]
    BY <1>1 DEF BootRemove
  <2>2. UNCHANGED <<rows, vol, gen, req, env, misread>>
    BY <1>1 DEF BootRemove, known
  <2>3. BoxKnown'
    BY <2>1, <2>2, NoneOf DEF Outputs, BoxKnown
  <2> QED BY <2>2, <2>3 DEF Outputs, WonHasOutput, DeleteAlone, RowHasOutput, DeleteOn
<1>2. CASE BootCrash
  <2>1. \A s \in Session : /\ rows'[s].file = rows[s].file
                           /\ rows'[s].status = "generated" => rows[s].status = "generated"
    BY <1>2 DEF BootCrash
  <2>2. UNCHANGED <<box, vol, gen, req, env, misread>>
    BY <1>2 DEF BootCrash, known
  <2>3. BoxKnown' /\ DeleteAlone'
    BY <2>2 DEF Outputs, BoxKnown, DeleteAlone
  <2>4. WonHasOutput'
    BY <2>2 DEF Outputs, WonHasOutput
  <2>5. RowHasOutput'
    <3>1. \A t \in Session : KeepsOutput(t)
      BY <2>2 DEF KeepsOutput
    <3>2. \A t \in Session : SameOutput(t)
      BY <2>1, <2>2 DEF SameOutput
    <3> QED BY <2>2, <3>1, <3>2, RowsKeep DEF Outputs
  <2> QED BY <2>3, <2>4, <2>5 DEF Outputs
<1>3. CASE Crash
  <2>1. /\ \A g \in Gen : gen'[g] = NoGoroutine
        /\ \A q \in Request : req'[q] = NoRequest
        /\ UNCHANGED <<rows, box, vol, env, misread>>
        /\ \A s \in Session : DeleteOn(s) => "delete" \in env
    BY <1>3 DEF Crash, disk, known
  <2> QED BY <2>1, NoneOf DEF Outputs, BoxKnown, WonHasOutput, DeleteAlone, RowHasOutput
<1>4. ASSUME NEW s \in Session, Play(s) \/ Relaunch(s) PROVE Outputs'
  <2>1. \A t \in Session : /\ rows'[t].file = rows[t].file
                           /\ rows'[t].status = "generated" =>
                                 rows[t].status = "generated" \/ rows[t].file # NoGen
    BY <1>4, PlayDoes, RelaunchDoes
  <2>2. UNCHANGED <<box, vol, gen, req, env, misread>>
    BY <1>4, PlayDoes, RelaunchDoes
  <2>3. BoxKnown' /\ DeleteAlone'
    BY <2>2 DEF Outputs, BoxKnown, DeleteAlone
  <2>4. WonHasOutput'
    BY <2>2 DEF Outputs, WonHasOutput
  <2>5. RowHasOutput'
    <3>1. \A t \in Session : KeepsOutput(t)
      BY <2>2 DEF KeepsOutput
    <3>2. \A t \in Session : SameOutput(t)
      BY <2>1, <2>2 DEF SameOutput
    <3> QED BY <2>2, <3>1, <3>2, RowsKeep DEF Outputs
  <2> QED BY <2>3, <2>4, <2>5 DEF Outputs
<1>5. ASSUME NEW s \in Session, BoxEnds(s) PROVE Outputs'
  <2>1. UNCHANGED <<rows, gen, req, env, misread>> /\ \A t \in Session : vol[t] \subseteq vol'[t]
    BY <1>5, BoxEndsDoes DEF Outputs, known
  <2>2. BoxKnown'
    BY <1>5, <2>1, BoxEndsDoes, NoneOf DEF Outputs, BoxKnown
  <2>3. WonHasOutput'
    BY <2>1, NoneOf DEF Outputs, WonHasOutput, KnownInv, Known
  <2>4. RowHasOutput'
    BY <2>1 DEF Outputs, RowHasOutput, DeleteOn
  <2> QED BY <2>1, <2>2, <2>3, <2>4 DEF Outputs, DeleteAlone
<1>6. CASE UNCHANGED vars
  BY <1>6 DEF vars, disk, known, Outputs, BoxKnown, WonHasOutput, DeleteAlone, RowHasOutput, DeleteOn
<1> QED BY <1>1, <1>2, <1>3, <1>4, <1>5, <1>6 DEF Boot

------------------------------------------------------------------------------
(* No process recovers with work at hand.                                    *)
Quiet ==
    phase # "serve" =>
        /\ \A g \in Gen : gen[g] = NoGoroutine
        /\ \A q \in Request : req[q] = NoRequest
        /\ sw = Asleep

LEMMA QuietStep ==
    ASSUME KnownInv, BoxKnown, Quiet, [Next]_vars
    PROVE  Quiet'
<1>1. ASSUME NEW q \in Request,
             \/ Enqueue(q) \/ Refuse(q) \/ RemoveVolume(q) \/ DeleteRow(q)
             \/ \E s \in Session : BeginGenerate(q, s) \/ BeginDelete(q, s)
      PROVE  phase = "serve" /\ phase' = "serve"
  BY <1>1, EnqueueDoes, RefuseDoes, RemoveVolumeDoes, DeleteRowDoes, BeginGenerateDoes, BeginDeleteDoes
     DEF AskFrame
<1>2. ASSUME NEW g \in Gen,
             \/ MarkGenerating(g) \/ CreateBox(g) \/ StartBox(g) \/ WaitBox(g) \/ StoreJob(g)
             \/ MarkGenerated(g) \/ CopyOutput(g) \/ UploadOutput(g) \/ MarkCrashed(g)
      PROVE  phase = "serve" /\ phase' = "serve"
  BY <1>2, RunDoes DEF RunFrame
<1>3. Sweep => phase = "serve" /\ phase' = "serve"
  BY ListExpiredDoes, InspectDoes, SweepCrashDoes DEF Sweep, SweepFrame
<1>4. Crash => Quiet'
  BY DEF Crash, Quiet
<1>5. Boot => Quiet'
  BY DEF Boot, BootRemove, BootCrash, Quiet
<1>6. ASSUME NEW s \in Session, Play(s) \/ Relaunch(s) \/ BoxEnds(s) PROVE Quiet'
  BY <1>6, PlayDoes, RelaunchDoes, BoxEndsDoes DEF Quiet
<1>7. UNCHANGED vars => Quiet'
  BY DEF vars, Quiet
<1> QED BY <1>1, <1>2, <1>3, <1>4, <1>5, <1>6, <1>7 DEF Next, Ask, Run, Quiet

------------------------------------------------------------------------------
(* In executions in which a session has one request or goroutine at a time.  *)
Sole == env \cap {"twice", "delete"} = {}

OneWorker ==
    /\ \A g, h \in Gen : gen[g].s \in Session /\ gen[h].s = gen[g].s => h = g
    /\ \A p, q \in Request : req[p].s \in Session /\ req[q].s = req[p].s => q = p
    /\ \A g \in Gen, q \in Request : gen[g].s \in Session => req[q].s # gen[g].s

(* A session about to generate has no sweep that saw an earlier generation.  *)
Fresh ==
    \A q \in Request : req[q].op = "generate" =>
        ~SweeperOn(req[q].s) /\ rows[req[q].s].status # "generating"

(* The container of a generation is there while its goroutine needs it; the  *)
(* job id is stored when it is gone, or when it is the one that was not       *)
(* removed.                                                                   *)
Follows(g, s) ==
    /\ gen[g].pc = "mark" => rows[s].status # "generating"
    /\ gen[g].pc \in {"start", "wait"} => box[s].g = g
    /\ gen[g].pc = "start" => box[s].st = "created"
    /\ gen[g].pc \in {"job", "generated", "copy", "upload"} => box[s] = NoBox \/ box[s].g = g
    /\ gen[g].pc \in {"create", "start", "wait"} /\ rows[s].status = "generating"
         => rows[s].job = NoGen
BoxFollows == \A g \in Gen : gen[g].s \in Session => Follows(g, gen[g].s)

JobAfterBox ==
    \A s \in Session : rows[s].status = "generating" /\ rows[s].job # NoGen
                         => box[s] = NoBox \/ box[s].g = rows[s].job

(* So the sweeper lists a job id only of a generation whose container is gone  *)
(* or has that id.                                                            *)
Early == {"mark", "create", "start", "wait"}
ListedJobs ==
    \A i \in sw.todo : i.job # NoGen =>
        /\ box[i.s] = NoBox \/ box[i.s].g = i.job
        /\ \A g \in Gen : gen[g].s = i.s => gen[g].pc \notin Early

Follow == OneWorker /\ Fresh /\ BoxFollows /\ JobAfterBox /\ ListedJobs

LEMMA FollowRun ==
    ASSUME KnownInv, KnownInv', Follow, NEW g \in Gen,
           \/ MarkGenerating(g) \/ CreateBox(g) \/ StartBox(g) \/ WaitBox(g) \/ StoreJob(g)
           \/ MarkGenerated(g) \/ CopyOutput(g) \/ UploadOutput(g) \/ MarkCrashed(g)
    PROVE  Follow'
<1> DEFINE s == gen[g].s
<1>1. RunFrame(g) /\ (gen'[g] = NoGoroutine \/ gen'[g].s = s)
  BY RunDoes
<1>2. s \in Session /\ Follows(g, s) /\ (\A h \in Gen : h # g => gen[h].s # s)
  BY <1>1 DEF RunFrame, Follow, BoxFollows, OneWorker
<1>3. OneWorker'
  BY <1>1, NoneOf DEF RunFrame, OthersStay, Follow, OneWorker
<1>4. Fresh'
  <2> SUFFICES ASSUME NEW q \in Request, req[q].op = "generate"
               PROVE  ~SweeperOn(req[q].s)' /\ rows'[req[q].s].status # "generating"
    BY <1>1 DEF RunFrame, Fresh
  <2>1. req[q].s \in Session
    BY NoneOf DEF KnownInv, Known
  <2>2. req[q].s # s /\ rows'[req[q].s] = rows[req[q].s]
    BY <1>1, <1>2, <2>1 DEF RunFrame, Follow, OneWorker
  <2> QED BY <1>1, <2>2 DEF RunFrame, Follow, Fresh, SweeperOn
<1>5. /\ gen'[g] # NoGoroutine => Follows(g, s)'
      /\ rows'[s].status = "generating" /\ rows'[s].job # NoGen
           => box'[s] = NoBox \/ box'[s].g = rows'[s].job
      /\ gen[g].pc \notin Early => box'[s] = box[s] /\ gen'[g].pc \notin Early
  <2>1. CASE MarkGenerating(g)
    BY <2>1, <1>2, MarkGeneratingDoes, NoneOf DEF Reaches, Follows, Early, Follow, JobAfterBox
  <2>2. CASE CreateBox(g)
    <3>1. gen[g].pc = "create" /\ UNCHANGED rows
      BY <2>2, CreateBoxDoes
    <3>2. CASE /\ Reaches(g, "start", FALSE)
               /\ box'[s].g = g /\ box'[s].st = "created"
      BY <3>1, <3>2, <1>2 DEF Reaches, Follows, Early
    <3>3. CASE Reaches(g, "crash", FALSE) /\ UNCHANGED box
      BY <3>1, <3>3, <1>2 DEF Reaches, Follows, Early, Follow, JobAfterBox
    <3> QED BY <2>2, <3>2, <3>3, CreateBoxDoes
  <2>3. CASE StartBox(g)
    BY <2>3, <1>2, StartBoxDoes, NoneOf DEF Removes, Reaches, Follows, Early, Follow, JobAfterBox
  <2>4. CASE WaitBox(g)
    BY <2>4, <1>2, WaitBoxDoes, NoneOf DEF Removes, Reaches, Follows, Early, Follow, JobAfterBox
  <2>5. CASE StoreJob(g)
    BY <2>5, <1>2, StoreJobDoes, NoneOf DEF Reaches, Follows, Early, Follow, JobAfterBox
  <2>6. CASE MarkGenerated(g)
    BY <2>6, <1>2, MarkGeneratedDoes, NoneOf DEF Reaches, Follows, Early, Follow, JobAfterBox, Writes
  <2>7. CASE CopyOutput(g)
    BY <2>7, <1>2, CopyOutputDoes, NoneOf DEF Reaches, Follows, Early, Follow, JobAfterBox
  <2>8. CASE UploadOutput(g)
    BY <2>8, <1>2, UploadOutputDoes, NoneOf DEF Reaches, Follows, Early, Follow, JobAfterBox
  <2>9. CASE MarkCrashed(g)
    BY <2>9, <1>2, MarkCrashedDoes, NoneOf DEF Reaches, Follows, Early, Follow, JobAfterBox, Writes
  <2> QED BY <2>1, <2>2, <2>3, <2>4, <2>5, <2>6, <2>7, <2>8, <2>9
<1>6. BoxFollows'
  <2> SUFFICES ASSUME NEW h \in Gen, gen'[h].s \in Session
               PROVE  Follows(h, gen[h].s)'
    BY DEF BoxFollows
  <2>1. CASE h = g
    BY <2>1, <1>1, <1>5, NoneOf
  <2>2. CASE h # g
    <3>1. gen'[h] = gen[h] /\ gen[h].s \in Session /\ gen[h].s # s /\ Follows(h, gen[h].s)
      BY <2>2, <1>1, <1>2 DEF RunFrame, OthersStay, Follow, BoxFollows
    <3> QED BY <3>1, <1>1 DEF RunFrame, Follows
  <2> QED BY <2>1, <2>2
<1>7. JobAfterBox'
  BY <1>1, <1>5 DEF RunFrame, Follow, JobAfterBox
<1>8. ListedJobs'
  <2> SUFFICES ASSUME NEW i \in sw.todo, i.job # NoGen
               PROVE  /\ box'[i.s] = NoBox \/ box'[i.s].g = i.job
                      /\ \A h \in Gen : gen'[h].s = i.s => gen'[h].pc \notin Early
    BY <1>1 DEF RunFrame, ListedJobs
  <2>1. /\ i.s \in Session /\ (box[i.s] = NoBox \/ box[i.s].g = i.job)
        /\ \A h \in Gen : gen[h].s = i.s => gen[h].pc \notin Early
    BY SweeperKnown DEF Follow, ListedJobs
  <2> QED BY <1>1, <1>5, <2>1, NoneOf DEF RunFrame, OthersStay
<1> QED BY <1>3, <1>4, <1>6, <1>7, <1>8 DEF Follow

LEMMA FollowAsk ==
    ASSUME KnownInv, KnownInv', Sole, Follow, NEW q \in Request,
           \/ Enqueue(q) \/ Refuse(q) \/ RemoveVolume(q) \/ DeleteRow(q)
           \/ \E s \in Session : BeginGenerate(q, s) \/ BeginDelete(q, s)
    PROVE  Follow'
<1>1. AskFrame(q)
  BY EnqueueDoes, RefuseDoes, RemoveVolumeDoes, DeleteRowDoes, BeginGenerateDoes, BeginDeleteDoes
<1>2. ASSUME NEW s \in Session, BeginGenerate(q, s) \/ BeginDelete(q, s)
      PROVE  Follow'
  <2>1. /\ UNCHANGED <<rows, gen>> /\ req[q] = NoRequest /\ req'[q].s = s /\ ~Busy(s)
        /\ req'[q].op = "generate" => rows[s].status # "generating"
    BY <1>2, BeginGenerateDoes, BeginDeleteDoes DEF Sole
  <2>2. OneWorker'
    BY <1>1, <2>1 DEF AskFrame, Follow, OneWorker, Busy, GoroutineOn, RequestOn
  <2>3. Fresh'
    BY <1>1, <2>1 DEF AskFrame, Follow, Fresh, Busy, SweeperOn
  <2> QED BY <1>1, <2>1, <2>2, <2>3
          DEF AskFrame, Follow, BoxFollows, Follows, JobAfterBox, ListedJobs
<1>3. CASE Refuse(q) \/ RemoveVolume(q)
  <2>1. UNCHANGED <<rows, gen>> /\ (req'[q] = NoRequest \/ (req'[q].op = "drop" /\ req'[q].s = req[q].s))
    BY <1>3, RefuseDoes, RemoveVolumeDoes
  <2>2. OneWorker' /\ Fresh'
    BY <1>1, <2>1, NoneOf DEF AskFrame, Follow, OneWorker, Fresh, SweeperOn
  <2> QED BY <1>1, <2>1, <2>2 DEF AskFrame, Follow, BoxFollows, Follows, JobAfterBox, ListedJobs
<1>4. CASE DeleteRow(q)
  <2>1. /\ UNCHANGED gen /\ req'[q] = NoRequest /\ req[q].s \in Session
        /\ \A t \in Session : rows'[t].status = "generating" => rows'[t] = rows[t]
        /\ \A t \in Session : t # req[q].s => rows'[t] = rows[t]
    BY <1>4, DeleteRowDoes
  <2>2. OneWorker'
    BY <1>1, <2>1, NoneOf DEF AskFrame, Follow, OneWorker
  <2>3. Fresh'
    BY <1>1, <2>1, NoneOf DEF AskFrame, Follow, Fresh, SweeperOn, KnownInv, Known
  <2>4. BoxFollows' /\ JobAfterBox' /\ ListedJobs'
    BY <1>1, <2>1 DEF AskFrame, Follow, BoxFollows, Follows, JobAfterBox, ListedJobs
  <2> QED BY <2>2, <2>3, <2>4 DEF Follow
<1>5. CASE Enqueue(q)
  <2> DEFINE s == req[q].s
  <2>1. /\ req'[q] = NoRequest /\ s \in Session /\ req[q].op = "generate"
        /\ \A t \in Session : t # s => rows'[t] = rows[t]
        /\ rows'[s].status # "generating"
    BY <1>5, EnqueueDoes
  <2>2. PICK g \in Gen :
           /\ gen[g] = NoGoroutine /\ OthersStay(g) /\ gen'[g].s = s /\ gen'[g].pc = "mark"
    BY <1>5, EnqueueDoes
  <2>3. ~SweeperOn(s) /\ (\A h \in Gen : gen[h].s # s) /\ (\A p \in Request : p # q => req[p].s # s)
    BY <2>1 DEF Follow, Fresh, OneWorker
  <2>4. OneWorker'
    BY <1>1, <2>1, <2>2, <2>3, NoneOf DEF AskFrame, OthersStay, Follow, OneWorker
  <2>5. Fresh'
    BY <1>1, <2>1, <2>3, NoneOf DEF AskFrame, Follow, Fresh, SweeperOn, KnownInv, Known
  <2>6. BoxFollows'
    <3> SUFFICES ASSUME NEW h \in Gen, gen'[h].s \in Session
                 PROVE  Follows(h, gen[h].s)'
      BY DEF BoxFollows
    <3>1. CASE h = g
      BY <3>1, <2>1, <2>2 DEF Follows
    <3>2. CASE h # g
      <4>1. gen'[h] = gen[h] /\ gen[h].s \in Session /\ gen[h].s # s /\ Follows(h, gen[h].s)
        BY <3>2, <2>2, <2>3 DEF OthersStay, Follow, BoxFollows
      <4> QED BY <4>1, <1>1, <2>1 DEF AskFrame, Follows
    <3> QED BY <3>1, <3>2
  <2>7. JobAfterBox'
    BY <1>1, <2>1 DEF AskFrame, Follow, JobAfterBox
  <2>8. ListedJobs'
    BY <1>1, <2>2, <2>3 DEF AskFrame, OthersStay, Follow, ListedJobs, SweeperOn
  <2> QED BY <2>4, <2>5, <2>6, <2>7, <2>8 DEF Follow
<1> QED BY <1>2, <1>3, <1>4, <1>5

LEMMA FollowSweep ==
    ASSUME KnownInv, Follow,
           \/ \E due \in SUBSET Session : ListExpired(due)
           \/ \E i \in sw.todo : Inspect(i)
           \/ SweepCrash
    PROVE  Follow'
<1>1. SweepFrame
  BY ListExpiredDoes, InspectDoes, SweepCrashDoes
<1>2. OneWorker'
  BY <1>1 DEF SweepFrame, Follow, OneWorker
<1>3. ASSUME NEW due \in SUBSET Session, ListExpired(due) PROVE Follow'
  <2>1. /\ UNCHANGED rows /\ sw'.cur = NoItem
        /\ \A i \in sw'.todo : /\ i.s \in Session /\ i.job = rows[i.s].job
                               /\ rows[i.s].status = "generating"
    BY <1>3, ListExpiredDoes DEF Due
  <2>2. Fresh'
    BY <1>1, <2>1, NoneOf DEF SweepFrame, Follow, Fresh, SweeperOn, KnownInv, Known
  <2>3. ListedJobs'
    <3> SUFFICES ASSUME NEW i \in sw'.todo, i.job # NoGen
                 PROVE  /\ box[i.s] = NoBox \/ box[i.s].g = i.job
                        /\ \A g \in Gen : gen[g].s = i.s => gen[g].pc \notin Early
      BY <1>1 DEF SweepFrame, ListedJobs
    <3>1. box[i.s] = NoBox \/ box[i.s].g = i.job
      BY <2>1 DEF Follow, JobAfterBox
    <3>2. \A g \in Gen : gen[g].s = i.s => gen[g].pc \notin Early
      BY <2>1 DEF Follow, BoxFollows, Follows, Early
    <3> QED BY <3>1, <3>2
  <2> QED BY <1>1, <1>2, <2>1, <2>2, <2>3 DEF SweepFrame, Follow, BoxFollows, Follows, JobAfterBox
<1>4. ASSUME NEW i \in sw.todo, Inspect(i) PROVE Follow'
  <2>1. /\ UNCHANGED rows /\ sw'.todo \subseteq sw.todo
        /\ \A s : SweeperOn(s)' => SweeperOn(s) \/ s = NoSession
    BY <1>4, InspectDoes, NoneOf DEF SweeperOn
  <2>2. Fresh'
    BY <1>1, <2>1, NoneOf DEF SweepFrame, Follow, Fresh, KnownInv, Known
  <2> QED BY <1>1, <1>2, <2>1, <2>2
          DEF SweepFrame, Follow, BoxFollows, Follows, JobAfterBox, ListedJobs
<1>5. CASE SweepCrash
  <2>1. /\ sw'.todo = sw.todo /\ sw'.cur = NoItem
        /\ \A t \in Session : rows'[t].status = "generating" => rows'[t] = rows[t]
    BY <1>5, SweepCrashDoes DEF Writes
  <2>2. Fresh'
    BY <1>1, <2>1, NoneOf DEF SweepFrame, Follow, Fresh, SweeperOn, KnownInv, Known
  <2>3. BoxFollows' /\ JobAfterBox' /\ ListedJobs'
    BY <1>1, <2>1 DEF SweepFrame, Follow, BoxFollows, Follows, JobAfterBox, ListedJobs
  <2> QED BY <1>2, <2>2, <2>3 DEF Follow
<1> QED BY <1>3, <1>4, <1>5

LEMMA FollowAround ==
    ASSUME KnownInv, BoxKnown, Quiet, Follow,
           \/ Boot \/ Crash \/ (\E s \in Session : Play(s) \/ Relaunch(s) \/ BoxEnds(s)) \/ UNCHANGED vars
    PROVE  Follow'
<1>1. CASE Boot
  <2>1. /\ UNCHANGED <<gen, req, sw>> /\ sw.todo = {}
        /\ \A g \in Gen : gen[g] = NoGoroutine
        /\ \A q \in Request : req[q] = NoRequest
    BY <1>1, NoneOf DEF Boot, BootRemove, BootCrash, Quiet
  <2>2. \A s \in Session : box'[s] = NoBox \/ box'[s] = box[s]
    BY <1>1 DEF Boot, BootRemove, BootCrash
  <2>3. \A s \in Session : rows'[s].status = "generating" => rows'[s] = rows[s]
    BY <1>1 DEF Boot, BootRemove, BootCrash
  <2>4. OneWorker' /\ Fresh' /\ ListedJobs' /\ BoxFollows'
    BY <2>1, NoneOf DEF OneWorker, Fresh, ListedJobs, BoxFollows
  <2>5. JobAfterBox'
    BY <2>2, <2>3 DEF Follow, JobAfterBox
  <2> QED BY <2>4, <2>5 DEF Follow
<1>2. CASE Crash
  <2>1. /\ UNCHANGED <<rows, box>> /\ sw'.todo = {}
        /\ \A g \in Gen : gen'[g] = NoGoroutine
        /\ \A q \in Request : req'[q] = NoRequest
    BY <1>2, NoneOf DEF Crash, disk
  <2> QED BY <2>1, NoneOf DEF Follow, OneWorker, Fresh, ListedJobs, BoxFollows, JobAfterBox
<1>3. ASSUME NEW s \in Session, Play(s) \/ Relaunch(s) PROVE Follow'
  <2>1. /\ UNCHANGED <<box, gen, req, sw>>
        /\ \A t \in Session : rows'[t].status = "generating" => rows'[t] = rows[t]
    BY <1>3, PlayDoes, RelaunchDoes
  <2>2. OneWorker' /\ Fresh' /\ ListedJobs'
    BY <2>1, NoneOf DEF Follow, OneWorker, Fresh, ListedJobs, SweeperOn, KnownInv, Known
  <2>3. BoxFollows' /\ JobAfterBox'
    BY <2>1 DEF Follow, BoxFollows, Follows, JobAfterBox
  <2> QED BY <2>2, <2>3 DEF Follow
<1>4. ASSUME NEW s \in Session, BoxEnds(s) PROVE Follow'
  <2>1. /\ UNCHANGED <<rows, gen, req, sw>>
        /\ box[s] # NoBox /\ box[s].st = "running" /\ box'[s].g = box[s].g
        /\ \A t \in Session : t # s => box'[t] = box[t]
    BY <1>4, BoxEndsDoes
  <2>2. OneWorker' /\ Fresh'
    BY <2>1 DEF Follow, OneWorker, Fresh, SweeperOn
  <2>3. BoxFollows'
    BY <2>1 DEF Follow, BoxFollows, Follows
  <2>4. JobAfterBox' /\ ListedJobs'
    BY <2>1, SweeperKnown DEF Follow, JobAfterBox, ListedJobs
  <2> QED BY <2>2, <2>3, <2>4 DEF Follow
<1>5. CASE UNCHANGED vars
  BY <1>5 DEF vars, disk, Follow, OneWorker, Fresh, SweeperOn, BoxFollows, Follows, JobAfterBox, ListedJobs
<1> QED BY <1>1, <1>2, <1>3, <1>4, <1>5

------------------------------------------------------------------------------
(* The archive, until the process crashes: a relaunch makes a row generated   *)
(* without it, so its session is set apart.                                   *)
Uploads(g, s) ==
    /\ gen[g].pc = "upload" => g \in gen[g].copy \cup misread
    /\ gen[g].pc \in {"copy", "upload"} /\ Present(s) => rows[s].file = g
Archived ==
    /\ \A g \in Gen : gen[g].s \in Session => Uploads(g, gen[g].s)
    /\ \A s \in Session : rows[s].status = "generated" /\ s \notin relaunched /\ ~GoroutineOn(s)
                            => rows[s].file \in art[s] \cup misread

LEMMA ArchivedRun ==
    ASSUME KnownInv, WonHasOutput, Sole, Follow, Archived, NEW g \in Gen,
           \/ MarkGenerating(g) \/ CreateBox(g) \/ StartBox(g) \/ WaitBox(g) \/ StoreJob(g)
           \/ MarkGenerated(g) \/ CopyOutput(g) \/ UploadOutput(g) \/ MarkCrashed(g)
    PROVE  Archived'
<1> DEFINE s == gen[g].s
<1>1. RunFrame(g) /\ (gen'[g] = NoGoroutine \/ gen'[g].s = s)
  BY RunDoes
<1>2. s \in Session /\ Uploads(g, s) /\ (\A h \in Gen : h # g => gen[h].s # s)
  BY <1>1 DEF RunFrame, Archived, Follow, OneWorker
<1>3. /\ gen'[g] # NoGoroutine => Uploads(g, s)'
      /\ gen'[g] = NoGoroutine /\ rows'[s].status = "generated" => rows'[s].file \in art'[s] \cup misread'
  <2>m. misread \subseteq misread'
    BY <1>1 DEF RunFrame
  <2>1. CASE MarkGenerating(g)
    BY <2>1, <1>2, MarkGeneratingDoes, NoneOf DEF Reaches, Uploads
  <2>2. CASE CreateBox(g)
    BY <2>2, <1>2, CreateBoxDoes, NoneOf DEF Reaches, Uploads
  <2>3. CASE StartBox(g)
    BY <2>3, <1>2, StartBoxDoes, NoneOf DEF Reaches, Uploads
  <2>4. CASE WaitBox(g)
    BY <2>4, <1>2, WaitBoxDoes, NoneOf DEF Reaches, Uploads
  <2>5. CASE StoreJob(g)
    BY <2>5, <1>2, StoreJobDoes, NoneOf DEF Reaches, Uploads
  <2>6. CASE MarkGenerated(g)
    BY <2>6, <1>2, MarkGeneratedDoes, NoneOf DEF Reaches, Uploads, Present
  <2>7. CASE CopyOutput(g)
    <3>1. g \in vol[s] \cup misread
      BY <2>7, CopyOutputDoes DEF Sole, WonHasOutput
    <3>2. gen[g].pc = "copy" /\ UNCHANGED rows
      BY <2>7, CopyOutputDoes
    <3>3. CASE Reaches(g, "upload", TRUE) /\ gen'[g].copy = vol[s]
      BY <3>1, <3>2, <3>3, <2>m, <1>2, NoneOf DEF Reaches, Uploads, Present
    <3>4. CASE Reaches(g, "crash", FALSE)
      BY <3>4, NoneOf DEF Reaches, Uploads
    <3> QED BY <2>7, <3>3, <3>4, CopyOutputDoes
  <2>8. CASE UploadOutput(g)
    <3>1. gen[g].pc = "upload" /\ UNCHANGED rows
      BY <2>8, UploadOutputDoes
    <3>2. CASE gen'[g] = NoGoroutine /\ art'[s] = gen[g].copy
      BY <3>1, <3>2, <2>m, <1>2 DEF Uploads, Present
    <3>3. CASE Reaches(g, "crash", FALSE)
      BY <3>3, NoneOf DEF Reaches, Uploads
    <3> QED BY <2>8, <3>2, <3>3, UploadOutputDoes
  <2>9. CASE MarkCrashed(g)
    BY <2>9, <1>2, MarkCrashedDoes, NoneOf DEF Writes
  <2> QED BY <2>1, <2>2, <2>3, <2>4, <2>5, <2>6, <2>7, <2>8, <2>9
<1>4. ASSUME NEW h \in Gen, gen'[h].s \in Session PROVE Uploads(h, gen[h].s)'
  <2>1. CASE h = g
    BY <2>1, <1>1, <1>3, <1>4, NoneOf
  <2>2. CASE h # g
    <3>1. gen'[h] = gen[h] /\ gen[h].s # s /\ Uploads(h, gen[h].s)
      BY <2>2, <1>1, <1>2, <1>4 DEF RunFrame, OthersStay, Archived
    <3> QED BY <3>1, <1>1, <1>4 DEF RunFrame, Uploads, Present
  <2> QED BY <2>1, <2>2
<1>5. ASSUME NEW t \in Session, rows'[t].status = "generated", t \notin relaunched', ~GoroutineOn(t)'
      PROVE  rows'[t].file \in art'[t] \cup misread'
  <2>1. CASE t = s
    <3>1. gen'[g] = NoGoroutine
      BY <1>1, <1>5, <2>1 DEF GoroutineOn
    <3> QED BY <1>3, <1>5, <2>1, <3>1
  <2>2. CASE t # s
    <3>1. /\ rows'[t] = rows[t] /\ art'[t] = art[t] /\ misread \subseteq misread'
          /\ t \notin relaunched /\ ~GoroutineOn(t)
      BY <1>1, <1>5, <2>2 DEF RunFrame, OthersStay, GoroutineOn
    <3> QED BY <1>5, <3>1 DEF Archived
  <2> QED BY <2>1, <2>2
<1> QED BY <1>4, <1>5 DEF Archived

LEMMA ArchivedElse ==
    ASSUME KnownInv, BoxKnown, Sole, Follow, Archived, [Next]_vars, ~Run
    PROVE  restarted' \/ Archived'
(* A step that changes no goroutine, and makes no row say generated, but by   *)
(* a relaunch.                                                                 *)
<1>1. ASSUME UNCHANGED <<gen, art, misread>>,
             \A t \in Session : /\ rows'[t].status # "absent" => rows[t].status # "absent"
                                /\ rows'[t].status # "absent" => rows'[t].file = rows[t].file
                                /\ rows'[t].status = "generated" /\ t \notin relaunched' =>
                                       rows[t].status = "generated" /\ t \notin relaunched
      PROVE  Archived'
  <2>1. ASSUME NEW h \in Gen, gen[h].s \in Session PROVE Uploads(h, gen[h].s)'
    <3>1. Uploads(h, gen[h].s)
      BY <2>1 DEF Archived
    <3> QED BY <1>1, <2>1, <3>1 DEF Uploads, Present
  <2>2. ASSUME NEW t \in Session, rows'[t].status = "generated", t \notin relaunched', ~GoroutineOn(t)
        PROVE  rows'[t].file \in art[t] \cup misread
    BY <1>1, <2>2 DEF Archived
  <2> QED BY <1>1, <2>1, <2>2 DEF Archived, GoroutineOn
<1>2. ASSUME NEW q \in Request,
             \/ Refuse(q) \/ RemoveVolume(q) \/ DeleteRow(q)
             \/ \E s \in Session : BeginGenerate(q, s) \/ BeginDelete(q, s)
      PROVE  Archived'
  <2>1. UNCHANGED <<gen, art, misread, relaunched>>
    BY <1>2, RefuseDoes, RemoveVolumeDoes, DeleteRowDoes, BeginGenerateDoes, BeginDeleteDoes DEF AskFrame, known
  <2>2. \A t \in Session : rows'[t].status = "absent" \/ rows'[t] = rows[t]
    BY <1>2, RefuseDoes, RemoveVolumeDoes, DeleteRowDoes, BeginGenerateDoes, BeginDeleteDoes
  <2> QED BY <1>1, <2>1, <2>2
<1>3. ASSUME NEW q \in Request, Enqueue(q) PROVE Archived'
  <2> DEFINE s == req[q].s
  <2>1. /\ UNCHANGED art /\ s \in Session /\ \A t \in Session : t # s => rows'[t] = rows[t]
        /\ rows'[s].status \in {"pending", "absent"} /\ relaunched' = relaunched \ {s}
        /\ req[q].op = "generate"
    BY <1>3, EnqueueDoes DEF AskFrame
  <2>2. PICK g \in Gen :
           /\ gen[g] = NoGoroutine /\ OthersStay(g) /\ gen'[g].s = s /\ gen'[g].pc = "mark"
           /\ misread' = misread \ {g} /\ \A t \in Session : rows[t].file # g
    BY <1>3, EnqueueDoes
  <2>3. \A h \in Gen : gen[h].s # s
    BY <2>1 DEF Follow, OneWorker
  <2>4. ASSUME NEW h \in Gen, gen'[h].s \in Session PROVE Uploads(h, gen[h].s)'
    <3>1. CASE h = g
      BY <3>1, <2>2 DEF Uploads
    <3>2. CASE h # g
      <4>1. gen'[h] = gen[h] /\ gen[h].s # s /\ Uploads(h, gen[h].s)
        BY <3>2, <2>2, <2>3, <2>4 DEF OthersStay, Archived
      <4>2. rows'[gen[h].s] = rows[gen[h].s]
        BY <2>1, <2>4, <4>1
      <4> QED BY <2>2, <3>2, <4>1, <4>2 DEF Uploads, Present
    <3> QED BY <3>1, <3>2
  <2>5. ASSUME NEW t \in Session, rows'[t].status = "generated", t \notin relaunched', ~GoroutineOn(t)'
        PROVE  rows'[t].file \in art[t] \cup misread'
    <3>1. t # s /\ rows'[t] = rows[t] /\ t \notin relaunched
      BY <2>1, <2>5
    <3>2. ~GoroutineOn(t)
      BY <2>2, <2>5, NoneOf DEF GoroutineOn, OthersStay
    <3>3. rows[t].file \in art[t] \cup misread
      BY <2>5, <3>1, <3>2 DEF Archived
    <3> QED BY <2>2, <3>1, <3>3
  <2> QED BY <2>1, <2>4, <2>5 DEF Archived
<1>4. Sweep => Archived'
  <2> SUFFICES ASSUME Sweep PROVE Archived'
    OBVIOUS
  <2>1. UNCHANGED <<gen, art, misread, relaunched>>
    BY ListExpiredDoes, InspectDoes, SweepCrashDoes DEF Sweep, SweepFrame, known
  <2>2. UNCHANGED rows \/ SweepCrash
    BY ListExpiredDoes, InspectDoes DEF Sweep
  <2>3. SweepCrash => \A t \in Session : /\ rows'[t].status # "absent" => rows[t].status # "absent"
                                         /\ rows'[t].file = rows[t].file
                                         /\ rows'[t].status = "generated" => rows[t].status = "generated"
    BY SweepCrashDoes DEF Writes, Present
  <2> QED BY <1>1, <2>1, <2>2, <2>3
<1>5. Boot => Archived'
  <2> SUFFICES ASSUME Boot PROVE Archived'
    OBVIOUS
  <2>1. UNCHANGED <<gen, art, misread, relaunched>>
    BY DEF Boot, BootRemove, BootCrash, known
  <2>2. \A t \in Session : /\ rows'[t].status # "absent" => rows[t].status # "absent"
                           /\ rows'[t].file = rows[t].file
                           /\ rows'[t].status = "generated" => rows[t].status = "generated"
    BY DEF Boot, BootRemove, BootCrash, Interrupted
  <2> QED BY <1>1, <2>1, <2>2
<1>6. Crash => restarted'
  BY DEF Crash
<1>7. ASSUME NEW s \in Session, Play(s) \/ Relaunch(s) \/ BoxEnds(s) PROVE Archived'
  <2>1. UNCHANGED <<gen, art, misread>>
    BY <1>7, PlayDoes, RelaunchDoes, BoxEndsDoes DEF known
  <2>2. ASSUME NEW t \in Session
        PROVE  /\ rows'[t].status # "absent" => rows[t].status # "absent"
               /\ rows'[t].file = rows[t].file
               /\ rows'[t].status = "generated" /\ t \notin relaunched' =>
                      rows[t].status = "generated" /\ t \notin relaunched
    BY <1>7, PlayDoes, RelaunchDoes, BoxEndsDoes DEF known
  <2> QED BY <1>1, <2>1, <2>2
<1>8. UNCHANGED vars => Archived'
  BY <1>1 DEF vars, disk, known
<1> QED BY <1>2, <1>3, <1>4, <1>5, <1>6, <1>7, <1>8 DEF Next, Ask

------------------------------------------------------------------------------
(* Executions in which nothing meets: what each actor can rely on.           *)
GoroutineRests(g, s) ==
    /\ Present(s)
    /\ gen[g].pc \in {"create", "start", "wait"} => rows[s].status = "generating"
SweepRests(i, g) ==
    /\ gen[g].pc \notin {"mark", "create", "start"}
    /\ gen[g].pc = "wait" => box[i.s].st = "running" /\ i.job = NoGen

WorkRests ==
    /\ \A g \in Gen : gen[g].s \in Session => GoroutineRests(g, gen[g].s)
    /\ \A q \in Request : req[q].op = "generate" => (req[q].new <=> ~Present(req[q].s))
ListRests ==
    /\ \A i \in sw.todo, g \in Gen : gen[g].s = i.s => SweepRests(i, g)
    /\ \A g \in Gen : sw.cur # NoItem /\ gen[g].s = sw.cur.s => gen[g].pc \notin Early
BoxRests ==
    \A s \in Session : box[s] # NoBox =>
        \/ phase = "serve" /\ \E g \in Gen : gen[g].s = s /\ gen[g].pc \in {"start", "wait"}
        \/ phase = "boot" /\ rows[s].status = "generating"
Rests == WorkRests /\ ListRests /\ BoxRests

LEMMA RestsRun ==
    ASSUME KnownInv, KnownInv', env = {}, Follow, Rests, NEW g \in Gen,
           \/ MarkGenerating(g) \/ CreateBox(g) \/ StartBox(g) \/ WaitBox(g) \/ StoreJob(g)
           \/ MarkGenerated(g) \/ CopyOutput(g) \/ UploadOutput(g) \/ MarkCrashed(g)
    PROVE  Rests'
<1> DEFINE s == gen[g].s
<1>1. RunFrame(g) /\ (gen'[g] = NoGoroutine \/ gen'[g].s = s)
  BY RunDoes
<1>2. /\ s \in Session /\ Follows(g, s) /\ GoroutineRests(g, s)
      /\ \A h \in Gen : h # g => gen[h].s # s
      /\ box[s] # NoBox => gen[g].pc \in {"start", "wait"}
  BY <1>1 DEF RunFrame, Follow, BoxFollows, OneWorker, Rests, WorkRests, BoxRests
<1>3. /\ gen'[g] # NoGoroutine => GoroutineRests(g, s)'
      /\ box'[s] # NoBox => gen'[g] # NoGoroutine /\ gen'[g].pc \in {"start", "wait"}
      /\ gen[g].pc \notin {"mark", "create", "start"} => gen'[g].pc \notin Early
  <2>1. CASE MarkGenerating(g)
    BY <2>1, <1>2, MarkGeneratingDoes, NoneOf DEF Reaches, GoroutineRests, Early, Writes, Present
  <2>2. CASE CreateBox(g)
    <3>1. gen[g].pc = "create" /\ UNCHANGED rows
      BY <2>2, CreateBoxDoes
    <3>2. CASE Reaches(g, "start", FALSE)
      BY <3>1, <3>2, <1>2, NoneOf DEF Reaches, GoroutineRests, Early, Present
    <3>3. CASE Reaches(g, "crash", FALSE) /\ UNCHANGED box
      BY <3>1, <3>3, <1>2, NoneOf DEF Reaches, GoroutineRests, Early, Present
    <3> QED BY <2>2, <3>2, <3>3, CreateBoxDoes
  <2>3. CASE StartBox(g)
    BY <2>3, <1>2, StartBoxDoes, NoneOf DEF Removes, Reaches, Follows, GoroutineRests, Early, Present
  <2>4. CASE WaitBox(g)
    BY <2>4, <1>2, WaitBoxDoes, NoneOf DEF Removes, Reaches, Follows, GoroutineRests, Early, Present
  <2>5. CASE StoreJob(g)
    BY <2>5, <1>2, StoreJobDoes, NoneOf DEF Reaches, GoroutineRests, Early, Writes, Present
  <2>6. CASE MarkGenerated(g)
    BY <2>6, <1>2, MarkGeneratedDoes, NoneOf DEF Reaches, GoroutineRests, Early, Writes, Present
  <2>7. CASE CopyOutput(g)
    BY <2>7, <1>2, CopyOutputDoes, NoneOf DEF Reaches, GoroutineRests, Early, Present
  <2>8. CASE UploadOutput(g)
    BY <2>8, <1>2, UploadOutputDoes, NoneOf DEF Reaches, GoroutineRests, Early, Present
  <2>9. CASE MarkCrashed(g)
    BY <2>9, <1>2, MarkCrashedDoes, NoneOf DEF Early
  <2> QED BY <2>1, <2>2, <2>3, <2>4, <2>5, <2>6, <2>7, <2>8, <2>9
<1>4. ASSUME NEW h \in Gen, gen'[h].s \in Session PROVE GoroutineRests(h, gen[h].s)'
  <2>1. CASE h = g
    BY <2>1, <1>1, <1>3, <1>4, NoneOf
  <2>2. CASE h # g
    <3>1. gen'[h] = gen[h] /\ gen[h].s # s /\ GoroutineRests(h, gen[h].s)
      BY <2>2, <1>1, <1>2, <1>4 DEF RunFrame, OthersStay, Rests, WorkRests
    <3> QED BY <3>1, <1>1, <1>4 DEF RunFrame, GoroutineRests, Present
  <2> QED BY <2>1, <2>2
<1>5. ASSUME NEW q \in Request, req[q].op = "generate"
      PROVE  req'[q] = req[q] /\ Present(req[q].s)' = Present(req[q].s)
  <2>1. req[q].s \in Session
    BY <1>5, NoneOf DEF KnownInv, Known
  <2>2. req[q].s # s
    BY <1>2, <2>1 DEF Follow, OneWorker
  <2> QED BY <1>1, <2>1, <2>2 DEF RunFrame, Present
<1>6. WorkRests'
  BY <1>1, <1>4, <1>5 DEF RunFrame, Rests, WorkRests
<1>7. ASSUME NEW i \in sw.todo, NEW h \in Gen, gen'[h].s = i.s PROVE SweepRests(i, h)'
  <2>1. i.s \in Session
    BY SweeperKnown
  <2>2. CASE h = g
    <3>1. gen[g].s = i.s /\ SweepRests(i, g) /\ gen'[g].pc \notin Early
      BY <1>1, <1>3, <1>7, <2>1, <2>2, NoneOf DEF Rests, ListRests, SweepRests
    <3> QED BY <2>2, <3>1 DEF SweepRests, Early
  <2>3. CASE h # g
    <3>1. gen'[h] = gen[h] /\ gen[h].s # s /\ SweepRests(i, h)
      BY <1>1, <1>2, <1>7, <2>3 DEF RunFrame, OthersStay, Rests, ListRests
    <3> QED BY <1>1, <1>7, <2>1, <3>1 DEF RunFrame, SweepRests
  <2> QED BY <2>2, <2>3
<1>8. ASSUME NEW h \in Gen, sw.cur # NoItem, gen'[h].s = sw.cur.s PROVE gen'[h].pc \notin Early
  <2>1. sw.cur.s \in Session
    BY <1>8, SweeperKnown
  <2>2. gen[h].s = sw.cur.s /\ gen[h].pc \notin Early
    BY <1>1, <1>8, <2>1, NoneOf DEF RunFrame, OthersStay, Rests, ListRests
  <2> QED BY <1>1, <1>3, <2>2 DEF RunFrame, OthersStay, Early
<1>9. ListRests'
  BY <1>1, <1>7, <1>8 DEF RunFrame, ListRests
<1>10. BoxRests'
  <2> SUFFICES ASSUME NEW t \in Session, box'[t] # NoBox
               PROVE  \E h \in Gen : gen'[h].s = t /\ gen'[h].pc \in {"start", "wait"}
    BY <1>1 DEF RunFrame, BoxRests
  <2>1. CASE t = s
    BY <1>1, <1>3, <2>1
  <2>2. CASE t # s
    <3>1. box[t] # NoBox
      BY <1>1, <2>2 DEF RunFrame
    <3>2. PICK h \in Gen : gen[h].s = t /\ gen[h].pc \in {"start", "wait"}
      BY <1>1, <3>1 DEF RunFrame, Rests, BoxRests
    <3> QED BY <1>1, <2>2, <3>2 DEF RunFrame, OthersStay
  <2> QED BY <2>1, <2>2
<1> QED BY <1>6, <1>9, <1>10 DEF Rests

LEMMA RestsAsk ==
    ASSUME KnownInv, Follow, Rests, NEW q \in Request,
           \/ Enqueue(q) \/ Refuse(q) \/ RemoveVolume(q) \/ DeleteRow(q)
           \/ \E s \in Session : BeginGenerate(q, s) \/ BeginDelete(q, s)
    PROVE  Rests'
<1>1. AskFrame(q)
  BY EnqueueDoes, RefuseDoes, RemoveVolumeDoes, DeleteRowDoes, BeginGenerateDoes, BeginDeleteDoes
<1>2. ASSUME UNCHANGED <<rows, gen>>,
             req'[q].op = "generate" => (req'[q].new <=> ~Present(req'[q].s))
      PROVE  Rests'
  BY <1>1, <1>2 DEF AskFrame, Rests, WorkRests, ListRests, BoxRests, GoroutineRests, SweepRests, Present
<1>3. ASSUME NEW s \in Session, BeginGenerate(q, s) \/ BeginDelete(q, s)
      PROVE  Rests'
  BY <1>2, <1>3, BeginGenerateDoes, BeginDeleteDoes
<1>4. CASE Refuse(q) \/ RemoveVolume(q)
  BY <1>2, <1>4, RefuseDoes, RemoveVolumeDoes, NoneOf
<1>5. CASE DeleteRow(q)
  <2>1. /\ UNCHANGED gen /\ req'[q] = NoRequest /\ req[q].s \in Session
        /\ \A t \in Session : t # req[q].s => rows'[t] = rows[t]
    BY <1>5, DeleteRowDoes
  <2>2. /\ \A g \in Gen : gen[g].s # req[q].s
        /\ \A p \in Request : p # q => req[p].s # req[q].s
    BY <2>1 DEF Follow, OneWorker
  <2>3. WorkRests'
    BY <1>1, <2>1, <2>2, NoneOf
       DEF AskFrame, Rests, WorkRests, GoroutineRests, Present, KnownInv, Known
  <2> QED BY <1>1, <2>1, <2>3 DEF AskFrame, Rests, ListRests, BoxRests, SweepRests
<1>6. CASE Enqueue(q)
  <2> DEFINE s == req[q].s
  <2>1. /\ req'[q] = NoRequest /\ s \in Session /\ req[q].op = "generate"
        /\ \A t \in Session : t # s => rows'[t] = rows[t]
        /\ rows'[s].status = "pending"
    BY <1>6, EnqueueDoes DEF Rests, WorkRests
  <2>2. PICK g \in Gen :
           /\ gen[g] = NoGoroutine /\ OthersStay(g) /\ gen'[g].s = s /\ gen'[g].pc = "mark"
    BY <1>6, EnqueueDoes
  <2>3. ~SweeperOn(s) /\ (\A h \in Gen : gen[h].s # s) /\ (\A p \in Request : p # q => req[p].s # s)
    BY <2>1 DEF Follow, Fresh, OneWorker
  <2>4. ASSUME NEW h \in Gen, gen'[h].s \in Session PROVE GoroutineRests(h, gen[h].s)'
    <3>1. CASE h = g
      BY <3>1, <2>1, <2>2 DEF GoroutineRests, Present
    <3>2. CASE h # g
      <4>1. gen'[h] = gen[h] /\ gen[h].s # s /\ GoroutineRests(h, gen[h].s)
        BY <3>2, <2>2, <2>3, <2>4 DEF OthersStay, Rests, WorkRests
      <4> QED BY <4>1, <2>1, <2>4 DEF GoroutineRests, Present
    <3> QED BY <3>1, <3>2
  <2>5. ASSUME NEW p \in Request, req'[p].op = "generate"
        PROVE  req'[p].new <=> ~Present(req[p].s)'
    <3>1. p # q /\ req'[p] = req[p] /\ req[p].s \in Session
      BY <1>1, <2>1, <2>5, NoneOf DEF AskFrame, KnownInv, Known
    <3>2. rows'[req'[p].s] = rows[req[p].s]
      BY <2>1, <2>3, <3>1
    <3>3. req[p].new <=> ~Present(req[p].s)
      BY <2>5, <3>1 DEF Rests, WorkRests
    <3> QED BY <3>1, <3>2, <3>3 DEF Present
  <2>6. WorkRests'
    <3>1. \A h \in Gen : gen'[h].s \in Session => GoroutineRests(h, gen[h].s)'
      BY <2>4
    <3>2. \A p \in Request : req'[p].op = "generate" => (req'[p].new <=> ~Present(req[p].s)')
      BY <2>5
    <3> QED BY <3>1, <3>2 DEF WorkRests
  <2>7. ListRests'
    BY <1>1, <2>2, <2>3 DEF AskFrame, OthersStay, Rests, ListRests, SweepRests, SweeperOn
  <2>8. BoxRests'
    <3> SUFFICES ASSUME NEW t \in Session, box[t] # NoBox
                 PROVE  \E h \in Gen : gen'[h].s = t /\ gen'[h].pc \in {"start", "wait"}
      BY <1>1 DEF AskFrame, BoxRests
    <3>1. PICK h \in Gen : gen[h].s = t /\ gen[h].pc \in {"start", "wait"}
      BY <1>1 DEF AskFrame, Rests, BoxRests
    <3> QED BY <2>2, <3>1, NoneOf DEF OthersStay
  <2> QED BY <2>6, <2>7, <2>8 DEF Rests
<1> QED BY <1>3, <1>4, <1>5, <1>6

LEMMA RestsSweep ==
    ASSUME KnownInv, env = {}, Follow, Rests,
           \/ \E due \in SUBSET Session : ListExpired(due)
           \/ \E i \in sw.todo : Inspect(i)
           \/ SweepCrash
    PROVE  Rests'
<1>1. SweepFrame
  BY ListExpiredDoes, InspectDoes, SweepCrashDoes
<1>2. ASSUME UNCHANGED rows PROVE WorkRests' /\ BoxRests'
  BY <1>1, <1>2 DEF SweepFrame, Rests, WorkRests, GoroutineRests, Present, BoxRests
<1>3. ASSUME NEW due \in SUBSET Session, ListExpired(due) PROVE Rests'
  <2>1. /\ UNCHANGED rows /\ sw'.cur = NoItem
        /\ \A i \in sw'.todo : i.s \in Session /\ i.job = rows[i.s].job /\ Due(i.s)
    BY <1>3, ListExpiredDoes
  <2>2. ASSUME NEW i \in sw'.todo, NEW g \in Gen, gen[g].s = i.s PROVE SweepRests(i, g)
    <3>1. rows[i.s].status = "generating" /\ box[i.s].st = "running" /\ i.s \in Session
      BY <2>1, <2>2 DEF Due, GoroutineOn
    <3>2. box[i.s] # NoBox
      BY <3>1, NoneOf
    <3>3. PICK h \in Gen : gen[h].s = i.s /\ gen[h].pc \in {"start", "wait"}
      BY <1>1, <3>1, <3>2 DEF SweepFrame, Rests, BoxRests
    <3>4. h = g /\ Follows(g, i.s)
      BY <2>2, <3>1, <3>3 DEF Follow, OneWorker, BoxFollows
    <3> QED BY <2>1, <3>1, <3>3, <3>4 DEF Follows, SweepRests
  <2>3. ListRests'
    BY <1>1, <2>1, <2>2 DEF SweepFrame, ListRests, SweepRests
  <2> QED BY <1>2, <2>1, <2>3 DEF Rests
<1>4. ASSUME NEW i \in sw.todo, Inspect(i) PROVE Rests'
  <2>1. /\ UNCHANGED rows /\ sw'.todo \subseteq sw.todo
        /\ sw'.cur = NoItem \/ (sw'.cur = i /\ ~SeesRunning(i))
    BY <1>4, InspectDoes
  <2>2. ASSUME NEW g \in Gen, ~SeesRunning(i), gen[g].s = i.s PROVE gen[g].pc \notin Early
    BY <2>2 DEF Rests, ListRests, SweepRests, SeesRunning, Early
  <2>3. ListRests'
    BY <1>1, <2>1, <2>2 DEF SweepFrame, Rests, ListRests, SweepRests
  <2> QED BY <1>2, <2>1, <2>3 DEF Rests
<1>5. CASE SweepCrash
  <2>1. /\ sw.cur # NoItem /\ sw.cur.s \in Session /\ sw'.todo = sw.todo /\ sw'.cur = NoItem
        /\ \A t \in Session : t # sw.cur.s => rows'[t] = rows[t]
        /\ rows'[sw.cur.s].status # "absent" <=> rows[sw.cur.s].status # "absent"
    BY <1>5, SweepCrashDoes DEF Writes, Present
  <2>2. \A t \in Session : Present(t)' <=> Present(t)
    <3> TAKE t \in Session
    <3> QED BY <2>1 DEF Present
  <2>3. ASSUME NEW g \in Gen, gen[g].s \in Session PROVE GoroutineRests(g, gen[g].s)'
    <3>1. gen'[g] = gen[g] /\ GoroutineRests(g, gen[g].s)
      BY <1>1, <2>3 DEF SweepFrame, Rests, WorkRests
    <3>2. gen[g].s = sw.cur.s => gen[g].pc \notin Early
      BY <2>1 DEF Rests, ListRests
    <3> QED BY <2>1, <2>2, <2>3, <3>1, <3>2 DEF GoroutineRests, Early
  <2>4. WorkRests'
    BY <1>1, <2>2, <2>3, NoneOf DEF SweepFrame, Rests, WorkRests, KnownInv, Known
  <2>5. ListRests' /\ BoxRests'
    BY <1>1, <2>1 DEF SweepFrame, Rests, ListRests, SweepRests, BoxRests
  <2> QED BY <2>4, <2>5 DEF Rests
<1> QED BY <1>3, <1>4, <1>5

LEMMA RestsAround ==
    ASSUME KnownInv, BoxKnown, Quiet, env = {}, Follow, Rests,
           \/ Boot \/ Crash \/ (\E s \in Session : Play(s) \/ Relaunch(s) \/ BoxEnds(s)) \/ UNCHANGED vars
    PROVE  Rests'
<1>1. CASE Boot
  <2>1. /\ UNCHANGED <<gen, req, sw>> /\ sw.todo = {} /\ sw.cur = NoItem
        /\ \A g \in Gen : gen[g] = NoGoroutine
        /\ \A q \in Request : req[q] = NoRequest
    BY <1>1, NoneOf DEF Boot, BootRemove, BootCrash, Quiet
  <2>2. WorkRests' /\ ListRests'
    BY <2>1, NoneOf DEF WorkRests, ListRests
  <2>3. BootRemove => BoxRests'
    BY DEF BootRemove, Rests, BoxRests, Interrupted
  <2>4. BootCrash => BoxRests'
    BY DEF BootCrash, Rests, BoxRests
  <2> QED BY <1>1, <2>2, <2>3, <2>4 DEF Boot, Rests
<1>2. CASE Crash
  <2>1. /\ UNCHANGED <<rows, box>> /\ sw'.todo = {} /\ sw'.cur = NoItem /\ phase' = "boot"
        /\ \A g \in Gen : gen'[g] = NoGoroutine
        /\ \A q \in Request : req'[q] = NoRequest
    BY <1>2, NoneOf DEF Crash, disk
  <2>2. WorkRests' /\ ListRests'
    BY <2>1, NoneOf DEF WorkRests, ListRests
  <2>3. BoxRests'
    BY <2>1 DEF Rests, BoxRests, WorkRests, GoroutineRests
  <2> QED BY <2>2, <2>3 DEF Rests
<1>3. ASSUME NEW s \in Session, Play(s) \/ Relaunch(s) PROVE Rests'
  <2>1. /\ UNCHANGED <<box, gen, req, sw, phase>> /\ phase = "serve" /\ ~GoroutineOn(s)
        /\ Present(s)' = Present(s)
        /\ \A t \in Session : t # s => rows'[t] = rows[t]
    BY <1>3, PlayDoes, RelaunchDoes DEF Playable, Busy, Present
  <2>2. \A t \in Session : Present(t)' = Present(t)
    BY <2>1 DEF Present
  <2>3. WorkRests'
    BY <2>1, <2>2, NoneOf DEF Rests, WorkRests, GoroutineRests, GoroutineOn, KnownInv, Known
  <2>4. ListRests' /\ BoxRests'
    BY <2>1 DEF Rests, ListRests, SweepRests, BoxRests
  <2> QED BY <2>3, <2>4 DEF Rests
<1>4. ASSUME NEW s \in Session, BoxEnds(s) PROVE Rests'
  <2>1. /\ UNCHANGED <<rows, gen, req, sw, phase>> /\ box[s] # NoBox /\ ~SweeperOn(s)
        /\ \A t \in Session : t # s => box'[t] = box[t]
    BY <1>4, BoxEndsDoes
  <2>2. WorkRests'
    BY <2>1 DEF Rests, WorkRests, GoroutineRests, Present
  <2>3. ListRests'
    BY <2>1, SweeperKnown DEF Rests, ListRests, SweepRests, SweeperOn
  <2>4. BoxRests'
    BY <2>1 DEF Rests, BoxRests
  <2> QED BY <2>2, <2>3, <2>4 DEF Rests
<1>5. CASE UNCHANGED vars
  BY <1>5 DEF vars, disk, Rests, WorkRests, ListRests, BoxRests, GoroutineRests, SweepRests, Present
<1> QED BY <1>1, <1>2, <1>3, <1>4, <1>5

------------------------------------------------------------------------------
(* The whole: what holds whatever meets, while no two pieces of work meet on  *)
(* a session, until a crash besides, and when nothing meets at all.           *)
GenerationInv ==
    /\ KnownInv /\ Outputs /\ Quiet
    /\ Sole => Follow
    /\ Sole => restarted \/ Archived
    /\ env = {} => Rests

LEMMA GenerationInit == Init => GenerationInv
<1> SUFFICES ASSUME Init PROVE GenerationInv
  OBVIOUS
<1>1. /\ \A s \in Session : rows[s] = NoRow /\ box[s] = NoBox
      /\ \A g \in Gen : gen[g] = NoGoroutine
      /\ \A q \in Request : req[q] = NoRequest
      /\ sw.todo = {} /\ sw.cur = NoItem /\ phase = "serve"
      /\ NoRow.status = "absent"
  BY NoneOf DEF Init, NoRow
<1>2. KnownInv
  BY <1>1, TypeInit DEF KnownInv, Known
<1>3. Outputs
  BY <1>1, NoneOf DEF Outputs, BoxKnown, WonHasOutput, DeleteAlone, RowHasOutput, NoRow
<1>4. Quiet
  BY <1>1 DEF Quiet
<1>5. Follow
  <2>1. OneWorker /\ Fresh /\ BoxFollows
    BY <1>1, NoneOf DEF OneWorker, Fresh, BoxFollows
  <2>2. JobAfterBox /\ ListedJobs
    BY <1>1 DEF JobAfterBox, ListedJobs
  <2> QED BY <2>1, <2>2 DEF Follow
<1>6. Archived
  BY <1>1, NoneOf DEF Archived
<1>7. Rests
  BY <1>1, NoneOf DEF Rests, WorkRests, ListRests, BoxRests
<1> QED BY <1>2, <1>3, <1>4, <1>5, <1>6, <1>7 DEF GenerationInv

(* env is chosen once, and a crash is not forgotten.                          *)
LEMMA Chosen ==
    ASSUME KnownInv, BoxKnown, [Next]_vars
    PROVE  env' = env /\ (restarted => restarted')
<1>1. ASSUME NEW q \in Request,
             \/ Enqueue(q) \/ Refuse(q) \/ RemoveVolume(q) \/ DeleteRow(q)
             \/ \E s \in Session : BeginGenerate(q, s) \/ BeginDelete(q, s)
      PROVE  UNCHANGED <<env, restarted>>
  BY <1>1, EnqueueDoes, RefuseDoes, RemoveVolumeDoes, DeleteRowDoes, BeginGenerateDoes, BeginDeleteDoes
     DEF AskFrame
<1>2. ASSUME NEW g \in Gen,
             \/ MarkGenerating(g) \/ CreateBox(g) \/ StartBox(g) \/ WaitBox(g) \/ StoreJob(g)
             \/ MarkGenerated(g) \/ CopyOutput(g) \/ UploadOutput(g) \/ MarkCrashed(g)
      PROVE  UNCHANGED <<env, restarted>>
  BY <1>2, RunDoes DEF RunFrame
<1>3. Sweep => UNCHANGED <<env, restarted>>
  BY ListExpiredDoes, InspectDoes, SweepCrashDoes DEF Sweep, SweepFrame
<1>4. Crash => env' = env /\ restarted'
  BY DEF Crash
<1>5. Boot => UNCHANGED <<env, restarted>>
  BY DEF Boot, BootRemove, BootCrash
<1>6. ASSUME NEW s \in Session, Play(s) \/ Relaunch(s) \/ BoxEnds(s) PROVE UNCHANGED <<env, restarted>>
  BY <1>6, PlayDoes, RelaunchDoes, BoxEndsDoes
<1>7. UNCHANGED vars => UNCHANGED <<env, restarted>>
  BY DEF vars
<1> QED BY <1>1, <1>2, <1>3, <1>4, <1>5, <1>6, <1>7 DEF Next, Ask, Run

LEMMA GenerationStep == GenerationInv /\ [Next]_vars => GenerationInv'
<1> SUFFICES ASSUME GenerationInv, [Next]_vars PROVE GenerationInv'
  OBVIOUS
<1>1. /\ KnownInv /\ Outputs /\ BoxKnown /\ WonHasOutput /\ Quiet
      /\ Sole => Follow
      /\ Sole => restarted \/ Archived
      /\ env = {} => Sole /\ Rests
  BY DEF GenerationInv, Outputs, Sole
<1>2. env' = env /\ (restarted => restarted') /\ (Sole' <=> Sole)
  BY <1>1, Chosen DEF Sole
<1>3. Quiet'
  BY <1>1, QuietStep
<1>4. \/ Run \/ Ask \/ Sweep
      \/ Boot \/ Crash \/ (\E s \in Session : Play(s) \/ Relaunch(s) \/ BoxEnds(s)) \/ UNCHANGED vars
  BY DEF Next
<1>5. KnownInv' /\ Outputs' /\ (Sole => Follow') /\ (env = {} => Rests')
  <2>1. CASE Run
    <3>1. PICK g \in Gen :
             \/ MarkGenerating(g) \/ CreateBox(g) \/ StartBox(g) \/ WaitBox(g) \/ StoreJob(g)
             \/ MarkGenerated(g) \/ CopyOutput(g) \/ UploadOutput(g) \/ MarkCrashed(g)
      BY <2>1 DEF Run
    <3>2. KnownInv'
      BY <1>1, <3>1, RunKnown
    <3> QED BY <1>1, <3>1, <3>2, OutputRun, FollowRun, RestsRun
  <2>2. CASE Ask
    <3>1. PICK q \in Request :
             \/ Enqueue(q) \/ Refuse(q) \/ RemoveVolume(q) \/ DeleteRow(q)
             \/ \E s \in Session : BeginGenerate(q, s) \/ BeginDelete(q, s)
      BY <2>2 DEF Ask
    <3>2. KnownInv'
      BY <1>1, <3>1, AskKnown
    <3> QED BY <1>1, <3>1, <3>2, OutputAsk, FollowAsk, RestsAsk
  <2>3. CASE Sweep
    <3>1. \/ \E due \in SUBSET Session : ListExpired(due)
          \/ \E i \in sw.todo : Inspect(i)
          \/ SweepCrash
      BY <2>3 DEF Sweep
    <3> QED BY <1>1, <3>1, SweepKnown, OutputSweep, FollowSweep, RestsSweep
  <2>4. CASE Boot \/ Crash \/ (\E s \in Session : Play(s) \/ Relaunch(s) \/ BoxEnds(s)) \/ UNCHANGED vars
    <3>1. KnownInv'
      BY <1>1, <2>4, AroundKnown
    <3> QED BY <1>1, <2>4, <3>1, OutputAround, FollowAround, RestsAround
  <2> QED BY <1>4, <2>1, <2>2, <2>3, <2>4
<1>6. Sole => restarted' \/ Archived'
  <2>1. CASE Run
    <3>1. PICK g \in Gen :
             \/ MarkGenerating(g) \/ CreateBox(g) \/ StartBox(g) \/ WaitBox(g) \/ StoreJob(g)
             \/ MarkGenerated(g) \/ CopyOutput(g) \/ UploadOutput(g) \/ MarkCrashed(g)
      BY <2>1 DEF Run
    <3> QED BY <1>1, <1>2, <3>1, ArchivedRun
  <2>2. CASE ~Run
    BY <1>1, <1>2, <2>2, ArchivedElse
  <2> QED BY <2>1, <2>2
<1> QED BY <1>2, <1>3, <1>5, <1>6 DEF GenerationInv

LEMMA GenerationHolds == Spec => []GenerationInv
<1> QED BY GenerationInit, GenerationStep, PTL DEF Spec

(* Every variable stays in the range the code gives it.                        *)
THEOREM GenerationTypes == Spec => []TypeOK
<1>1. GenerationInv => TypeOK
  BY DEF GenerationInv, KnownInv
<1> QED BY <1>1, GenerationHolds, PTL

(* However many generations, sweeps, relaunches and restarts meet on a session, *)
(* one that says generated has, in its volume, the output its row names         *)
(* (session.go:284, 499), in every execution in which no deletion interferes,    *)
(* unless Docker answered the wait for its generator by an error, which the      *)
(* code takes for an end without one (client.go:458-469).                        *)
THEOREM GenerationHasOutput == Spec => []GeneratedHasOutput
<1>1. GenerationInv => GeneratedHasOutput
  BY DEF GenerationInv, Outputs, RowHasOutput, GeneratedHasOutput
<1> QED BY <1>1, GenerationHolds, PTL

(* Until the process crashes, a session that says generated since a generation  *)
(* ended, not since RestartSession or RelaunchFromSave wrote it back, and on     *)
(* which no goroutine works has its output in the stored archive                 *)
(* (session.go:289-294), whatever launches, stops and relaunches met it, when    *)
(* its generations and its deletion do not overlap and no wait was misread.      *)
THEOREM GenerationArchived == Spec => []ArchivedUnlessRestarted
<1>1. GenerationInv => ArchivedUnlessRestarted
  BY DEF GenerationInv, ArchivedUnlessRestarted, Archived, Sole
<1> QED BY <1>1, GenerationHolds, PTL

(* When nothing meets and removals are obeyed, no generation container is left  *)
(* beside a session without a goroutine, whatever other call of Docker failed   *)
(* and whenever the process crashed (service.go:437, client.go:959).                            *)
THEOREM GenerationNothingLeft == Spec => []NothingLeftAtRest
<1>1. GenerationInv => NothingLeftAtRest
  BY DEF GenerationInv, NothingLeftAtRest, Rests, BoxRests, GoroutineOn
<1> QED BY <1>1, GenerationHolds, PTL

(* A sweep that can look condemns no generation whose container runs          *)
(* (sweeper.go:49-63), unless generations or deletions of the session overlap: *)
(* a job id it listed is one whose container is gone.                          *)
THEOREM GenerationSparesLive == Spec => SweeperSparesLive
<1> DEFINE Spares ==
      \A s \in Session :
          sw.cur = NoItem /\ sw'.cur.s = s /\ env \cap {"blind", "twice", "delete"} = {}
              => box[s].st # "running"
<1>1. GenerationInv /\ [Next]_vars => Spares
  <2> SUFFICES ASSUME GenerationInv, [Next]_vars, NEW s \in Session,
                      sw.cur = NoItem, sw'.cur.s = s,
                      env \cap {"blind", "twice", "delete"} = {}
               PROVE  box[s].st # "running"
    OBVIOUS
  <2>1. KnownInv /\ BoxKnown /\ Follow /\ "blind" \notin env
    BY DEF GenerationInv, Outputs, Sole
  <2>2. sw'.cur # NoItem
    BY NoneOf
  <2>3. PICK i \in sw.todo : Inspect(i)
    <3>1. ~Ask /\ ~Run
      <4>1. sw' # sw
        BY <2>2
      <4>2. ASSUME NEW q \in Request,
                   \/ Enqueue(q) \/ Refuse(q) \/ RemoveVolume(q) \/ DeleteRow(q)
                   \/ \E t \in Session : BeginGenerate(q, t) \/ BeginDelete(q, t)
            PROVE  FALSE
        BY <2>1, <4>1, <4>2, EnqueueDoes, RefuseDoes, RemoveVolumeDoes, DeleteRowDoes,
           BeginGenerateDoes, BeginDeleteDoes DEF AskFrame
      <4>3. ASSUME NEW g \in Gen,
                   \/ MarkGenerating(g) \/ CreateBox(g) \/ StartBox(g) \/ WaitBox(g) \/ StoreJob(g)
                   \/ MarkGenerated(g) \/ CopyOutput(g) \/ UploadOutput(g) \/ MarkCrashed(g)
            PROVE  FALSE
        BY <2>1, <4>1, <4>3, RunDoes DEF RunFrame
      <4> QED BY <4>2, <4>3 DEF Ask, Run
    <3>2. ~Boot /\ ~Crash /\ (\A t \in Session : ~Play(t) /\ ~Relaunch(t) /\ ~BoxEnds(t)) /\ ~UNCHANGED vars
      BY <2>1, <2>2, NoneOf, PlayDoes, RelaunchDoes, BoxEndsDoes DEF Boot, BootRemove, BootCrash, Crash, vars
    <3>3. ~SweepCrash /\ \A due \in SUBSET Session : ~ListExpired(due)
      BY <2>1, <2>2, SweepCrashDoes, ListExpiredDoes
    <3> QED BY <3>1, <3>2, <3>3 DEF Next, Sweep
  <2>4. i.s = s /\ ~SeesRunning(i)
    BY <2>1, <2>2, <2>3, InspectDoes
  <2>5. i.job = NoGen \/ box[s] = NoBox \/ box[s].g = i.job
    BY <2>1, <2>4 DEF Follow, ListedJobs
  <2> QED BY <2>4, <2>5, NoneOf DEF SeesRunning
<1>2. GenerationInv /\ [Next]_vars => [Spares]_vars
  BY <1>1
<1> QED BY <1>2, GenerationHolds, PTL DEF Spec, SweeperSparesLive
================================================================================
