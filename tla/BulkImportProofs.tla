-------------------------- MODULE BulkImportProofs --------------------------
(***************************************************************************)
(* Proofs about BulkImport, for every number of folders, scans and runs of  *)
(* the script.  RunInv says how far a run has got: what it has looked at    *)
(* comes before what it has not, and has a matter.                          *)
(***************************************************************************)
EXTENDS BulkImport, TLAPS

USE FoldersAssumption, NamesAssumption, NoneAssumption

(* No run has started and there are no matters. *)
LEMMA InvInit == Init => Inv
<1> SUFFICES ASSUME Init
             PROVE  Inv
    OBVIOUS
<1>1. TypeOK
    BY DEF Init, TypeOK
<1>2. RunInv /\ CreatedInv
    BY DEF Init, RunInv, CreatedInv, Progress, Passed
<1>3. LawyerInv /\ CreatedOnce /\ FirstFolderWins
    BY DEF Init, LawyerInv, CreatedOnce, FirstFolderWins
<1> QED  BY <1>1, <1>2, <1>3 DEF Inv

(* Every step of a run, of the connector, and of the people at the file     *)
(* server preserves the invariant.                                          *)
LEMMA InvStep == Inv /\ [Next]_vars => Inv'
<1> SUFFICES ASSUME Inv, [Next]_vars
             PROVE  Inv'
    OBVIOUS
<1> USE DEF Inv
<1>1. ASSUME NEW f \in Folders, CreateFolder(f)
      PROVE  Inv'
  <2>1. TypeOK'
      BY <1>1 DEF CreateFolder, script, TypeOK
  <2>2. (RunInv /\ LawyerInv /\ CreatedInv /\ CreatedOnce /\ FirstFolderWins)'
      BY <1>1 DEF CreateFolder, script, RunInv, LawyerInv, CreatedInv,
         CreatedOnce, FirstFolderWins, Progress, Passed, UserMaps
  <2> QED  BY <2>1, <2>2
<1>2. ASSUME NEW f \in Folders, RemoveFolder(f)
      PROVE  Inv'
  <2>1. TypeOK'
      BY <1>2 DEF RemoveFolder, script, TypeOK
  <2>2. (RunInv /\ LawyerInv /\ CreatedInv /\ CreatedOnce /\ FirstFolderWins)'
      BY <1>2 DEF RemoveFolder, script, RunInv, LawyerInv, CreatedInv,
         CreatedOnce, FirstFolderWins, Progress, Passed, UserMaps
  <2> QED  BY <2>1, <2>2
<1>3. ASSUME NEW s \in Scans, ScanTopLevel(s)
      PROVE  Inv'
  <2>1. TypeOK'
      BY <1>3 DEF ScanTopLevel, script, TypeOK
  <2>2. RunInv'
      BY <1>3 DEF ScanTopLevel, script, RunInv, TypeOK, Progress, Passed
  <2>3. FirstFolderWins'
      BY <1>3 DEF ScanTopLevel, script, FirstFolderWins, TypeOK
  <2>4. (LawyerInv /\ CreatedInv /\ CreatedOnce)'
      BY <1>3 DEF ScanTopLevel, script, LawyerInv, CreatedInv, CreatedOnce,
         UserMaps
  <2> QED  BY <2>1, <2>2, <2>3, <2>4
<1>4. ASSUME NEW r \in Runs, NEW s \in Scans, Begin(r, s)
      PROVE  Inv'
  <2>1. TypeOK'
    <3>1. CASE manifest[s] = {}
        BY <1>4, <3>1 DEF Begin, TypeOK
    <3>2. CASE manifest[s] # {}
      <4>1. PICK g \in UserMaps : known' = [known EXCEPT ![r] = g]
          BY <1>4, <3>2 DEF Begin
      <4>2. known' \in [Runs -> [Initials -> Users \union {None}]]
          BY <4>1 DEF TypeOK, UserMaps
      <4>3. /\ pc' = [pc EXCEPT ![r] = "importing"]
            /\ job' = [job EXCEPT ![r] = s]
            /\ todo' = [todo EXCEPT ![r] = manifest[s]]
            /\ UNCHANGED <<folders, manifest, created, skipped, matters>>
          BY <1>4, <3>2 DEF Begin
      <4> QED  BY <4>2, <4>3 DEF TypeOK
    <3> QED  BY <3>1, <3>2
  <2>2. RunInv'
      BY <1>4 DEF Begin, RunInv, TypeOK, Progress, Passed
  <2>3. LawyerInv'
    <3>1. CASE manifest[s] = {}
      <4>1. pc' = [pc EXCEPT ![r] = "exited"] /\ UNCHANGED <<known, matters>>
          BY <1>4, <3>1 DEF Begin
      <4>2. UserMaps' = UserMaps
          BY DEF UserMaps
      <4>3. \A q \in Runs : pc'[q] = "importing" => pc[q] = "importing"
          BY <4>1 DEF TypeOK
      <4> QED  BY <4>1, <4>2, <4>3 DEF LawyerInv
    <3>2. CASE manifest[s] # {}
      <4>1. PICK g \in UserMaps : known' = [known EXCEPT ![r] = g]
          BY <1>4, <3>2 DEF Begin
      <4>2. known'[r] = g /\ \A q \in Runs : q # r => known'[q] = known[q] /\ pc'[q] = pc[q]
          BY <1>4, <4>1 DEF Begin, TypeOK
      <4>3. UserMaps' = UserMaps /\ UNCHANGED matters
          BY <1>4 DEF Begin, UserMaps
      <4> QED  BY <4>1, <4>2, <4>3 DEF LawyerInv
    <3> QED  BY <3>1, <3>2
  <2>4. (CreatedInv /\ CreatedOnce /\ FirstFolderWins)'
      BY <1>4 DEF Begin, CreatedInv, CreatedOnce, FirstFolderWins
  <2> QED  BY <2>1, <2>2, <2>3, <2>4
<1>5. ASSUME NEW r \in Runs, NEW f \in Folders, Unparsed(r, f)
      PROVE  Inv'
  <2>1. TypeOK'
      BY <1>5 DEF Unparsed, IsNext, Advance, TypeOK
  <2>2. RunInv'
      BY <1>5 DEF Unparsed, IsNext, Advance, RunInv, TypeOK, Progress, Passed
  <2>3. LawyerInv'
      BY <1>5 DEF Unparsed, IsNext, Advance, LawyerInv, TypeOK, UserMaps
  <2>4. (CreatedInv /\ CreatedOnce /\ FirstFolderWins)'
      BY <1>5 DEF Unparsed, IsNext, Advance, CreatedInv, CreatedOnce,
         FirstFolderWins
  <2> QED  BY <2>1, <2>2, <2>3, <2>4
<1>6. ASSUME NEW r \in Runs, NEW f \in Folders, Import(r, f)
      PROVE  Inv'
  <2> DEFINE n   == NumberOf[f]
             row == [folder |-> f, lawyer |-> Lawyer(r, f)]
  <2>1. /\ n \in Numbers /\ n # None /\ pc[r] = "importing" /\ f \in todo[r]
        /\ \A g \in todo[r] : f <= g
        /\ row.folder = f
        /\ row.lawyer = IF InitialsOf[f] = None THEN None ELSE known[r][InitialsOf[f]]
        /\ row \in Rows
      BY <1>6 DEF Import, IsNext, Lawyer, Rows, TypeOK
  <2>2. /\ job[r] \in Scans /\ f \in manifest[job[r]]
        /\ f \notin Passed(r)
      BY <2>1 DEF RunInv, Progress, TypeOK, Passed
  <2>3. /\ matters' = IF matters[n] = None THEN [matters EXCEPT ![n] = row] ELSE matters
        /\ todo' = [todo EXCEPT ![r] = @ \ {f}]
        /\ created' = IF matters[n] = None THEN [created EXCEPT ![r] = @ \union {f}] ELSE created
        /\ skipped' = IF matters[n] = None THEN skipped ELSE [skipped EXCEPT ![r] = @ \union {f}]
        /\ UNCHANGED <<manifest, pc, job, known, folders>>
      BY <1>6 DEF Import, Advance, InsertIfNew
  <2> HIDE DEF row
  <2>4. /\ todo'[r] = todo[r] \ {f}
        /\ \A q \in Runs : q # r => todo'[q] = todo[q]
        /\ \A q \in Runs : q # r \/ matters[n] # None => created'[q] = created[q]
        /\ matters[n] = None => created'[r] = created[r] \union {f}
        /\ \A q \in Runs : q # r \/ matters[n] = None => skipped'[q] = skipped[q]
        /\ matters[n] # None => skipped'[r] = skipped[r] \union {f}
        /\ \A m \in Numbers : matters'[m] = IF m = n /\ matters[n] = None THEN row ELSE matters[m]
      BY <2>1, <2>3 DEF TypeOK
  <2>5. row # None
      BY <2>1 DEF Rows
  <2>6. TypeOK'
    <3>1. matters' \in [Numbers -> Rows \union {None}]
        BY <2>1, <2>3 DEF TypeOK
    <3>2. /\ todo' \in [Runs -> SUBSET Folders]
          /\ created' \in [Runs -> SUBSET Folders]
          /\ skipped' \in [Runs -> SUBSET Folders]
        BY <2>3 DEF TypeOK
    <3> QED  BY <2>3, <3>1, <3>2 DEF TypeOK
  <2>7. RunInv'
    <3> SUFFICES ASSUME NEW q \in Runs
                 PROVE  Progress(q)'
        BY DEF RunInv
    <3>1. \A g \in Folders : NumberOf[g] # None /\ matters[NumberOf[g]] # None
                             => matters'[NumberOf[g]] # None
        BY <2>4, <2>5 DEF TypeOK
    <3>2. CASE q # r
        BY <2>3, <2>4, <3>1, <3>2 DEF RunInv, Progress, Passed, TypeOK
    <3>3. CASE q = r
      <4>1. Passed(r)' = Passed(r) \union {f} /\ Passed(r) \subseteq Folders
          BY <2>2, <2>3, <2>4 DEF Passed, TypeOK
      <4>2. \A h, g \in Folders : h \in Passed(r)' /\ g \in todo'[r] => h < g
        <5> SUFFICES ASSUME NEW h \in Folders, NEW g \in Folders, h \in Passed(r)', g \in todo'[r]
                     PROVE  h < g
            OBVIOUS
        <5>1. g \in todo[r] /\ g # f
            BY <2>4
        <5>2. CASE h = f
          <6>1. f <= g
              BY <2>1, <5>1
          <6>2. f \in Nat /\ g \in Nat
              BY FoldersAssumption
          <6> QED  BY <5>1, <5>2, <6>1, <6>2
        <5>3. CASE h \in Passed(r)
            BY <5>1, <5>3 DEF RunInv, Progress
        <5> QED  BY <4>1, <5>2, <5>3
      <4>3. created'[r] \union skipped'[r] = {h \in Passed(r)' : NumberOf[h] # None}
        <5>1. created'[r] \union skipped'[r] = created[r] \union skipped[r] \union {f}
            BY <2>4
        <5>2. created[r] \union skipped[r] = {h \in Passed(r) : NumberOf[h] # None}
            BY DEF RunInv, Progress
        <5> QED  BY <2>1, <4>1, <5>1, <5>2
      <4>4. matters'[n] # None
          BY <2>1, <2>4, <2>5
      <4>5. \A h \in Passed(r)' : NumberOf[h] # None => matters'[NumberOf[h]] # None
          BY <3>1, <4>1, <4>4 DEF RunInv, Progress
      <4> QED  BY <2>1, <2>2, <2>3, <2>4, <3>3, <4>2, <4>3, <4>5 DEF RunInv, Progress, TypeOK
    <3> QED  BY <3>2, <3>3
  <2>8. LawyerInv'
    <3>1. \A q \in Runs : pc'[q] = "importing" => known'[q] \in UserMaps'
        BY <2>3 DEF LawyerInv, UserMaps
    <3>2. known[r] \in UserMaps
        BY <2>1 DEF LawyerInv
    <3>3. LET holders == IF InitialsOf[f] = None THEN {} ELSE HoldersOf[InitialsOf[f]]
          IN  IF holders = {} THEN row.lawyer = None ELSE row.lawyer \in holders
        BY <2>1, <3>2 DEF UserMaps
    <3>4. ASSUME NEW m \in Numbers, matters'[m] # None
          PROVE  LET initials == InitialsOf[matters'[m].folder]
                     holders  == IF initials = None THEN {} ELSE HoldersOf[initials]
                 IN  IF holders = {} THEN matters'[m].lawyer = None
                                     ELSE matters'[m].lawyer \in holders
      <4>1. CASE m = n /\ matters[n] = None
        <5>1. matters'[m] = row
            BY <2>1, <2>4, <4>1
        <5> QED  BY <2>1, <3>3, <5>1
      <4>2. CASE ~(m = n /\ matters[n] = None)
        <5>1. matters'[m] = matters[m]
            BY <2>4, <4>2
        <5> QED  BY <3>4, <5>1 DEF LawyerInv
      <4> QED  BY <4>1, <4>2
    <3> QED  BY <3>1, <3>4 DEF LawyerInv
  <2>9. CreatedInv'
    <3> SUFFICES ASSUME NEW q \in Runs, NEW g \in created'[q]
                 PROVE  NumberOf[g] # None /\ matters'[NumberOf[g]] # None
                        /\ matters'[NumberOf[g]].folder = g
        BY DEF CreatedInv
    <3>1. CASE g \in created[q]
      <4>1. NumberOf[g] \in Numbers /\ matters[NumberOf[g]] # None
            /\ matters[NumberOf[g]].folder = g
          BY <3>1 DEF CreatedInv, TypeOK
      <4>2. matters'[NumberOf[g]] = matters[NumberOf[g]]
          BY <2>4, <4>1
      <4> QED  BY <4>1, <4>2
    <3>2. CASE g \notin created[q]
      <4>1. q = r /\ g = f /\ matters[n] = None
          BY <2>4, <3>2
      <4>2. matters'[n] = row
          BY <2>1, <2>4, <4>1
      <4> QED  BY <2>1, <2>5, <4>1, <4>2
    <3> QED  BY <3>1, <3>2
  <2>10. CreatedOnce'
    <3>1. \A q \in Runs : matters[n] = None => f \notin created[q]
        BY DEF CreatedInv
    <3>2. f \notin created[r] /\ f \notin skipped[r]
        BY <2>2 DEF RunInv, Progress
    <3>3. \A m \in Numbers : matters'[m] # None => \E q \in Runs : matters'[m].folder \in created'[q]
      <4> TAKE m \in Numbers
      <4>1. CASE m = n /\ matters[n] = None
          BY <2>1, <2>4, <4>1
      <4>2. CASE ~(m = n /\ matters[n] = None)
          BY <2>4, <4>2 DEF CreatedOnce
      <4> QED  BY <4>1, <4>2
    <3>4. \A q, p \in Runs : q # p => created'[q] \intersect created'[p] = {}
      <4> SUFFICES ASSUME NEW q \in Runs, NEW p \in Runs, q # p, NEW g,
                          g \in created'[q], g \in created'[p]
                   PROVE  FALSE
          OBVIOUS
      <4>1. g \notin created[q] \/ g \notin created[p]
          BY DEF CreatedOnce
      <4>2. g = f /\ matters[n] = None
          BY <2>4, <4>1
      <4>3. f \notin created[q] /\ f \notin created[p]
          BY <3>1, <4>2
      <4> QED  BY <2>4, <4>2, <4>3
    <3>5. \A q \in Runs : created'[q] \intersect skipped'[q] = {}
      <4> SUFFICES ASSUME NEW q \in Runs, NEW g, g \in created'[q], g \in skipped'[q]
                   PROVE  FALSE
          OBVIOUS
      <4>1. g \notin created[q] \/ g \notin skipped[q]
          BY DEF CreatedOnce
      <4>2. q = r /\ g = f
          BY <2>4, <4>1
      <4> QED  BY <2>4, <3>2, <4>2
    <3> QED  BY <3>3, <3>4, <3>5 DEF CreatedOnce
  <2>11. FirstFolderWins'
    <3>1. ASSUME matters[n] = None, NEW g \in manifest[job[r]], NumberOf[g] = n
          PROVE  f <= g
        BY <2>1, <2>2, <3>1 DEF RunInv, Progress, Passed, TypeOK
    <3> SUFFICES ASSUME NEW m \in Numbers, matters'[m] # None
                 PROVE  \E s \in Scans :
                          /\ matters'[m].folder \in {g \in manifest[s] : NumberOf[g] = m}
                          /\ \A g \in manifest[s] : NumberOf[g] = m => matters'[m].folder <= g
        BY <2>3 DEF FirstFolderWins
    <3>2. CASE m = n /\ matters[n] = None
        BY <2>1, <2>2, <2>4, <3>1, <3>2
    <3>3. CASE ~(m = n /\ matters[n] = None)
        BY <2>4, <3>3 DEF FirstFolderWins
    <3> QED  BY <3>2, <3>3
  <2> QED  BY <2>6, <2>7, <2>8, <2>9, <2>10, <2>11
<1>7. ASSUME NEW r \in Runs, Finish(r)
      PROVE  Inv'
  <2>1. TypeOK'
      BY <1>7 DEF Finish, TypeOK
  <2>2. RunInv'
      BY <1>7 DEF Finish, RunInv, TypeOK, Progress, Passed
  <2>3. LawyerInv'
      BY <1>7 DEF Finish, LawyerInv, TypeOK, UserMaps
  <2>4. (CreatedInv /\ CreatedOnce /\ FirstFolderWins)'
      BY <1>7 DEF Finish, CreatedInv, CreatedOnce, FirstFolderWins
  <2> QED  BY <2>1, <2>2, <2>3, <2>4
<1>8. ASSUME NEW r \in Runs, Abort(r)
      PROVE  Inv'
  <2>1. TypeOK'
      BY <1>8 DEF Abort, TypeOK
  <2>2. RunInv'
      BY <1>8 DEF Abort, RunInv, TypeOK, Progress, Passed
  <2>3. LawyerInv'
      BY <1>8 DEF Abort, LawyerInv, TypeOK, UserMaps
  <2>4. (CreatedInv /\ CreatedOnce /\ FirstFolderWins)'
      BY <1>8 DEF Abort, CreatedInv, CreatedOnce, FirstFolderWins
  <2> QED  BY <2>1, <2>2, <2>3, <2>4
<1>9. CASE UNCHANGED vars
    BY <1>9 DEF vars, TypeOK, RunInv, LawyerInv, CreatedInv, CreatedOnce,
       FirstFolderWins, Progress, Passed, UserMaps
<1> QED
    BY <1>1, <1>2, <1>3, <1>4, <1>5, <1>6, <1>7, <1>8, <1>9 DEF Next

(* The invariant, and with it TypeOK, holds in every reachable state. *)
THEOREM ImportInvariance == Spec => []Inv
    BY InvInit, InvStep, PTL DEF Spec

(* A matter is the first folder with its number in one of the scans. *)
THEOREM FirstFolders == Spec => []FirstFolderWins
<1>1. Inv => FirstFolderWins
    BY DEF Inv
<1> HIDE DEF Inv, FirstFolderWins
<1> QED
    BY <1>1, ImportInvariance, PTL

(* A run that is done left no number of its scan without a matter. *)
THEOREM Complete == Spec => []DoneIsComplete
<1>1. Inv => DoneIsComplete
    BY DEF Inv, TypeOK, RunInv, Progress, Passed, DoneIsComplete
<1> HIDE DEF Inv, DoneIsComplete
<1> QED
    BY <1>1, ImportInvariance, PTL

(* The created counters of all runs add up. *)
THEOREM CountedOnce == Spec => []CreatedOnce
<1>1. Inv => CreatedOnce
    BY DEF Inv
<1> HIDE DEF Inv, CreatedOnce
<1> QED
    BY <1>1, ImportInvariance, PTL

(* No import changes a matter that exists. *)
THEOREM Untouched == Spec => NeverOverwritten
<1>1. Inv /\ [Next]_vars => [\A n \in Numbers : matters[n] # None => matters'[n] = matters[n]]_vars
  <2> SUFFICES ASSUME Next, NEW n \in Numbers, matters[n] # None, Inv
               PROVE  matters'[n] = matters[n]
      OBVIOUS
  <2> QED
      BY DEF Next, CreateFolder, RemoveFolder, ScanTopLevel, Begin, Unparsed,
             Import, InsertIfNew, Finish, Abort, Inv, TypeOK
<1> HIDE DEF Inv
<1> QED
    BY <1>1, ImportInvariance, PTL DEF Spec, NeverOverwritten

-----------------------------------------------------------------------------

(* The folder a run comes to first is the first of its scan: had an earlier *)
(* one the same number, the number would have a matter already.             *)
LEMMA NextIsFirst ==
    ASSUME Inv, NEW r \in Runs, NEW f \in Folders,
           IsNext(r, f), NumberOf[f] # None, matters[NumberOf[f]] = None
    PROVE  /\ job[r] \in Scans
           /\ Register!First(f, manifest[job[r]])
<1>1. /\ job[r] \in Scans /\ todo[r] \subseteq manifest[job[r]]
      /\ manifest[job[r]] \subseteq Folders
    BY DEF IsNext, Inv, RunInv, Progress, TypeOK
<1>2. ASSUME NEW g \in manifest[job[r]], NumberOf[g] = NumberOf[f]
      PROVE  f <= g
  <2>1. g \notin Passed(r)
      BY <1>2 DEF Inv, RunInv, Progress
  <2>2. g \in todo[r]
      BY <1>1, <2>1 DEF Passed, TypeOK
  <2> QED  BY <2>2 DEF IsNext
<1> QED
    BY <1>1, <1>2 DEF IsNext, Register!First

(* The lawyer a run enters is one whose initials the folder names. *)
LEMMA LawyerFits ==
    ASSUME Inv, NEW r \in Runs, NEW f \in Folders, pc[r] = "importing"
    PROVE  Lawyer(r, f) \in Register!Lawyers(f) /\ Lawyer(r, f) \in Users \union {None}
<1>1. known[r] \in UserMaps
    BY DEF Inv, LawyerInv
<1> QED
    BY <1>1 DEF Lawyer, UserMaps, Register!Lawyers

LEMMA RegisterStep == Inv /\ [Next]_vars => [Register!Next]_(Register!vars)
<1> SUFFICES ASSUME Inv, [Next]_vars
             PROVE  [Register!Next]_(Register!vars)
    OBVIOUS
<1>1. ASSUME NEW s \in Scans, ScanTopLevel(s)
      PROVE  Register!Next
  <2>1. folders \in SUBSET Folders
      BY DEF Inv, TypeOK
  <2>2. Register!Publish(s, folders)
      BY <1>1 DEF ScanTopLevel, Register!Publish
  <2> QED  BY <2>1, <2>2 DEF Register!Next
<1>2. ASSUME NEW r \in Runs, NEW f \in Folders, Import(r, f)
      PROVE  [Register!Next]_(Register!vars)
  <2> DEFINE n == NumberOf[f]
  <2>1. /\ IsNext(r, f) /\ pc[r] = "importing" /\ n \in Numbers /\ n # None
        /\ matters' = InsertIfNew(n, [folder |-> f, lawyer |-> Lawyer(r, f)])
        /\ UNCHANGED manifest
      BY <1>2 DEF Import, IsNext
  <2>2. CASE matters[n] = None
    <3>1. Register!Enter(n, f, Lawyer(r, f))
        BY <2>1, <2>2, NextIsFirst, LawyerFits DEF InsertIfNew, Register!Enter
    <3> QED  BY <2>1, <3>1, LawyerFits DEF Register!Next
  <2>3. CASE matters[n] # None
      BY <2>1, <2>3 DEF InsertIfNew, Register!vars
  <2> QED  BY <2>2, <2>3
<1>3. ASSUME NEW f \in Folders, CreateFolder(f) \/ RemoveFolder(f)
      PROVE  UNCHANGED Register!vars
    BY <1>3 DEF CreateFolder, RemoveFolder, Register!vars
<1>4. ASSUME NEW r \in Runs,
             \/ \E s \in Scans : Begin(r, s)
             \/ \E f \in Folders : Unparsed(r, f)
             \/ Finish(r) \/ Abort(r)
      PROVE  UNCHANGED Register!vars
    BY <1>4 DEF Begin, Unparsed, Finish, Abort, Register!vars
<1>5. CASE UNCHANGED vars
    BY <1>5 DEF vars, Register!vars
<1> QED
    BY <1>1, <1>2, <1>3, <1>4, <1>5 DEF Next

(* However often, in how many pieces and by how many runs at once the lists *)
(* are imported, what comes of it is a register that enters a number once,  *)
(* for the first folder with it in some list.                               *)
THEOREM Registers == Spec => ImplementsRegister
<1>1. Init => Register!Init
    BY DEF Init, Register!Init
<1>2. Inv /\ [Next]_vars => [Register!Next]_(Register!vars)
    BY RegisterStep
<1> QED
    BY <1>1, <1>2, ImportInvariance, PTL DEF Spec, ImplementsRegister, Register!Spec
=============================================================================
