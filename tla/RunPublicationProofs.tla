------------------------ MODULE RunPublicationProofs ------------------------
(***************************************************************************)
(* The artifact of a stage run appears whole, never changes, and is of the *)
(* bound source, and what a verification returns was true: for any         *)
(* processes, payload files and interference.                              *)
(***************************************************************************)
EXTENDS RunPublication, TLAPS

Manifests == [files : [Names -> Contents \cup {None}], about : {"bound"}]

ContentsOf(e) ==
  IF e \in Names THEN Contents \cup {None} ELSE Manifests \cup {None}

Directories ==
  { r \in [ root : Nat,
            entry : [Entries -> [ content : Contents \cup Manifests \cup {None},
                                  stamp : Nat ]] ] :
      \A e \in Entries : r.entry[e].content \in ContentsOf(e) }

Calls ==
  [ op : {"none", "publish", "verify"}, dir : Dirs \cup {None}, pass : 0..3,
    at : {"scan", "manifest", "hash", "write_manifest", "rename", "marker", "end"},
    todo : SUBSET Names, root : Nat, tree : [Entries -> Nat \cup {None}],
    digests : [Names -> Contents \cup {None}], manifest : Manifests \cup {None},
    trueAtRescan : BOOLEAN, trueAtFinalScan : BOOLEAN ]

Runs == [at : RunPoints, used : {None, "bound", "changed"}, unwritten : SUBSET Names]

TypeInv ==
  /\ mode \in {"staged", "in_place"}
  /\ inputs \in [code : {"bound", "changed"}, source : {"bound", "changed"}]
  /\ dirs \in [Dirs -> Directories]
  /\ call \in [Procs -> Calls]
  /\ run \in [Procs -> Runs]
  /\ events \in [payload : Nat, silent : Nat, crashes : Nat, inputs : Nat]

(* Where a call can be. *)
CallOK(p) ==
  LET c == call[p] IN
  /\ c.op # "none" => c.dir \in Dirs
  /\ c.op = "none" => c.at = "end"
  /\ c.at = "scan" => c.pass \in 1..3
  /\ c.at \in {"manifest", "hash"} => c.pass \in 1..2
  /\ c.at = "manifest" => c.op = "verify"
  /\ c.at \in {"write_manifest", "rename", "marker"} => c.op = "publish"
  /\ c.op # "none" /\ c.at = "end" => c.op = "verify" /\ c.pass = 3

RunOK(p) ==
  run[p].at \notin {"absent", "idle", "load", "failed"} =>
    run[p].used \in {"bound", "changed"}

(* A marker, and the manifest it belongs to. *)
Sealed(d) == Published(d) /\ Content(d, "_SUCCESS") = Content(d, "manifest.json")

NotChanged(content) == content # None => content.from # "changed"

(* A stage run's own directory.  That it is sealed is what verify_artifact *)
(* found, and nobody but the run writes control files there.  What it      *)
(* holds was computed from the bound source once Recheck has passed.       *)
Mine(p) ==
  /\ call[p].op = "publish" => run[p].at = "publishing"
  /\ run[p].at = "publishing" => call[p].op # "none" /\ call[p].dir = p
  /\ run[p].at \in {"absent", "idle", "load", "parse"} => ~NonEmpty(p)
  /\ /\ run[p].at = "publishing" /\ call[p].op = "verify"
     /\ call[p].pass \in {2, 3} \/ call[p].at = "hash"
     => Sealed(p)
  /\ run[p].at \in {"recheck_again", "place"} => Sealed(p)
  /\ run[p].used = "changed" => inputs.source = "changed"
  /\ run[p].at \in {"publish", "publishing", "recheck_again", "place"} =>
       run[p].used = "bound"
  /\ run[p].used # "changed" => \A f \in Names : NotChanged(Content(p, f))
  /\ call[p].op = "publish" => \A f \in Names : NotChanged(call[p].digests[f])

(* No manifest speaks of results of a changed source. *)
Clean(d) ==
  \A e \in {"manifest.json", "manifest.json.tmp"} :
    Exists(d, e) => \A f \in Names : NotChanged(Content(d, e).files[f])

OutputOK(d) == NonEmpty(d) => Sealed(d)

StagedInv ==
  mode = "staged" =>
    /\ \A p \in Procs : Mine(p)
    /\ \A d \in Dirs : Clean(d)
    /\ \A d \in {Out, Other} : OutputOK(d)

Inv ==
  /\ TypeInv
  /\ \A p \in Procs : CallOK(p) /\ RunOK(p)
  /\ StagedInv

-----------------------------------------------------------------------------
LEMMA ControlFacts ==
  /\ "manifest.json" \in Entries /\ "_SUCCESS" \in Entries
  /\ "manifest.json.tmp" \in Entries
  /\ "manifest.json" \notin Names /\ "_SUCCESS" \notin Names
  /\ "manifest.json.tmp" \notin Names
  /\ Names \subseteq Entries
BY LineageAssumption DEF Entries, Control

LEMMA DirFacts ==
  /\ Out \in Dirs /\ Other \in Dirs /\ Procs \subseteq Dirs
  /\ Out \notin Procs /\ Other \notin Procs
BY PublicationAssumption

LEMMA EmptyFacts ==
  /\ EmptyDir \in Directories
  /\ \A e \in Entries : EmptyDir.entry[e].content = None
BY DEF EmptyDir, Absent, Directories, ContentsOf

(* A write changes the content of one entry. *)
LEMMA WrittenFacts ==
  ASSUME NEW dir \in Directories, NEW e \in Entries, NEW content \in ContentsOf(e)
  PROVE  /\ Written(dir, e, content) \in Directories
         /\ \A g \in Entries : Written(dir, e, content).entry[g].content =
                                 IF g = e THEN content ELSE dir.entry[g].content
<1> DEFINE w == Written(dir, e, content)
           item == [content |-> content, stamp |-> dir.entry[e].stamp + 1]
<1>1. /\ dir.root \in Nat
      /\ dir.entry \in [Entries -> [ content : Contents \cup Manifests \cup {None},
                                     stamp : Nat ]]
      /\ \A g \in Entries : dir.entry[g].content \in ContentsOf(g)
  BY DEF Directories
<1>2. item \in [content : Contents \cup Manifests \cup {None}, stamp : Nat]
  BY <1>1 DEF ContentsOf
<1>3. /\ w.entry = [dir.entry EXCEPT ![e] = item]
      /\ w.root \in Nat
      /\ w = [root |-> w.root, entry |-> w.entry]
  <2> DEFINE root == IF (dir.entry[e].content = None) # (content = None)
                     THEN dir.root + 1 ELSE dir.root
  <2>1. dir = [root |-> dir.root, entry |-> dir.entry]
    BY DEF Directories
  <2>2. w = [root |-> root, entry |-> [dir.entry EXCEPT ![e] = item]]
    BY <1>1, <2>1 DEF Written
  <2>3. root \in Nat
    BY <1>1
  <2> HIDE DEF w, root, item
  <2> QED
    BY <2>2, <2>3
<1>4. w.entry \in [Entries -> [ content : Contents \cup Manifests \cup {None},
                                stamp : Nat ]]
  BY <1>1, <1>2, <1>3
<1>5. \A g \in Entries : w.entry[g].content = IF g = e THEN content
                                              ELSE dir.entry[g].content
  BY <1>1, <1>3
<1>6. w \in Directories
  <2>1. \A g \in Entries : w.entry[g].content \in ContentsOf(g)
    BY <1>1, <1>5
  <2> HIDE DEF w
  <2> QED
    BY <1>3, <1>4, <2>1 DEF Directories
<1> QED
  BY <1>5, <1>6

LEMMA SilentlyWrittenFacts ==
  ASSUME NEW dir \in Directories, NEW e \in Entries, NEW content \in ContentsOf(e)
  PROVE  /\ SilentlyWritten(dir, e, content) \in Directories
         /\ \A g \in Entries : SilentlyWritten(dir, e, content).entry[g].content =
                                 IF g = e THEN content ELSE dir.entry[g].content
<1> DEFINE w == SilentlyWritten(dir, e, content)
           item == [dir.entry[e] EXCEPT !.content = content]
<1>1. /\ dir.root \in Nat
      /\ dir.entry \in [Entries -> [ content : Contents \cup Manifests \cup {None},
                                     stamp : Nat ]]
      /\ \A g \in Entries : dir.entry[g].content \in ContentsOf(g)
  BY DEF Directories
<1>2. /\ item \in [content : Contents \cup Manifests \cup {None}, stamp : Nat]
      /\ item.content = content
  BY <1>1 DEF ContentsOf
<1>3. /\ w.entry = [dir.entry EXCEPT ![e] = item]
      /\ w.root \in Nat
      /\ w = [root |-> w.root, entry |-> w.entry]
  BY <1>1 DEF SilentlyWritten, Directories
<1> HIDE DEF item
<1>4. w.entry \in [Entries -> [ content : Contents \cup Manifests \cup {None},
                                stamp : Nat ]]
  BY <1>1, <1>2, <1>3
<1>5. \A g \in Entries : w.entry[g].content = IF g = e THEN content
                                              ELSE dir.entry[g].content
  BY <1>1, <1>2, <1>3
<1>6. w \in Directories
  <2>1. \A g \in Entries : w.entry[g].content \in ContentsOf(g)
    BY <1>1, <1>5
  <2> HIDE DEF w
  <2> QED
    BY <1>3, <1>4, <2>1 DEF Directories
<1> QED
  BY <1>5, <1>6

LEMMA OutputIsOut ==
  ASSUME NEW p \in Procs
  PROVE  Output(p) \in {Out, Other} /\ Output(p) \in Dirs /\ Output(p) # p
BY DirFacts DEF Output

LEMMA OpenedFacts ==
  ASSUME NEW op \in {"publish", "verify"}, NEW d \in Dirs,
         NEW manifest \in Manifests \cup {None}
  PROVE  /\ Opened(op, d, manifest) \in Calls
         /\ Opened(op, d, manifest).op = op
         /\ Opened(op, d, manifest).dir = d
         /\ Opened(op, d, manifest).pass = 1
         /\ Opened(op, d, manifest).at = "scan"
         /\ Opened(op, d, manifest).digests = [f \in Names |-> None]
BY DEF Opened, NewCall, Calls

LEMMA NoCallFacts ==
  /\ NoCall \in Calls
  /\ NoCall.op = "none" /\ NoCall.at = "end"
BY DEF NoCall, NewCall, Calls

(* What a process does in its own directory is no one else's business.     *)
LEMMA OwnStep ==
  ASSUME Inv, TypeInv', NEW p \in Procs,
         \A q \in Procs : q # p => run'[q] = run[q] /\ call'[q] = call[q],
         mode' = mode, inputs' = inputs,
         CallOK(p)', RunOK(p)',
         mode = "staged" => /\ \A d \in Dirs : d # p => dirs'[d] = dirs[d]
                            /\ Mine(p)' /\ Clean(p)'
  PROVE  Inv'
<1>1. \A q \in Procs : CallOK(q)' /\ RunOK(q)'
  BY DEF Inv, CallOK, RunOK
<1>2. ASSUME mode = "staged"
      PROVE  /\ \A q \in Procs : Mine(q)'
             /\ \A d \in Dirs : Clean(d)'
             /\ \A d \in {Out, Other} : OutputOK(d)'
  <2>1. \A q \in Procs : q # p => dirs'[q] = dirs[q] /\ Mine(q)
    BY <1>2, DirFacts DEF Inv, StagedInv
  <2>2. \A q \in Procs : Mine(q)'
    BY <1>2, <2>1 DEF Mine, Sealed, Published, NonEmpty, Exists, Content
  <2>3. \A d \in Dirs : Clean(d)'
    BY <1>2 DEF Inv, StagedInv, Clean, Exists, Content
  <2>4. \A d \in {Out, Other} : OutputOK(d)'
    BY <1>2, DirFacts DEF Inv, StagedInv, OutputOK, Sealed, Published, NonEmpty,
                          Exists, Content
  <2> QED
    BY <2>2, <2>3, <2>4
<1> QED
  BY <1>1, <1>2 DEF Inv, StagedInv

(* A step that writes nothing. *)
LEMMA QuietStep ==
  ASSUME Inv, NEW p \in Procs, NEW r \in Runs, NEW c \in Calls,
         run' = [run EXCEPT ![p] = r], call' = [call EXCEPT ![p] = c],
         UNCHANGED <<dirs, envVars>>,
         CallOK(p)', RunOK(p)', mode = "staged" => Mine(p)'
  PROVE  Inv'
<1>1. TypeInv'
  BY DEF Inv, TypeInv, envVars
<1>2. \A q \in Procs : q # p => run'[q] = run[q] /\ call'[q] = call[q]
  BY DEF Inv, TypeInv
<1>3. mode = "staged" => Clean(p)'
  BY DirFacts DEF Inv, StagedInv, Clean, Exists, Content
<1> QED
  BY <1>1, <1>2, <1>3, OwnStep DEF envVars

-----------------------------------------------------------------------------
LEMMA InitInv == Init => Inv
<1> SUFFICES ASSUME Init
             PROVE  Inv
  OBVIOUS
<1>1. TypeInv
  <2>1. run \in [Procs -> Runs]
    BY DEF Init, Idle, Runs, RunPoints
  <2>2. dirs \in [Dirs -> Directories]
    BY EmptyFacts DEF Init
  <2>3. call \in [Procs -> Calls]
    BY NoCallFacts DEF Init
  <2>4. /\ mode \in {"staged", "in_place"}
        /\ inputs \in [code : {"bound", "changed"}, source : {"bound", "changed"}]
        /\ events \in [payload : Nat, silent : Nat, crashes : Nat, inputs : Nat]
    BY DEF Init
  <2> QED
    BY <2>1, <2>2, <2>3, <2>4 DEF TypeInv
<1>2. \A p \in Procs : CallOK(p) /\ RunOK(p) /\ run[p].used = None /\ call[p].op = "none"
                       /\ run[p].at \in {"absent", "idle"}
  BY NoCallFacts DEF Init, CallOK, RunOK, Idle
<1>3. \A d \in Dirs, e \in Entries : Content(d, e) = None
  BY EmptyFacts DEF Init, Content
<1>4. \A d \in Dirs : ~NonEmpty(d)
  BY <1>3 DEF NonEmpty, Exists
<1>5. ASSUME NEW p \in Procs
      PROVE  Mine(p)
  <2>1. \A f \in Names : NotChanged(Content(p, f))
    BY <1>3, ControlFacts, DirFacts DEF NotChanged
  <2> QED
    BY <1>2, <1>4, <2>1, DirFacts, PublicationAssumption DEF Mine
<1>6. \A d \in Dirs : Clean(d)
  BY <1>3, ControlFacts DEF Clean, Exists
<1>7. StagedInv
  BY <1>4, <1>5, <1>6, DirFacts DEF StagedInv, OutputOK
<1> QED
  BY <1>1, <1>2, <1>7 DEF Inv

-----------------------------------------------------------------------------
(* The steps of a run outside its calls that write nothing.                *)
LEMMA Unmoved ==
  ASSUME Inv, NEW p \in Procs, NEW point \in RunPoints, GoTo(p, point)
  PROVE  /\ run' = [run EXCEPT ![p] = [run[p] EXCEPT !.at = point]]
         /\ [run[p] EXCEPT !.at = point] \in Runs
         /\ run'[p].at = point
         /\ run'[p].used = run[p].used
         /\ run' \in [Procs -> Runs]
         /\ \A q \in Procs : q # p => run'[q] = run[q]
<1>1. run[p] \in Runs /\ run \in [Procs -> Runs]
  BY DEF Inv, TypeInv
<1> QED
  BY <1>1 DEF GoTo, Runs

LEMMA RunStep ==
  ASSUME Inv, NEW p \in Procs, NEW r \in Runs,
         run' = [run EXCEPT ![p] = r], UNCHANGED <<lineageVars, envVars>>,
         RunOK(p)', mode = "staged" => Mine(p)'
  PROVE  Inv'
<1>1. call[p] \in Calls /\ call' = [call EXCEPT ![p] = call[p]]
  BY DEF Inv, TypeInv, lineageVars
<1>2. CallOK(p)'
  BY DEF Inv, CallOK, lineageVars
<1> QED
  BY <1>1, <1>2, QuietStep DEF lineageVars

LEMMA BindInputsKeepsInv ==
  ASSUME Inv, NEW p \in Procs, BindInputs(p)
  PROVE  Inv'
<1>1. /\ run[p].at = "idle" /\ GoTo(p, "load")
      /\ UNCHANGED <<lineageVars, envVars>>
  BY DEF BindInputs
<1>2. "load" \in RunPoints
  BY DEF RunPoints
<1>3. /\ run'[p].at = "load"
      /\ run'[p].used = run[p].used
  BY <1>1, <1>2, Unmoved
<1>4. RunOK(p)'
  BY <1>3 DEF RunOK
<1>5. mode = "staged" => Mine(p)'
  BY <1>1, <1>3
  DEF Inv, StagedInv, Mine, Sealed, Published, NonEmpty, Exists, Content, lineageVars,
      envVars
<1> QED
  BY <1>1, <1>2, <1>4, <1>5, Unmoved, RunStep

(* A changed source can be read; what it leads to is another identity.     *)
LEMMA ReadSourceKeepsInv ==
  ASSUME Inv, NEW p \in Procs, ReadSource(p)
  PROVE  Inv'
<1>1. PICK used \in {"bound", "changed"} :
        /\ run' = [run EXCEPT ![p] = [run[p] EXCEPT !.at = "parse", !.used = used]]
        /\ mode = "staged" => used = inputs.source
  <2>1. (IF mode = "staged" THEN inputs.source ELSE "bound") \in {"bound", "changed"}
    BY DEF Inv, TypeInv
  <2> QED
    BY <2>1 DEF ReadSource
<1>2. /\ run[p].at = "load"
      /\ UNCHANGED <<lineageVars, envVars>>
  BY DEF ReadSource
<1>3. /\ [run[p] EXCEPT !.at = "parse", !.used = used] \in Runs
      /\ run'[p].at = "parse"
      /\ run'[p].used = used
  BY <1>1 DEF Inv, TypeInv, Runs, RunPoints
<1>4. RunOK(p)'
  BY <1>3 DEF RunOK
<1>5. ASSUME mode = "staged"
      PROVE  Mine(p)'
  <2>1. ~NonEmpty(p) /\ call[p].op # "publish"
    BY <1>2, <1>5 DEF Inv, StagedInv, Mine
  <2>2. \A f \in Names : NotChanged(Content(p, f))
    BY <2>1, ControlFacts DEF NonEmpty, Exists, NotChanged
  <2> QED
    BY <1>1, <1>2, <1>3, <1>5, <2>1, <2>2
    DEF Mine, NonEmpty, Exists, Content, NotChanged, lineageVars, envVars
<1> QED
  BY <1>1, <1>2, <1>3, <1>4, <1>5, RunStep

LEMMA FindExistingKeepsInv ==
  ASSUME Inv, NEW p \in Procs, FindExisting(p)
  PROVE  Inv'
<1> DEFINE c == Opened("verify", Output(p), None)
<1>1. /\ run[p].at = "parse" /\ GoTo(p, "existing")
      /\ call' = [call EXCEPT ![p] = c]
      /\ UNCHANGED <<dirs, envVars>>
  BY DEF FindExisting
<1>2. c \in Calls /\ c.op = "verify" /\ c.dir \in Dirs /\ c.pass = 1 /\ c.at = "scan"
  BY OutputIsOut, OpenedFacts
<1> HIDE DEF c
<1>3. call'[p] = c
  BY <1>1 DEF Inv, TypeInv
<1>4. "existing" \in RunPoints
  BY DEF RunPoints
<1>5. /\ run'[p].at = "existing"
      /\ run'[p].used = run[p].used
  BY <1>1, <1>4, Unmoved
<1>6. RunOK(p)'
  BY <1>1, <1>5 DEF RunOK, Inv
<1>7. CallOK(p)'
  BY <1>2, <1>3 DEF CallOK
<1>8. mode = "staged" => Mine(p)'
  BY <1>1, <1>2, <1>3, <1>5
  DEF Inv, StagedInv, Mine, Sealed, Published, NonEmpty, Exists, Content, envVars
<1> QED
  BY <1>1, <1>2, <1>4, <1>6, <1>7, <1>8, Unmoved, QuietStep

LEMMA RefuseLeftoversKeepsInv ==
  ASSUME Inv, NEW p \in Procs, RefuseLeftovers(p)
  PROVE  Inv'
<1>1. /\ mode = "in_place" /\ GoTo(p, "failed")
      /\ UNCHANGED <<lineageVars, envVars>>
  BY DEF RefuseLeftovers
<1>2. "failed" \in RunPoints
  BY DEF RunPoints
<1>3. RunOK(p)'
  BY <1>1, <1>2, Unmoved DEF RunOK
<1> QED
  BY <1>1, <1>2, <1>3, Unmoved, RunStep

LEMMA ExecuteKeepsInv ==
  ASSUME Inv, NEW p \in Procs, Execute(p)
  PROVE  Inv'
<1>1. PICK point \in {"recheck", "write"} :
        run' = [run EXCEPT ![p] = [run[p] EXCEPT !.at = point, !.unwritten = Names]]
  BY DEF Execute
<1>2. /\ run[p].at = "parse"
      /\ UNCHANGED <<lineageVars, envVars>>
  BY DEF Execute
<1>3. /\ [run[p] EXCEPT !.at = point, !.unwritten = Names] \in Runs
      /\ run'[p].at = point
      /\ run'[p].used = run[p].used
  BY <1>1 DEF Inv, TypeInv, Runs, RunPoints
<1>4. RunOK(p)'
  BY <1>2, <1>3 DEF Inv, RunOK
<1>5. mode = "staged" => Mine(p)'
  BY <1>2, <1>3
  DEF Inv, StagedInv, Mine, Sealed, Published, NonEmpty, Exists, Content, lineageVars,
      envVars
<1> QED
  BY <1>1, <1>2, <1>3, <1>4, <1>5, RunStep

(* What passes has been computed from the bound source.                    *)
LEMMA RecheckKeepsInv ==
  ASSUME Inv, NEW p \in Procs, Recheck(p)
  PROVE  Inv'
<1>1. PICK point \in {"publish", "place", "write", "returned"} :
        /\ GoTo(p, point)
        /\ mode = "staged" => point = IF run[p].at = "recheck" THEN "publish" ELSE "place"
  BY DEF Recheck, RecheckPoints
<1>2. /\ run[p].at \in {"recheck", "recheck_again"}
      /\ inputs.source = "bound"
      /\ UNCHANGED <<lineageVars, envVars>>
  BY DEF Recheck, InputsOK
<1>3. point \in RunPoints
  BY <1>1 DEF RunPoints
<1>4. /\ run'[p].at = point
      /\ run'[p].used = run[p].used
  BY <1>1, <1>3, Unmoved
<1>5. RunOK(p)'
  BY <1>2, <1>4 DEF Inv, RunOK
<1>6. mode = "staged" => Mine(p)'
  <2>1. run[p].used \in {"bound", "changed"}
    BY <1>2 DEF Inv, RunOK
  <2> QED
    BY <1>1, <1>2, <1>4, <2>1
    DEF Inv, StagedInv, Mine, Sealed, Published, NonEmpty, Exists, Content, lineageVars,
        envVars
<1> QED
  BY <1>1, <1>2, <1>3, <1>5, <1>6, Unmoved, RunStep

LEMMA BeginPublishKeepsInv ==
  ASSUME Inv, NEW p \in Procs, BeginPublish(p)
  PROVE  Inv'
<1> DEFINE c == Opened("publish", Target(p), None)
<1>1. /\ run[p].at = "publish" /\ GoTo(p, "publishing")
      /\ call' = [call EXCEPT ![p] = c]
      /\ UNCHANGED <<dirs, envVars>>
  BY DEF BeginPublish
<1>2. Target(p) \in Dirs /\ (mode = "staged" => Target(p) = p)
  BY OutputIsOut, DirFacts DEF Target
<1>3. /\ c \in Calls /\ c.op = "publish" /\ c.dir = Target(p) /\ c.pass = 1
      /\ c.at = "scan" /\ \A f \in Names : c.digests[f] = None
  BY <1>2, OpenedFacts
<1> HIDE DEF c
<1>4. call'[p] = c
  BY <1>1 DEF Inv, TypeInv
<1>5. "publishing" \in RunPoints
  BY DEF RunPoints
<1>6. /\ run'[p].at = "publishing"
      /\ run'[p].used = run[p].used
  BY <1>1, <1>5, Unmoved
<1>7. RunOK(p)'
  BY <1>1, <1>6 DEF RunOK, Inv
<1>8. CallOK(p)'
  BY <1>2, <1>3, <1>4 DEF CallOK
<1>9. mode = "staged" => Mine(p)'
  BY <1>1, <1>2, <1>3, <1>4, <1>6
  DEF Inv, StagedInv, Mine, Sealed, Published, NonEmpty, Exists, Content, NotChanged,
      envVars
<1> QED
  BY <1>1, <1>3, <1>5, <1>7, <1>8, <1>9, Unmoved, QuietStep

LEMMA PublishReturnedKeepsInv ==
  ASSUME Inv, NEW p \in Procs, PublishReturned(p)
  PROVE  Inv'
<1>1. PICK point \in {"recheck_again", "returned"} :
        GoTo(p, point) /\ (mode = "staged" => point = "recheck_again")
  BY DEF PublishReturned
<1>2. /\ run[p].at = "publishing"
      /\ call[p].op = "verify" /\ call[p].at = "end"
      /\ UNCHANGED <<lineageVars, envVars>>
  BY DEF PublishReturned
<1>3. point \in RunPoints
  BY <1>1 DEF RunPoints
<1>4. /\ run'[p].at = point
      /\ run'[p].used = run[p].used
  BY <1>1, <1>3, Unmoved
<1>5. RunOK(p)'
  BY <1>2, <1>4 DEF Inv, RunOK
<1>6. mode = "staged" => Mine(p)'
  <2>1. call[p].pass = 3
    BY <1>2 DEF Inv, CallOK
  <2> QED
    BY <1>1, <1>2, <1>4, <2>1
    DEF Inv, StagedInv, Mine, Sealed, Published, NonEmpty, Exists, Content, lineageVars,
        envVars
<1> QED
  BY <1>1, <1>2, <1>3, <1>5, <1>6, Unmoved, RunStep

LEMMA ReturnKeepsInv ==
  ASSUME Inv, NEW p \in Procs, Return(p)
  PROVE  Inv'
<1>1. /\ run[p].at \in {"confirm", "existing"} /\ GoTo(p, "returned")
      /\ UNCHANGED <<lineageVars, envVars>>
  BY DEF Return
<1>2. "returned" \in RunPoints
  BY DEF RunPoints
<1>3. /\ run'[p].at = "returned"
      /\ run'[p].used = run[p].used
  BY <1>1, <1>2, Unmoved
<1>4. RunOK(p)'
  BY <1>1, <1>3 DEF Inv, RunOK
<1>5. mode = "staged" => Mine(p)'
  BY <1>1, <1>3
  DEF Inv, StagedInv, Mine, Sealed, Published, NonEmpty, Exists, Content, lineageVars,
      envVars
<1> QED
  BY <1>1, <1>2, <1>4, <1>5, Unmoved, RunStep

-----------------------------------------------------------------------------
(* The steps that write.                                                   *)
LEMMA WriteFacts ==
  ASSUME Inv, NEW d \in Dirs, NEW e \in Entries, NEW content \in ContentsOf(e),
         dirs' = [dirs EXCEPT ![d] = Written(@, e, content)]
  PROVE  /\ dirs' \in [Dirs -> Directories]
         /\ \A other \in Dirs : other # d => dirs'[other] = dirs[other]
         /\ \A g \in Entries :
              Content(d, g)' = IF g = e THEN content ELSE Content(d, g)
<1>1. dirs \in [Dirs -> Directories] /\ dirs[d] \in Directories
  BY DEF Inv, TypeInv
<1>2. Written(dirs[d], e, content) \in Directories
  BY <1>1, WrittenFacts
<1>3. \A g \in Entries : Written(dirs[d], e, content).entry[g].content =
                           IF g = e THEN content ELSE dirs[d].entry[g].content
  BY <1>1, WrittenFacts
<1>4. dirs'[d] = Written(dirs[d], e, content)
  BY <1>1
<1>5. \A g \in Entries : Content(d, g)' = IF g = e THEN content ELSE Content(d, g)
  BY <1>3, <1>4 DEF Content
<1> QED
  BY <1>1, <1>2, <1>5

(* A payload file is written by a run in its own directory.                *)
LEMMA PayloadStep ==
  ASSUME Inv, NEW p \in Procs, NEW f \in Names, NEW content \in Contents,
         NEW r \in Runs, NEW target \in Dirs,
         run[p].at \in {"write", "fill"},
         r.used = run[p].used,
         \/ r.at \in {"write", "fill", "recheck"}
         \/ mode = "in_place" /\ r.at = "publish",
         mode = "staged" => target = p,
         dirs' = [dirs EXCEPT ![target] = Written(dirs[target], f, content)],
         run' = [run EXCEPT ![p] = r],
         run[p].used # "changed" => content.from # "changed",
         UNCHANGED <<call, envVars>>
  PROVE  Inv'
<1>1. f \in Entries /\ content \in ContentsOf(f)
  BY ControlFacts DEF ContentsOf
<1>2. /\ dirs' \in [Dirs -> Directories]
      /\ \A d \in Dirs : d # target => dirs'[d] = dirs[d]
      /\ \A g \in Entries :
           Content(target, g)' = IF g = f THEN content ELSE Content(target, g)
  BY <1>1, WriteFacts
<1>3. /\ run' \in [Procs -> Runs]
      /\ \A q \in Procs : q # p => run'[q] = run[q]
      /\ run'[p] = r
  BY DEF Inv, TypeInv
<1>4. TypeInv'
  BY <1>2, <1>3 DEF Inv, TypeInv, envVars
<1>5. CallOK(p)' /\ RunOK(p)'
  BY <1>3 DEF Inv, CallOK, RunOK
<1>6. ASSUME mode = "staged"
      PROVE  /\ \A d \in Dirs : d # p => dirs'[d] = dirs[d]
             /\ Mine(p)' /\ Clean(p)'
  <2>1. \A g \in Entries : Content(p, g)' = IF g = f THEN content ELSE Content(p, g)
    BY <1>2, <1>6 DEF Content
  <2>2. Mine(p) /\ Clean(p)
    BY <1>6, DirFacts DEF Inv, StagedInv
  <2>3. Clean(p)'
    BY <2>1, <2>2, ControlFacts DEF Clean, Exists
  <2>4. run[p].used # "changed" => \A g \in Names : NotChanged(Content(p, g)')
    BY <2>1, <2>2, ControlFacts DEF Mine, NotChanged
  <2>5. Mine(p)'
    BY <1>3, <1>6, <2>2, <2>4 DEF Mine, NotChanged, envVars
  <2> QED
    BY <1>2, <1>6, <2>3, <2>5
<1> QED
  BY <1>3, <1>4, <1>5, <1>6, OwnStep DEF envVars

LEMMA TargetFacts ==
  ASSUME NEW p \in Procs
  PROVE  Target(p) \in Dirs /\ (mode = "staged" => Target(p) = p)
BY OutputIsOut, DirFacts DEF Target

LEMMA TruncateKeepsInv ==
  ASSUME Inv, NEW p \in Procs, NEW f \in Names, Truncate(p, f)
  PROVE  Inv'
<1> DEFINE r == [run[p] EXCEPT !.at = "fill", !.unwritten = run[p].unwritten \ {f}]
<1>1. PICK target \in Dirs : target = Target(p)
  BY TargetFacts
<1>2. /\ run[p].at = "write"
      /\ dirs' = [dirs EXCEPT ![target] = Written(dirs[target], f, Truncated)]
      /\ run' = [run EXCEPT ![p] = r]
      /\ UNCHANGED <<call, envVars>>
  BY <1>1 DEF Truncate, Inv, TypeInv
<1>3. r \in Runs /\ r.at = "fill" /\ r.used = run[p].used /\ "fill" \in RunPoints
  BY <1>2 DEF Inv, TypeInv, Runs, RunPoints
<1>4. Truncated \in Contents /\ Truncated.from # "changed"
  BY DEF Truncated, Contents
<1> HIDE DEF r
<1> QED
  BY <1>1, <1>2, <1>3, <1>4, TargetFacts, PayloadStep

LEMMA FillKeepsInv ==
  ASSUME Inv, NEW p \in Procs, NEW f \in Names, Fill(p, f)
  PROVE  Inv'
<1> DEFINE content == [by |-> IF f \in Timed THEN p ELSE None, from |-> run[p].used]
<1>1. PICK target \in Dirs : target = Target(p)
  BY TargetFacts
<1>2. PICK point \in {"write", "recheck", "publish"} :
        /\ GoTo(p, point)
        /\ mode = "staged" => point # "publish"
  BY DEF Fill
<1> DEFINE r == [run[p] EXCEPT !.at = point]
<1>3. /\ run[p].at = "fill"
      /\ dirs' = [dirs EXCEPT ![target] = Written(dirs[target], f, content)]
      /\ UNCHANGED <<call, envVars>>
  BY <1>1 DEF Fill, Inv, TypeInv
<1>4. point \in RunPoints
  BY <1>2 DEF RunPoints
<1>5. /\ run' = [run EXCEPT ![p] = r]
      /\ r \in Runs /\ r.at = point /\ r.used = run[p].used
  <2>1. run[p] \in Runs
    BY DEF Inv, TypeInv
  <2> QED
    BY <1>2, <1>4, <2>1 DEF GoTo, Runs
<1>6. content \in Contents /\ content.from = run[p].used
  BY <1>3 DEF Inv, RunOK, Contents
<1>7. mode \in {"staged", "in_place"}
  BY DEF Inv, TypeInv
<1> HIDE DEF content, r
<1>8. mode = "staged" => target = p
  BY <1>1, TargetFacts
<1>9. \/ r.at \in {"write", "fill", "recheck"}
      \/ mode = "in_place" /\ r.at = "publish"
  BY <1>2, <1>5, <1>7
<1>10. run[p].used # "changed" => content.from # "changed"
  BY <1>6
<1> QED
  BY <1>3, <1>4, <1>5, <1>6, <1>8, <1>9, <1>10, PayloadStep

-----------------------------------------------------------------------------
(* The steps of a call.                                                    *)
LEMMA CallStep ==
  ASSUME Inv, NEW p \in Procs, NEW c \in Calls,
         call' = [call EXCEPT ![p] = c], UNCHANGED <<dirs, run, envVars>>,
         c.op = call[p].op, c.dir = call[p].dir, CallOK(p)',
         mode = "staged" =>
           /\ c.op = "publish" => \A f \in Names : NotChanged(c.digests[f])
           /\ /\ run[p].at = "publishing" /\ c.op = "verify"
              /\ c.pass \in {2, 3} \/ c.at = "hash"
              => Sealed(p)
  PROVE  Inv'
<1>1. run[p] \in Runs /\ run' = [run EXCEPT ![p] = run[p]]
  BY DEF Inv, TypeInv
<1>2. call'[p] = c
  BY DEF Inv, TypeInv
<1>3. RunOK(p)'
  BY DEF Inv, RunOK
<1>4. mode = "staged" => Mine(p)'
  BY <1>2
  DEF Inv, StagedInv, Mine, Sealed, Published, NonEmpty, Exists, Content, NotChanged,
      envVars
<1> QED
  BY <1>1, <1>3, <1>4, QuietStep

LEMMA ScanKeepsInv ==
  ASSUME Inv, NEW p \in Procs, Scan(p), UNCHANGED <<run, envVars>>
  PROVE  Inv'
<1> DEFINE d == call[p].dir
           true == Holds(d, call[p].digests)
           tree == [e \in Entries |-> StampSeen(d, e)]
           todo == IF call[p].pass < 3 THEN Payload(d) ELSE {}
           after == AfterScan(call[p].op, call[p].pass)
           rescan == IF call[p].pass = 2 THEN true ELSE call[p].trueAtRescan
           final == IF call[p].pass = 3 THEN true ELSE call[p].trueAtFinalScan
           c1 == [call[p] EXCEPT !.at = after, !.root = dirs[d].root, !.tree = tree]
           c == [c1 EXCEPT !.todo = todo, !.trueAtRescan = rescan,
                           !.trueAtFinalScan = final]
<1>1. call[p] \in Calls /\ call \in [Procs -> Calls] /\ dirs \in [Dirs -> Directories]
  BY DEF Inv, TypeInv
<1>2. call[p].at = "scan" /\ UNCHANGED dirs
  BY DEF Scan
<1>3. call[p].op \in {"publish", "verify"} /\ d \in Dirs /\ call[p].pass \in 1..3
  BY <1>1, <1>2 DEF Inv, CallOK, Calls
<1>4. call' = [call EXCEPT ![p] = c]
  <2> DEFINE whole == [call[p] EXCEPT !.at = after, !.root = dirs[d].root,
                         !.tree = tree, !.todo = todo, !.trueAtRescan = rescan,
                         !.trueAtFinalScan = final]
  <2>1. call' = [call EXCEPT ![p] = whole]
    BY <1>1, ZenonT(40) DEF Scan
  <2> HIDE DEF true, tree, todo, after, rescan, final
  <2>2. whole = c
    BY <1>1, SMTT(30) DEF Calls
  <2> QED
    BY <2>1, <2>2
<1>5. /\ after \in {"hash", "manifest", "write_manifest", "end"}
      /\ after = "hash" => call[p].op = "publish" /\ call[p].pass \in 1..2
      /\ after = "manifest" => call[p].op = "verify" /\ call[p].pass \in 1..2
      /\ after = "write_manifest" => call[p].op = "publish"
      /\ after = "end" => call[p].op = "verify" /\ call[p].pass = 3
  BY <1>3 DEF AfterScan
<1>6. /\ c \in Calls
      /\ c.op = call[p].op /\ c.dir = call[p].dir /\ c.digests = call[p].digests
      /\ c.pass = call[p].pass /\ c.at = after
  <2>1. tree \in [Entries -> Nat \cup {None}]
    BY <1>1, <1>3 DEF StampSeen, Directories
  <2>2. todo \in SUBSET Names
    BY DEF Payload
  <2>3. true \in BOOLEAN
    BY DEF Holds
  <2>4. rescan \in BOOLEAN /\ final \in BOOLEAN
    BY <1>1, <2>3 DEF Calls
  <2>5. dirs[d].root \in Nat
    BY <1>1, <1>3 DEF Directories
  <2> HIDE DEF true, tree, todo, after, rescan, final
  <2>6. /\ c1 \in Calls
        /\ c1.op = call[p].op /\ c1.dir = call[p].dir
        /\ c1.digests = call[p].digests
        /\ c1.pass = call[p].pass /\ c1.at = after
    BY <1>1, <1>5, <2>1, <2>5 DEF Calls
  <2> HIDE DEF c1
  <2> QED
    BY <2>2, <2>4, <2>6 DEF Calls
<1> HIDE DEF c
<1>7. CallOK(p)'
  BY <1>1, <1>3, <1>4, <1>5, <1>6 DEF CallOK
<1>8. ASSUME mode = "staged"
      PROVE  /\ c.op = "publish" => \A f \in Names : NotChanged(c.digests[f])
             /\ /\ run[p].at = "publishing" /\ c.op = "verify"
                /\ c.pass \in {2, 3} \/ c.at = "hash"
                => Sealed(p)
  BY <1>5, <1>6, <1>8 DEF Inv, StagedInv, Mine
<1> QED
  BY <1>2, <1>4, <1>6, <1>7, <1>8, CallStep

(* The marker that is found is the manifest's.                             *)
LEMMA ReadManifestKeepsInv ==
  ASSUME Inv, NEW p \in Procs, ReadManifest(p), UNCHANGED <<run, envVars>>
  PROVE  Inv'
<1> DEFINE d == call[p].dir
           read == Content(d, "manifest.json")
           c == [call[p] EXCEPT !.at = "hash", !.manifest = read, !.digests = read.files]
<1>1. call[p] \in Calls /\ call \in [Procs -> Calls] /\ dirs \in [Dirs -> Directories]
  BY DEF Inv, TypeInv
<1>2. call[p].at = "manifest" /\ ManifestOK(p) /\ UNCHANGED dirs
      /\ call' = [call EXCEPT ![p] = c]
  BY <1>1 DEF ReadManifest
<1>3. call[p].op = "verify" /\ d \in Dirs /\ call[p].pass \in 1..2
  BY <1>1, <1>2 DEF Inv, CallOK, Calls
<1>4. Sealed(d)
  BY <1>2 DEF ManifestOK, Unchanged, StampSeen, Sealed, Published
<1>5. read \in Manifests
  <2>1. read # None
    BY <1>4 DEF Sealed, Published, Exists
  <2>2. read \in ContentsOf("manifest.json")
    BY <1>1, <1>3, ControlFacts DEF Content, Directories
  <2> QED
    BY <2>1, <2>2, ControlFacts DEF ContentsOf
<1>6. read.files \in [Names -> Contents \cup {None}]
  BY <1>5 DEF Manifests
<1> HIDE DEF read
<1>7. /\ c \in Calls
      /\ c.op = call[p].op /\ c.dir = call[p].dir /\ c.pass = call[p].pass
      /\ c.at = "hash"
  BY <1>1, <1>5, <1>6 DEF Calls
<1> HIDE DEF c
<1>8. CallOK(p)'
  BY <1>1, <1>2, <1>3, <1>7 DEF CallOK
<1>9. mode = "staged" /\ run[p].at = "publishing" => Sealed(p)
  BY <1>4 DEF Inv, StagedInv, Mine
<1> QED
  BY <1>2, <1>3, <1>7, <1>8, <1>9, CallStep

LEMMA HashFileKeepsInv ==
  ASSUME Inv, NEW p \in Procs, NEW f \in Names, HashFile(p, f),
         UNCHANGED <<run, envVars>>
  PROVE  Inv'
<1> DEFINE d == call[p].dir
           found == IF call[p].pass = 1 THEN Content(d, f) ELSE call[p].digests[f]
           digests == [call[p].digests EXCEPT ![f] = found]
           c == [call[p] EXCEPT !.todo = call[p].todo \ {f}, !.digests = digests]
<1>1. call[p] \in Calls /\ call \in [Procs -> Calls] /\ dirs \in [Dirs -> Directories]
  BY DEF Inv, TypeInv
<1>2. call[p].at = "hash" /\ UNCHANGED dirs
      /\ call' = [call EXCEPT ![p] = c]
  BY <1>1 DEF HashFile, Calls
<1>3. call[p].op # "none" /\ d \in Dirs /\ call[p].pass \in 1..2
  BY <1>1, <1>2 DEF Inv, CallOK, Calls
<1>4. found \in Contents \cup {None}
  <2>1. Content(d, f) \in ContentsOf(f)
    BY <1>1, <1>3, ControlFacts DEF Content, Directories
  <2> QED
    BY <1>1, <2>1 DEF ContentsOf, Calls
<1>5. digests \in [Names -> Contents \cup {None}]
  BY <1>1, <1>4 DEF Calls
<1>6. \A g \in Names : digests[g] = IF g = f THEN found ELSE call[p].digests[g]
  BY <1>1 DEF Calls
<1>7. ASSUME mode = "staged", call[p].op = "publish"
      PROVE  \A g \in Names : NotChanged(digests[g])
  <2>1. /\ d = p /\ run[p].used = "bound"
        /\ \A g \in Names : NotChanged(Content(p, g)) /\ NotChanged(call[p].digests[g])
    BY <1>7 DEF Inv, StagedInv, Mine
  <2> QED
    BY <1>6, <2>1
<1> HIDE DEF digests, found
<1>8. /\ c \in Calls
      /\ c.op = call[p].op /\ c.dir = call[p].dir /\ c.pass = call[p].pass
      /\ c.at = call[p].at /\ c.digests = digests
  BY <1>1, <1>5 DEF Calls
<1> HIDE DEF c
<1>9. CallOK(p)'
  BY <1>1, <1>2, <1>8 DEF Inv, CallOK
<1>10. ASSUME mode = "staged"
       PROVE  /\ c.op = "publish" => \A g \in Names : NotChanged(c.digests[g])
              /\ /\ run[p].at = "publishing" /\ c.op = "verify"
                 /\ c.pass \in {2, 3} \/ c.at = "hash"
                 => Sealed(p)
  BY <1>7, <1>8, <1>10 DEF Inv, StagedInv, Mine
<1> QED
  BY <1>2, <1>8, <1>9, <1>10, CallStep

LEMMA EndHashKeepsInv ==
  ASSUME Inv, NEW p \in Procs, EndHash(p), UNCHANGED <<run, envVars>>
  PROVE  Inv'
<1> DEFINE c == [call[p] EXCEPT !.at = "scan", !.pass = call[p].pass + 1]
<1>1. call[p] \in Calls /\ call \in [Procs -> Calls]
  BY DEF Inv, TypeInv
<1>2. call[p].at = "hash" /\ UNCHANGED dirs
      /\ call' = [call EXCEPT ![p] = c]
  BY <1>1 DEF EndHash
<1>3. call[p].op # "none" /\ call[p].dir \in Dirs /\ call[p].pass \in 1..2
  BY <1>1, <1>2 DEF Inv, CallOK, Calls
<1>4. /\ c \in Calls
      /\ c.op = call[p].op /\ c.dir = call[p].dir /\ c.pass = call[p].pass + 1
      /\ c.at = "scan" /\ c.digests = call[p].digests
  <2>1. PICK next \in 0..3 : next = call[p].pass + 1
    BY <1>3
  <2> HIDE DEF c
  <2>2. c = [call[p] EXCEPT !.at = "scan", !.pass = next]
    BY <2>1 DEF c
  <2>3. /\ c \in Calls
        /\ c.op = call[p].op /\ c.dir = call[p].dir /\ c.pass = next
        /\ c.at = "scan" /\ c.digests = call[p].digests
    BY <1>1, <2>2 DEF Calls
  <2> QED
    BY <2>1, <2>3
<1> HIDE DEF c
<1>5. CallOK(p)'
  BY <1>1, <1>2, <1>3, <1>4 DEF CallOK
<1>6. ASSUME mode = "staged"
      PROVE  /\ c.op = "publish" => \A g \in Names : NotChanged(c.digests[g])
             /\ /\ run[p].at = "publishing" /\ c.op = "verify"
                /\ c.pass \in {2, 3} \/ c.at = "hash"
                => Sealed(p)
  BY <1>2, <1>4, <1>6 DEF Inv, StagedInv, Mine
<1> QED
  BY <1>2, <1>4, <1>5, <1>6, CallStep

(* A publication writes a control file of its directory.                   *)
LEMMA ControlStep ==
  ASSUME Inv, NEW p \in Procs, NEW c \in Calls, NEW d \in Dirs,
         call' = [call EXCEPT ![p] = c], UNCHANGED <<run, envVars>>,
         call[p].op = "publish", d = call[p].dir, c.dir = d, CallOK(p)',
         dirs' \in [Dirs -> Directories],
         \A other \in Dirs : other # d => dirs'[other] = dirs[other],
         \A f \in Names : Content(d, f)' = Content(d, f),
         mode = "staged" => Clean(d)',
         \/ c.op = "publish" /\ c.digests = call[p].digests
         \/ c.op = "verify" /\ c.pass = 1 /\ c.at = "scan"
  PROVE  Inv'
<1>1. /\ call'[p] = c
      /\ \A q \in Procs : q # p => run'[q] = run[q] /\ call'[q] = call[q]
  BY DEF Inv, TypeInv
<1>2. TypeInv'
  BY DEF Inv, TypeInv, envVars
<1>3. RunOK(p)'
  BY DEF Inv, RunOK
<1>4. ASSUME mode = "staged"
      PROVE  /\ \A other \in Dirs : other # p => dirs'[other] = dirs[other]
             /\ Mine(p)' /\ Clean(p)'
  <2>1. run[p].at = "publishing" /\ d = p /\ Mine(p)
    BY <1>4 DEF Inv, StagedInv, Mine
  <2>2. run[p].used # "changed" => \A f \in Names : NotChanged(Content(p, f)')
    BY <2>1 DEF Mine
  <2>3. Mine(p)'
    BY <1>1, <2>1, <2>2 DEF Mine, NotChanged, envVars
  <2> QED
    BY <1>4, <2>1, <2>3
<1> QED
  BY <1>1, <1>2, <1>3, <1>4, OwnStep DEF envVars

(* What the manifest lists was hashed in a directory of the bound source.  *)
LEMMA WriteTemporaryKeepsInv ==
  ASSUME Inv, NEW p \in Procs, WriteTemporary(p, "bound"), UNCHANGED <<run, envVars>>
  PROVE  Inv'
<1> DEFINE manifest == [files |-> call[p].digests, about |-> "bound"]
           c == [call[p] EXCEPT !.at = "rename", !.manifest = manifest]
<1>1. call[p] \in Calls /\ call \in [Procs -> Calls] /\ dirs \in [Dirs -> Directories]
  BY DEF Inv, TypeInv
<1>2. PICK d \in Dirs : d = call[p].dir
  BY <1>1 DEF WriteTemporary, Inv, CallOK, Calls
<1>3. /\ call[p].at = "write_manifest" /\ call[p].op = "publish"
      /\ dirs' = [dirs EXCEPT ![d] = Written(dirs[d], "manifest.json.tmp", manifest)]
      /\ call' = [call EXCEPT ![p] = c]
  BY <1>1, <1>2 DEF WriteTemporary, Inv, CallOK
<1>4. manifest \in Manifests /\ manifest.files = call[p].digests
  BY <1>1 DEF Manifests, Calls
<1> HIDE DEF manifest
<1>5. /\ c \in Calls /\ c.op = call[p].op /\ c.dir = d /\ c.at = "rename"
      /\ c.digests = call[p].digests
  BY <1>1, <1>2, <1>4 DEF Calls
<1> HIDE DEF c
<1>6. CallOK(p)'
  BY <1>1, <1>3, <1>5 DEF CallOK
<1>7. /\ dirs' \in [Dirs -> Directories]
      /\ \A other \in Dirs : other # d => dirs'[other] = dirs[other]
      /\ \A g \in Entries :
           Content(d, g)' = IF g = "manifest.json.tmp" THEN manifest ELSE Content(d, g)
  <2>1. manifest \in ContentsOf("manifest.json.tmp")
    BY <1>4, ControlFacts DEF ContentsOf
  <2> QED
    BY <1>3, <2>1, ControlFacts, WriteFacts, ZenonT(60)
<1>8. \A f \in Names : Content(d, f)' = Content(d, f)
  BY <1>7, ControlFacts
<1>9. ASSUME mode = "staged"
      PROVE  Clean(d)'
  <2>1. Clean(d) /\ \A f \in Names : NotChanged(manifest.files[f])
    BY <1>3, <1>4, <1>9 DEF Inv, StagedInv, Mine
  <2> QED
    BY <1>7, <2>1, ControlFacts DEF Clean, Exists, NotChanged
<1> QED
  BY <1>2, <1>3, <1>5, <1>6, <1>7, <1>8, <1>9, ControlStep

LEMMA RenameManifestKeepsInv ==
  ASSUME Inv, NEW p \in Procs, RenameManifest(p), UNCHANGED <<run, envVars>>
  PROVE  Inv'
<1> DEFINE c == [call[p] EXCEPT !.at = "marker"]
<1>1. call[p] \in Calls /\ call \in [Procs -> Calls] /\ dirs \in [Dirs -> Directories]
  BY DEF Inv, TypeInv
<1>2. PICK d \in Dirs : d = call[p].dir
  BY <1>1 DEF RenameManifest, Inv, CallOK, Calls
<1> DEFINE temporary == Content(d, "manifest.json.tmp")
           moved == Written(dirs[d], "manifest.json", temporary)
           after == Written(moved, "manifest.json.tmp", None)
<1>3. /\ call[p].at = "rename" /\ call[p].op = "publish"
      /\ dirs' = [dirs EXCEPT ![d] = after]
      /\ call' = [call EXCEPT ![p] = c]
  BY <1>1, <1>2 DEF RenameManifest, Inv, CallOK
<1>4. /\ c \in Calls /\ c.op = call[p].op /\ c.dir = d /\ c.at = "marker"
      /\ c.digests = call[p].digests
  BY <1>1, <1>2 DEF Calls
<1> HIDE DEF c
<1>5. CallOK(p)'
  BY <1>1, <1>3, <1>4 DEF CallOK
<1>6. /\ after \in Directories
      /\ \A g \in Entries : after.entry[g].content =
           IF g = "manifest.json.tmp" THEN None
           ELSE IF g = "manifest.json" THEN temporary ELSE Content(d, g)
  <2>1. temporary \in ContentsOf("manifest.json")
    BY <1>1, ControlFacts DEF Content, Directories, ContentsOf
  <2> HIDE DEF temporary
  <2>2. /\ moved \in Directories
        /\ \A g \in Entries : moved.entry[g].content =
             IF g = "manifest.json" THEN temporary ELSE Content(d, g)
    BY <1>1, <2>1, ControlFacts, WrittenFacts DEF Content
  <2> HIDE DEF moved
  <2>3. None \in ContentsOf("manifest.json.tmp")
    BY DEF ContentsOf
  <2> QED
    BY <2>2, <2>3, ControlFacts, WrittenFacts
<1> HIDE DEF after
<1>7. /\ dirs' \in [Dirs -> Directories]
      /\ \A other \in Dirs : other # d => dirs'[other] = dirs[other]
      /\ dirs'[d] = after
  BY <1>1, <1>3, <1>6
<1>8. \A g \in Entries : Content(d, g)' =
           IF g = "manifest.json.tmp" THEN None
           ELSE IF g = "manifest.json" THEN temporary ELSE Content(d, g)
  BY <1>6, <1>7 DEF Content
<1>9. \A f \in Names : Content(d, f)' = Content(d, f)
  BY <1>8, ControlFacts
<1>10. ASSUME mode = "staged"
       PROVE  Clean(d)'
  <2>1. Clean(d)
    BY <1>10 DEF Inv, StagedInv
  <2> QED
    BY <1>8, <2>1, ControlFacts DEF Clean, Exists
<1> QED
  BY <1>2, <1>3, <1>4, <1>5, <1>7, <1>9, <1>10, ControlStep

LEMMA WriteMarkerKeepsInv ==
  ASSUME Inv, NEW p \in Procs, WriteMarker(p), UNCHANGED <<run, envVars>>
  PROVE  Inv'
<1>1. call[p] \in Calls /\ call \in [Procs -> Calls] /\ dirs \in [Dirs -> Directories]
  BY DEF Inv, TypeInv
<1>2. PICK d \in Dirs : d = call[p].dir
  BY <1>1 DEF WriteMarker, Inv, CallOK, Calls
<1> DEFINE manifest == call[p].manifest
           c == Opened("verify", d, manifest)
<1>3. /\ call[p].at = "marker" /\ call[p].op = "publish"
      /\ dirs' = [dirs EXCEPT ![d] = Written(dirs[d], "_SUCCESS", manifest)]
      /\ call' = [call EXCEPT ![p] = c]
  BY <1>1, <1>2 DEF WriteMarker, Inv, CallOK
<1>4. manifest \in Manifests \cup {None}
  BY <1>1 DEF Calls
<1>5. /\ c \in Calls /\ c.op = "verify" /\ c.dir = d /\ c.at = "scan" /\ c.pass = 1
  BY <1>4, OpenedFacts
<1> HIDE DEF c, manifest
<1>6. CallOK(p)'
  BY <1>1, <1>3, <1>5 DEF CallOK
<1>7. /\ dirs' \in [Dirs -> Directories]
      /\ \A other \in Dirs : other # d => dirs'[other] = dirs[other]
      /\ \A g \in Entries :
           Content(d, g)' = IF g = "_SUCCESS" THEN manifest ELSE Content(d, g)
  <2>1. manifest \in ContentsOf("_SUCCESS")
    BY <1>4, ControlFacts DEF ContentsOf
  <2> QED
    BY <1>3, <2>1, ControlFacts, WriteFacts, ZenonT(60)
<1>8. \A f \in Names : Content(d, f)' = Content(d, f)
  BY <1>7, ControlFacts
<1>9. mode = "staged" => Clean(d)'
  BY <1>7, ControlFacts DEF Inv, StagedInv, Clean, Exists
<1> QED
  BY <1>2, <1>3, <1>5, <1>6, <1>7, <1>8, <1>9, ControlStep

LEMMA LineageKeepsInv ==
  ASSUME Inv, NEW p \in Procs, Lineage(p)
  PROVE  Inv'
<1>1. UNCHANGED <<run, envVars>> /\ LineageStep(p, "bound")
  BY DEF Lineage
<1>2. CASE Scan(p)
  BY <1>1, <1>2, ScanKeepsInv
<1>3. CASE ReadManifest(p)
  BY <1>1, <1>3, ReadManifestKeepsInv
<1>4. CASE \E f \in Names : HashFile(p, f)
  BY <1>1, <1>4, HashFileKeepsInv
<1>5. CASE EndHash(p)
  BY <1>1, <1>5, EndHashKeepsInv
<1>6. CASE WriteTemporary(p, "bound")
  BY <1>1, <1>6, WriteTemporaryKeepsInv
<1>7. CASE RenameManifest(p)
  BY <1>1, <1>7, RenameManifestKeepsInv
<1>8. CASE WriteMarker(p)
  BY <1>1, <1>8, WriteMarkerKeepsInv
<1> QED
  BY <1>1, <1>2, <1>3, <1>4, <1>5, <1>6, <1>7, <1>8 DEF LineageStep

-----------------------------------------------------------------------------
(* What is moved into place is sealed, and its manifest is clean.          *)
LEMMA PlaceKeepsInv ==
  ASSUME Inv, NEW p \in Procs, Place(p)
  PROVE  Inv'
<1>1. call[p] \in Calls /\ call \in [Procs -> Calls] /\ dirs \in [Dirs -> Directories]
  BY DEF Inv, TypeInv
<1>2. PICK o \in {Out, Other}, target \in Dirs : o = Output(p) /\ target = Target(p)
  BY OutputIsOut, TargetFacts
<1> DEFINE c == Opened("verify", o, call[p].manifest)
<1>3. /\ run[p].at = "place" /\ GoTo(p, "confirm")
      /\ dirs' = [dirs EXCEPT ![o] = dirs[target], ![target] = EmptyDir]
      /\ call' = [call EXCEPT ![p] = c]
      /\ UNCHANGED envVars
  BY <1>2 DEF Place
<1>4. c \in Calls /\ c.op = "verify" /\ c.dir \in Dirs /\ c.pass = 1 /\ c.at = "scan"
  BY <1>1, <1>2, DirFacts, OpenedFacts DEF Calls
<1> HIDE DEF c
<1>5. "confirm" \in RunPoints
  BY DEF RunPoints
<1>6. /\ run' \in [Procs -> Runs]
      /\ \A q \in Procs : q # p => run'[q] = run[q] /\ call'[q] = call[q]
      /\ run'[p].at = "confirm" /\ run'[p].used = run[p].used
      /\ call' \in [Procs -> Calls] /\ call'[p] = c
  <2>1. /\ run' \in [Procs -> Runs]
        /\ \A q \in Procs : q # p => run'[q] = run[q]
        /\ run'[p].at = "confirm" /\ run'[p].used = run[p].used
    BY <1>3, <1>5, Unmoved
  <2> QED
    BY <1>1, <1>3, <1>4, <2>1
<1>7. dirs' \in [Dirs -> Directories]
  BY <1>1, <1>2, <1>3, DirFacts, EmptyFacts
<1>8. TypeInv'
  BY <1>3, <1>6, <1>7 DEF Inv, TypeInv, envVars
<1>9. \A q \in Procs : CallOK(q)' /\ RunOK(q)'
  BY <1>3, <1>4, <1>6 DEF Inv, CallOK, RunOK
<1>10. ASSUME mode = "staged"
       PROVE  /\ \A q \in Procs : Mine(q)'
              /\ \A d \in Dirs : Clean(d)'
              /\ \A d \in {Out, Other} : OutputOK(d)'
  <2>1. target = p /\ o \in Dirs /\ o # p /\ o \notin Procs
    BY <1>2, <1>10, DirFacts, TargetFacts
  <2>2. /\ dirs'[p] = EmptyDir /\ dirs'[o] = dirs[p]
        /\ \A d \in Dirs : d \notin {p, o} => dirs'[d] = dirs[d]
    BY <1>1, <1>3, <2>1, DirFacts
  <2>3. \A g \in Entries : Content(p, g)' = None
    BY <2>2, EmptyFacts DEF Content
  <2>4. Mine(p)'
    BY <1>3, <1>4, <1>6, <1>10, <2>3, ControlFacts
    DEF Inv, StagedInv, Mine, NotChanged, envVars
  <2>5. ASSUME NEW q \in Procs, q # p
        PROVE  Mine(q)'
    <3>1. dirs'[q] = dirs[q] /\ Mine(q)
      BY <1>10, <2>1, <2>2, <2>5, DirFacts DEF Inv, StagedInv
    <3> QED
      BY <1>3, <1>6, <2>5, <3>1
      DEF Mine, Sealed, Published, NonEmpty, Exists, Content, envVars
  <2>6. \A d \in Dirs : Clean(d)'
    <3>1. Clean(p)'
      BY <2>3, ControlFacts DEF Clean, Exists
    <3>2. Clean(o)'
      BY <1>10, <2>1, <2>2, DirFacts DEF Inv, StagedInv, Clean, Exists, Content
    <3>3. \A d \in Dirs : d \notin {p, o} => Clean(d)'
      BY <1>10, <2>2 DEF Inv, StagedInv, Clean, Exists, Content
    <3> QED
      BY <3>1, <3>2, <3>3
  <2>7. \A d \in {Out, Other} : OutputOK(d)'
    <3>1. Sealed(p)
      BY <1>3, <1>10 DEF Inv, StagedInv, Mine
    <3>2. Sealed(o)'
      BY <2>2, <3>1 DEF Sealed, Published, Exists, Content
    <3>3. \A d \in {Out, Other} : d # o => dirs'[d] = dirs[d] /\ OutputOK(d)
      BY <1>10, <2>2, DirFacts DEF Inv, StagedInv
    <3> QED
      BY <3>2, <3>3 DEF OutputOK, Sealed, Published, NonEmpty, Exists, Content
  <2> QED
    BY <2>4, <2>5, <2>6, <2>7
<1> QED
  BY <1>3, <1>8, <1>9, <1>10 DEF Inv, StagedInv, envVars

(* A run that ends without an artifact leaves an empty temporary.          *)
LEMMA AbandonKeepsInv ==
  ASSUME Inv, NEW p \in Procs, NEW r \in Runs,
         r.at \in {"failed", "idle"}, r.used = "changed" => run[p].used = "changed",
         run' = [run EXCEPT ![p] = r], call' = [call EXCEPT ![p] = NoCall],
         dirs' = dirs \/ dirs' = [dirs EXCEPT ![p] = EmptyDir],
         mode = "staged" => dirs' = [dirs EXCEPT ![p] = EmptyDir],
         mode' = mode, inputs' = inputs,
         events' \in [payload : Nat, silent : Nat, crashes : Nat, inputs : Nat]
  PROVE  Inv'
<1>1. /\ run' \in [Procs -> Runs] /\ run'[p] = r
      /\ call' \in [Procs -> Calls] /\ call'[p] = NoCall
      /\ \A q \in Procs : q # p => run'[q] = run[q] /\ call'[q] = call[q]
  BY NoCallFacts DEF Inv, TypeInv
<1>2. dirs' \in [Dirs -> Directories]
  BY EmptyFacts DEF Inv, TypeInv
<1>3. TypeInv'
  BY <1>1, <1>2 DEF Inv, TypeInv
<1>4. CallOK(p)' /\ RunOK(p)'
  BY <1>1, NoCallFacts DEF CallOK, RunOK
<1>5. ASSUME mode = "staged"
      PROVE  /\ \A d \in Dirs : d # p => dirs'[d] = dirs[d]
             /\ Mine(p)' /\ Clean(p)'
  <2>1. /\ \A d \in Dirs : d # p => dirs'[d] = dirs[d]
        /\ dirs'[p] = EmptyDir
    BY <1>5, DirFacts DEF Inv, TypeInv
  <2>2. \A g \in Entries : Content(p, g)' = None
    BY <2>1, EmptyFacts DEF Content
  <2>3. Clean(p)'
    BY <2>2, ControlFacts DEF Clean, Exists
  <2>4. ~NonEmpty(p)'
    BY <2>2 DEF NonEmpty, Exists
  <2>5. Mine(p)'
    BY <1>1, <1>5, <2>2, <2>4, ControlFacts, NoCallFacts
    DEF Inv, StagedInv, Mine, NotChanged
  <2> QED
    BY <2>1, <2>3, <2>5
<1> QED
  BY <1>1, <1>3, <1>4, <1>5, OwnStep

LEMMA FailKeepsInv ==
  ASSUME Inv, NEW p \in Procs, Fail(p)
  PROVE  Inv'
<1> DEFINE r == [run[p] EXCEPT !.at = "failed"]
<1>1. "failed" \in RunPoints
  BY DEF RunPoints
<1>2. /\ r \in Runs /\ r.at = "failed" /\ r.used = run[p].used
      /\ run' = [run EXCEPT ![p] = r]
  BY <1>1 DEF Fail, GoTo, Inv, TypeInv, Runs
<1> HIDE DEF r
<1>3. /\ call' = [call EXCEPT ![p] = NoCall]
      /\ UNCHANGED envVars
      /\ mode = "staged" => dirs' = [dirs EXCEPT ![p] = EmptyDir]
      /\ dirs' = dirs \/ dirs' = [dirs EXCEPT ![p] = EmptyDir]
  BY TargetFacts DEF Fail
<1>4. events' \in [payload : Nat, silent : Nat, crashes : Nat, inputs : Nat]
  BY <1>3 DEF Inv, TypeInv, envVars
<1> QED
  BY <1>2, <1>3, <1>4, AbandonKeepsInv DEF envVars

LEMMA CrashKeepsInv ==
  ASSUME Inv, NEW p \in Procs, Crash(p)
  PROVE  Inv'
<1>1. Idle \in Runs /\ Idle.at = "idle" /\ Idle.used # "changed"
  BY PublicationAssumption DEF Idle, Runs, RunPoints
<1>2. /\ run' = [run EXCEPT ![p] = Idle] /\ call' = [call EXCEPT ![p] = NoCall]
      /\ dirs' = [dirs EXCEPT ![p] = EmptyDir]
      /\ mode' = mode /\ inputs' = inputs
  BY DEF Crash
<1>3. events' \in [payload : Nat, silent : Nat, crashes : Nat, inputs : Nat]
  BY DEF Crash, Inv, TypeInv
<1> QED
  BY <1>1, <1>2, <1>3, AbandonKeepsInv

-----------------------------------------------------------------------------
(* Someone else's doings.                                                  *)
(* Nothing in the directories moves and no source becomes the bound one.   *)
LEMMA UntouchedKeepsStagedInv ==
  ASSUME Inv, UNCHANGED <<lineageVars, mode, run>>,
         inputs.source = "changed" => inputs'.source = "changed"
  PROVE  StagedInv'
<1>1. dirs' = dirs /\ call' = call /\ run' = run /\ mode' = mode
  BY DEF lineageVars
<1>2. ASSUME NEW p \in Procs, Mine(p)
      PROVE  Mine(p)'
  BY <1>1, <1>2
  DEF Mine, Sealed, Published, NonEmpty, Exists, Content, NotChanged
<1>3. ASSUME NEW d \in Dirs, Clean(d)
      PROVE  Clean(d)'
  BY <1>1, <1>3 DEF Clean, Exists, Content, NotChanged
<1>4. ASSUME NEW d \in Dirs, OutputOK(d)
      PROVE  OutputOK(d)'
  BY <1>1, <1>4 DEF OutputOK, Sealed, Published, NonEmpty, Exists, Content
<1>5. Out \in Dirs /\ Other \in Dirs
  BY DirFacts
<1> QED
  BY <1>1, <1>2, <1>3, <1>4, <1>5 DEF Inv, StagedInv

LEMMA ChangeInputsKeepsInv ==
  ASSUME Inv, ChangeInputs
  PROVE  Inv'
<1>1. /\ UNCHANGED <<lineageVars, mode, run>>
      /\ inputs' \in [code : {"bound", "changed"}, source : {"bound", "changed"}]
      /\ inputs.source = "changed" => inputs'.source = "changed"
      /\ events' \in [payload : Nat, silent : Nat, crashes : Nat, inputs : Nat]
  BY DEF ChangeInputs, Inv, TypeInv
<1>2. TypeInv'
  BY <1>1 DEF Inv, TypeInv, lineageVars
<1>3. \A p \in Procs : CallOK(p)' /\ RunOK(p)'
  BY <1>1 DEF Inv, CallOK, RunOK, lineageVars
<1>4. StagedInv'
  BY <1>1, UntouchedKeepsStagedInv
<1> QED
  BY <1>2, <1>3, <1>4 DEF Inv

LEMMA EditCounts ==
  ASSUME Inv, NEW d \in Dirs, NEW f \in Names, EditPayload(d, f)
  PROVE  /\ events' \in [payload : Nat, silent : Nat, crashes : Nat, inputs : Nat]
         /\ events'.payload # events.payload
<1>1. events \in [payload : Nat, silent : Nat, crashes : Nat, inputs : Nat]
  BY DEF Inv, TypeInv
<1>2. PICK n \in Nat, m \in Nat : n = events.payload + 1 /\ m = events.silent + 1
  BY <1>1
<1>3. n # events.payload
  BY <1>1, <1>2
<1>4. \/ events' = [events EXCEPT !.payload = n]
      \/ events' = [events EXCEPT !.payload = n, !.silent = m]
  BY <1>2 DEF EditPayload
<1>5. CASE events' = [events EXCEPT !.payload = n]
  BY <1>1, <1>3, <1>5
<1>6. CASE events' = [events EXCEPT !.payload = n, !.silent = m]
  BY <1>1, <1>3, <1>6
<1> QED
  BY <1>4, <1>5, <1>6

LEMMA EditFacts ==
  ASSUME Inv, NEW d \in Dirs, NEW f \in Names, EditPayload(d, f)
  PROVE  /\ dirs' \in [Dirs -> Directories]
         /\ \A other \in Dirs : other # d => dirs'[other] = dirs[other]
         /\ \A g \in Entries : g # f => Content(d, g)' = Content(d, g)
         /\ Content(d, f)' \in {Edited, None}
<1>1. f \in Entries
  BY ControlFacts
<1>2. /\ Edited \in ContentsOf(f) /\ None \in ContentsOf(f)
  BY DEF Edited, Contents, ContentsOf
<1>3. dirs \in [Dirs -> Directories] /\ dirs[d] \in Directories
  BY DEF Inv, TypeInv
<1>4. PICK content \in {Edited, None} :
        dirs' = [dirs EXCEPT ![d] = Written(dirs[d], f, content)]
          \/ dirs' = [dirs EXCEPT ![d] = SilentlyWritten(dirs[d], f, content)]
  BY <1>3 DEF EditPayload
<1>5. content \in ContentsOf(f)
  BY <1>2, <1>4
<1>6. CASE dirs' = [dirs EXCEPT ![d] = Written(dirs[d], f, content)]
  <2>1. /\ dirs' \in [Dirs -> Directories]
        /\ \A other \in Dirs : other # d => dirs'[other] = dirs[other]
        /\ \A g \in Entries : Content(d, g)' = IF g = f THEN content ELSE Content(d, g)
    BY <1>1, <1>5, <1>6, WriteFacts
  <2> QED
    BY <1>1, <2>1
<1>7. CASE dirs' = [dirs EXCEPT ![d] = SilentlyWritten(dirs[d], f, content)]
  <2> DEFINE w == SilentlyWritten(dirs[d], f, content)
  <2>1. /\ w \in Directories
        /\ \A g \in Entries : w.entry[g].content =
                               IF g = f THEN content ELSE dirs[d].entry[g].content
    BY <1>1, <1>3, <1>5, SilentlyWrittenFacts
  <2>2. dirs' = [dirs EXCEPT ![d] = w]
    BY <1>7
  <2> HIDE DEF w
  <2>3. /\ dirs' \in [Dirs -> Directories] /\ dirs'[d] = w
        /\ \A other \in Dirs : other # d => dirs'[other] = dirs[other]
    BY <1>3, <2>1, <2>2
  <2> QED
    BY <1>1, <2>1, <2>3 DEF Content
<1> QED
  BY <1>4, <1>6, <1>7

LEMMA EditPayloadKeepsInv ==
  ASSUME Inv, NEW d \in Dirs, NEW f \in Names, EditPayload(d, f)
  PROVE  Inv'
<1>1. f \in Entries
  BY ControlFacts
<1>2. /\ Edited \in Contents /\ Edited.from # "changed"
      /\ Edited \in ContentsOf(f) /\ None \in ContentsOf(f)
  BY DEF Edited, Contents, ContentsOf
<1>3. /\ UNCHANGED <<call, mode, inputs, run>>
      /\ events' \in [payload : Nat, silent : Nat, crashes : Nat, inputs : Nat]
      /\ Exists(d, f)
  BY EditCounts DEF EditPayload
<1>4. dirs \in [Dirs -> Directories] /\ dirs[d] \in Directories
  BY DEF Inv, TypeInv
<1>5. /\ dirs' \in [Dirs -> Directories]
      /\ \A other \in Dirs : other # d => dirs'[other] = dirs[other]
      /\ \A g \in Entries : g # f => Content(d, g)' = Content(d, g)
      /\ Content(d, f)' \in {Edited, None}
  BY EditFacts
<1>6. TypeInv'
  BY <1>3, <1>5 DEF Inv, TypeInv
<1>7. \A p \in Procs : CallOK(p)' /\ RunOK(p)'
  BY <1>3 DEF Inv, CallOK, RunOK
<1>8. \A e \in {"manifest.json", "manifest.json.tmp", "_SUCCESS"}, other \in Dirs :
        Content(other, e)' = Content(other, e)
  BY <1>5, ControlFacts DEF Content
<1>9. \A other \in Dirs : NonEmpty(other)' => NonEmpty(other)
  <2>1. NonEmpty(d)
    BY <1>1, <1>3 DEF NonEmpty
  <2>2. \A other \in Dirs : other # d => (NonEmpty(other)' => NonEmpty(other))
    BY <1>5 DEF NonEmpty, Exists, Content
  <2> QED
    BY <2>1, <2>2
<1>10. \A other \in Dirs : Sealed(other) => Sealed(other)'
  BY <1>8 DEF Sealed, Published, Exists
<1>11. ASSUME mode = "staged"
       PROVE  /\ \A q \in Procs : Mine(q)'
              /\ \A other \in Dirs : Clean(other)'
              /\ \A other \in {Out, Other} : OutputOK(other)'
  <2>1. \A other \in Dirs : Clean(other)'
    BY <1>8, <1>11 DEF Inv, StagedInv, Clean, Exists
  <2>2. \A other \in {Out, Other} : OutputOK(other)'
    BY <1>9, <1>10, <1>11, DirFacts DEF Inv, StagedInv, OutputOK
  <2>3. ASSUME NEW q \in Procs
        PROVE  Mine(q)'
    <3>1. Mine(q) /\ q \in Dirs
      BY <1>11, DirFacts DEF Inv, StagedInv
    <3>2. ASSUME run[q].used # "changed", NEW g \in Names
          PROVE  NotChanged(Content(q, g)')
      <4>1. CASE q = d /\ g = f
        BY <1>2, <1>5, <4>1 DEF NotChanged
      <4>2. CASE ~(q = d /\ g = f)
        <5>1. Content(q, g)' = Content(q, g)
          BY <1>5, <3>1, <4>2, ControlFacts DEF Content
        <5> QED
          BY <3>1, <3>2, <5>1 DEF Mine
      <4> QED
        BY <4>1, <4>2
    <3> QED
      BY <1>3, <1>9, <1>10, <3>1, <3>2 DEF Mine, NotChanged
  <2> QED
    BY <2>1, <2>2, <2>3
<1> QED
  BY <1>3, <1>6, <1>7, <1>11 DEF Inv, StagedInv

-----------------------------------------------------------------------------
LEMMA ProcStepKeepsInv ==
  ASSUME Inv, NEW p \in Procs, ProcStep(p)
  PROVE  Inv'
<1>1. CASE BindInputs(p)
  BY <1>1, BindInputsKeepsInv
<1>2. CASE ReadSource(p)
  BY <1>2, ReadSourceKeepsInv
<1>3. CASE FindExisting(p)
  BY <1>3, FindExistingKeepsInv
<1>4. CASE RefuseLeftovers(p)
  BY <1>4, RefuseLeftoversKeepsInv
<1>5. CASE Execute(p)
  BY <1>5, ExecuteKeepsInv
<1>6. CASE Recheck(p)
  BY <1>6, RecheckKeepsInv
<1>7. CASE \E f \in Names : Truncate(p, f) \/ Fill(p, f)
  BY <1>7, TruncateKeepsInv, FillKeepsInv
<1>8. CASE BeginPublish(p)
  BY <1>8, BeginPublishKeepsInv
<1>9. CASE Lineage(p)
  BY <1>9, LineageKeepsInv
<1>10. CASE PublishReturned(p)
  BY <1>10, PublishReturnedKeepsInv
<1>11. CASE Place(p)
  BY <1>11, PlaceKeepsInv
<1>12. CASE Return(p)
  BY <1>12, ReturnKeepsInv
<1>13. CASE Fail(p)
  BY <1>13, FailKeepsInv
<1> QED
  BY <1>1, <1>2, <1>3, <1>4, <1>5, <1>6, <1>7, <1>8, <1>9, <1>10, <1>11, <1>12, <1>13
  DEF ProcStep

LEMMA NextKeepsInv ==
  ASSUME Inv, [Next]_vars
  PROVE  Inv'
<1>1. CASE \E p \in Procs : ProcStep(p) \/ Crash(p)
  BY <1>1, ProcStepKeepsInv, CrashKeepsInv
<1>2. CASE ChangeInputs
  BY <1>2, ChangeInputsKeepsInv
<1>3. CASE \E d \in Dirs, f \in Names : EditPayload(d, f)
  BY <1>3, EditPayloadKeepsInv
<1>4. CASE UNCHANGED vars
  <2>1. UNCHANGED <<lineageVars, mode, inputs, run, events>>
    BY <1>4 DEF vars
  <2>2. TypeInv'
    BY <2>1 DEF lineageVars, Inv, TypeInv
  <2>3. \A p \in Procs : CallOK(p)' /\ RunOK(p)'
    BY <2>1 DEF lineageVars, Inv, CallOK, RunOK
  <2>4. StagedInv'
    BY <2>1, UntouchedKeepsStagedInv
  <2> QED
    BY <2>2, <2>3, <2>4 DEF Inv
<1> QED
  BY <1>1, <1>2, <1>3, <1>4 DEF Next

(* Every reachable state has the types, and what a staged run has in its   *)
(* own directory is what its checks have found there.                      *)
THEOREM Safety == Spec => []Inv
<1>1. Init => Inv
  BY InitInv
<1>2. Inv /\ [Next]_vars => Inv'
  BY NextKeepsInv
<1> QED
  BY <1>1, <1>2, PTL DEF Spec

(* run_stage2_source checks its inputs after it has computed: the artifact *)
(* in an output directory was computed from the source it names.           *)
THEOREM SourceIsTheBoundOne == Spec => []BoundSourceIsUsed
<1>1. ASSUME Inv
      PROVE  BoundSourceIsUsed
  <2> SUFFICES ASSUME NEW d \in {Out, Other}, NEW f \in Names,
                      mode = "staged", Published(d)
               PROVE  LET manifest == Content(d, "manifest.json")
                      IN manifest.files[f] # None
                           /\ manifest.files[f].from \in {"bound", "changed"}
                         => manifest.files[f].from = manifest.about
    BY DEF BoundSourceIsUsed
  <2> DEFINE manifest == Content(d, "manifest.json")
  <2>1. d \in Dirs /\ dirs[d] \in Directories
    BY <1>1, DirFacts DEF Inv, TypeInv
  <2>2. NonEmpty(d)
    BY ControlFacts DEF NonEmpty, Published
  <2>3. Sealed(d) /\ Clean(d)
    BY <1>1, <2>1, <2>2 DEF Inv, StagedInv, OutputOK
  <2>4. manifest # None
    BY <2>3 DEF Sealed, Published, Exists
  <2>5. manifest \in ContentsOf("manifest.json")
    BY <2>1, ControlFacts DEF Content, Directories
  <2>6. manifest \in Manifests
    BY <2>4, <2>5, ControlFacts DEF ContentsOf
  <2>7. manifest.about = "bound"
    BY <2>6 DEF Manifests
  <2>8. NotChanged(manifest.files[f])
    BY <2>3, <2>4 DEF Clean, Exists
  <2> QED
    BY <2>7, <2>8 DEF NotChanged
<1> QED
  BY <1>1, Safety, PTL

LEMMA NextKeepsMode ==
  ASSUME [Next]_vars
  PROVE  mode' = mode
BY DEF Next, ProcStep, Crash, ChangeInputs, EditPayload, BindInputs, ReadSource,
       FindExisting, RefuseLeftovers, Execute, Recheck, Truncate, Fill, BeginPublish,
       Lineage, PublishReturned, Place, Return, Fail, envVars, vars

(* A step that changes a sealed output directory of a stage run is someone *)
(* else's edit of a payload file.                                          *)
LEMMA SealedStays ==
  ASSUME Inv, [Next]_vars, mode = "staged", NEW d \in {Out, Other}, NonEmpty(d)
  PROVE  \/ dirs'[d] = dirs[d]
         \/ /\ EditByOthers
            /\ Sealed(d) /\ Sealed(d)'
            /\ Content(d, "manifest.json")' = Content(d, "manifest.json")
<1>1. dirs \in [Dirs -> Directories] /\ d \in Dirs /\ d \notin Procs /\ Sealed(d)
  BY DirFacts DEF Inv, TypeInv, StagedInv, OutputOK
<1>2. CASE dirs' = dirs
  BY <1>2
<1>3. ASSUME NEW p \in Procs, Lineage(p), dirs' # dirs
      PROVE  dirs'[d] = dirs[d]
  <2>1. call[p].at \in {"write_manifest", "rename", "marker"}
    BY <1>3 DEF Lineage, LineageStep, Scan, ReadManifest, HashFile, EndHash,
                WriteTemporary, RenameManifest, WriteMarker
  <2>2. call[p].dir = p
    BY <2>1 DEF Inv, CallOK, StagedInv, Mine
  <2> QED
    BY <1>1, <1>3, <2>2 DEF Lineage, LineageStep, Scan, ReadManifest, HashFile, EndHash,
                            WriteTemporary, RenameManifest, WriteMarker
<1>4. ASSUME NEW p \in Procs, ProcStep(p), dirs' # dirs
      PROVE  dirs'[d] = dirs[d]
  <2>1. Target(p) = p
    BY TargetFacts
  <2>2. CASE \E f \in Names : Truncate(p, f) \/ Fill(p, f)
    BY <1>1, <2>1, <2>2 DEF Truncate, Fill
  <2>3. CASE Lineage(p)
    BY <1>3, <1>4, <2>3
  <2>4. CASE Place(p)
    <3>1. Output(p) # d
      BY <2>4 DEF Place
    <3> QED
      BY <1>1, <2>1, <2>4, <3>1 DEF Place
  <2>5. CASE Fail(p)
    BY <1>1, <2>1, <2>5 DEF Fail
  <2>6. CASE \/ BindInputs(p) \/ ReadSource(p) \/ FindExisting(p) \/ RefuseLeftovers(p)
             \/ Execute(p) \/ Recheck(p) \/ BeginPublish(p) \/ PublishReturned(p)
             \/ Return(p)
    BY <1>4, <2>6 DEF BindInputs, ReadSource, FindExisting, RefuseLeftovers, Execute,
                      Recheck, BeginPublish, PublishReturned, Return, lineageVars
  <2> QED
    BY <1>4, <2>2, <2>3, <2>4, <2>5, <2>6 DEF ProcStep
<1>5. ASSUME NEW p \in Procs, Crash(p)
      PROVE  dirs'[d] = dirs[d]
  BY <1>1, <1>5 DEF Crash
<1>6. ASSUME NEW e \in Dirs, NEW f \in Names, EditPayload(e, f)
      PROVE  /\ EditByOthers
             /\ Sealed(d)'
             /\ Content(d, "manifest.json")' = Content(d, "manifest.json")
  <2>1. EditByOthers
    BY <1>6, EditCounts DEF EditByOthers
  <2>2. \A g \in Entries : g # f => Content(d, g)' = Content(d, g)
    <3>1. CASE d = e
      BY <1>6, <3>1, EditFacts
    <3>2. CASE d # e
      <4>1. dirs'[d] = dirs[d]
        BY <1>1, <1>6, <3>2, EditFacts
      <4> QED
        BY <4>1 DEF Content
    <3> QED
      BY <3>1, <3>2
  <2> QED
    BY <1>1, <2>1, <2>2, ControlFacts DEF Sealed, Published, Exists
<1> QED
  BY <1>1, <1>2, <1>4, <1>5, <1>6 DEF Next, vars, lineageVars, ChangeInputs

(* docs/architecture.md:176, of the stage runners: no step of any run, a   *)
(* crash included, changes a directory that has its marker.                *)
THEOREM PublishedStaysPut == Spec => StagedIsImmutable
<1>1. ASSUME Inv, [Next]_vars, NEW d \in {Out, Other}, mode = "staged", Published(d)
      PROVE  dirs'[d] = dirs[d] \/ EditByOthers
  <2>1. NonEmpty(d)
    BY <1>1, ControlFacts DEF NonEmpty, Published
  <2> QED
    BY <1>1, <2>1, SealedStays
<1>2. Inv /\ [Next]_vars =>
        [\A d \in {Out, Other} :
           mode = "staged" /\ Published(d) => dirs'[d] = dirs[d] \/ EditByOthers]_vars
  BY <1>1
<1> QED
  BY <1>2, Safety, PTL DEF Spec, StagedIsImmutable

(* To a reader of the output directory, a stage run publishes manifest and *)
(* marker in one step, and neither ever changes.                           *)
THEOREM ImplementsThePromise == Spec => ImplementsPromise
<1>1. Init => Promise!Init
  <2> SUFFICES ASSUME Init
               PROVE  Artifact(Out) = None
    BY DEF Promise!Init
  <2>1. ~NonEmpty(Out)
    BY DirFacts, EmptyFacts DEF Init, NonEmpty, Exists, Content
  <2> QED
    BY <2>1 DEF Artifact
<1>2. ASSUME Inv, [Next]_vars
      PROVE  [Promise!Next]_(Artifact(Out))
  <2>1. mode' = mode /\ Inv'
    BY <1>2, NextKeepsInv, NextKeepsMode
  <2>2. CASE mode # "staged"
    BY <2>1, <2>2 DEF Artifact
  <2>3. CASE mode = "staged" /\ NonEmpty(Out)
    <3>1. \/ dirs'[Out] = dirs[Out]
          \/ /\ Sealed(Out) /\ Sealed(Out)'
             /\ Content(Out, "manifest.json")' = Content(Out, "manifest.json")
      BY <1>2, <2>3, SealedStays
    <3>2. CASE dirs'[Out] = dirs[Out]
      BY <2>1, <3>2 DEF Artifact, NonEmpty, Exists, Content
    <3>3. CASE /\ Sealed(Out) /\ Sealed(Out)'
               /\ Content(Out, "manifest.json")' = Content(Out, "manifest.json")
      <4>1. NonEmpty(Out)'
        BY <3>3, ControlFacts DEF NonEmpty, Sealed, Published
      <4>2. Content(Out, "_SUCCESS")' = Content(Out, "_SUCCESS")
        BY <3>3 DEF Sealed
      <4> QED
        BY <2>1, <2>3, <3>3, <4>1, <4>2 DEF Artifact
    <3> QED
      BY <3>1, <3>2, <3>3
  <2>4. CASE mode = "staged" /\ ~NonEmpty(Out)
    <3>1. Artifact(Out) = None
      BY <2>4 DEF Artifact
    <3>2. CASE ~NonEmpty(Out)'
      BY <2>1, <3>1, <3>2 DEF Artifact
    <3>3. CASE NonEmpty(Out)'
      <4>1. Sealed(Out)'
        BY <2>1, <2>4, <3>3 DEF Inv, StagedInv, OutputOK
      <4>2. Artifact(Out)' = [ manifest |-> Content(Out, "manifest.json")',
                               marker |-> Content(Out, "_SUCCESS")' ]
        BY <2>1, <2>4, <3>3 DEF Artifact
      <4>3. Artifact(Out)'.marker = Artifact(Out)'.manifest
        BY <4>1, <4>2 DEF Sealed
      <4> QED
        BY <3>1, <4>3 DEF Promise!Next, Promise!Publish
    <3> QED
      BY <3>2, <3>3
  <2> QED
    BY <2>2, <2>3, <2>4
<1> QED
  BY <1>1, <1>2, Safety, PTL DEF Spec, ImplementsPromise, Promise!Spec

-----------------------------------------------------------------------------
(* What a verification returns was true.                                   *)
(*                                                                         *)
(* A directory under verification evolves: no write takes back a stamp,    *)
(* and one that leaves the stamp is a silent one.  It is not replaced as a *)
(* whole meanwhile: a run's temporary is removed and moved by that run     *)
(* alone, and nothing moves over an output directory that is not empty.    *)
InPlaceInv ==
  mode = "in_place" => \A p \in Procs : run[p].at # "place"

OpenInv ==
  \A p \in Procs : call[p].op # "none" =>
    /\ call[p].dir \in {p, Out, Other}
    /\ mode = "staged" /\ call[p].dir # p => NonEmpty(call[p].dir)

Stamp(d, f) == dirs[d].entry[f].stamp

(* File f as the call found it: with the stamp of the first walk and with  *)
(* the digest the manifest lists.                                          *)
AsFound(p, f) ==
  /\ Unchanged(p, f)
  /\ Content(call[p].dir, f) = call[p].digests[f]

(* The first walk lies in the past. *)
StampsPassed(p) ==
  \A f \in Names :
    call[p].tree[f] # None => call[p].tree[f] <= Stamp(call[p].dir, f)

(* In the first pass todo is what the walk found, less what was hashed.    *)
TodoOK(p) ==
  LET c == call[p] IN
  /\ c.at \in {"manifest", "hash"} => \A f \in c.todo : c.tree[f] # None
  /\ c.at = "manifest" => \A f \in Names : c.tree[f] # None => f \in c.todo

(* The digests are those of one manifest, which lists the walked files.    *)
DigestsOK(p) ==
  LET c == call[p] IN
  c.at = "hash" \/ c.pass \in {2, 3} =>
    /\ c.manifest # None
    /\ c.digests = c.manifest.files
    /\ \A f \in Names : (c.tree[f] # None) <=> (c.digests[f] # None)

(* A file that was hashed and shows its old stamp was not rewritten, or    *)
(* was silently.                                                           *)
HashedOK(p) ==
  LET c == call[p] IN
  \A f \in Names :
    /\ \/ c.pass = 1 /\ c.at = "hash" /\ f \notin c.todo
       \/ c.pass \in {2, 3}
    /\ Unchanged(p, f)
    => AsFound(p, f) \/ events.silent >= 1

(* If the second walk began in a directory that was not as found, then a   *)
(* file that is still to be hashed again shows it, unless a second silent  *)
(* write undoes the first.                                                 *)
RescanOK(p) ==
  LET c == call[p] IN
  /\ c.pass = 2 /\ c.at \in {"manifest", "hash"} =>
       \/ c.trueAtRescan
       \/ events.silent >= 2
       \/ events.silent >= 1 /\ \E f \in c.todo : ~AsFound(p, f)
  /\ c.pass = 3 => c.trueAtRescan \/ events.silent >= 2

FinalScanOK(p) ==
  call[p].pass = 3 /\ call[p].at = "end" =>
    call[p].trueAtFinalScan \/ events.silent >= 1

VerifyOK(p) ==
  call[p].op = "verify" =>
    /\ StampsPassed(p) /\ TodoOK(p) /\ DigestsOK(p)
    /\ HashedOK(p) /\ RescanOK(p) /\ FinalScanOK(p)

VerifyInv ==
  /\ Inv
  /\ InPlaceInv
  /\ OpenInv
  /\ \A p \in Procs : VerifyOK(p)

(* A call that has found nothing yet. *)
Fresh(p) ==
  call[p].op = "verify" =>
    /\ call[p].pass = 1 /\ call[p].at = "scan"
    /\ \A f \in Names : call[p].tree[f] = None

(* What a step may do to a directory that is not replaced. *)
Evolves(d) ==
  /\ events'.silent \in Nat /\ events'.silent >= events.silent
  /\ \A f \in Names :
       /\ Stamp(d, f)' \in Nat
       /\ Stamp(d, f)' >= Stamp(d, f)
       /\ Stamp(d, f)' = Stamp(d, f) /\ events'.silent = events.silent =>
            Content(d, f)' = Content(d, f)

LEMMA StampFacts ==
  ASSUME Inv, NEW d \in Dirs, NEW f \in Names
  PROVE  /\ Stamp(d, f) \in Nat
         /\ StampSeen(d, f) = IF Content(d, f) # None THEN Stamp(d, f) ELSE None
         /\ StampSeen(d, f) \in Nat \cup {None}
         /\ StampSeen(d, f) = None <=> Content(d, f) = None
         /\ None \notin Nat
<1>1. dirs[d] \in Directories /\ f \in Entries
  BY ControlFacts DEF Inv, TypeInv
<1>2. Stamp(d, f) \in Nat
  BY <1>1 DEF Stamp, Directories
<1> QED
  BY <1>2, LineageAssumption DEF StampSeen, Exists, Stamp

LEMMA EventFacts == Inv => events.silent \in Nat
BY DEF Inv, TypeInv

(* Nothing happens to the directory. *)
LEMMA QuietEvolves ==
  ASSUME Inv, NEW d \in Dirs, dirs'[d] = dirs[d], events'.silent = events.silent
  PROVE  Evolves(d)
<1>1. \A f \in Names : Stamp(d, f) \in Nat
  BY StampFacts
<1>2. events.silent \in Nat
  BY EventFacts
<1> QED
  BY <1>1, <1>2 DEF Evolves, Stamp, Content

LEMMA WriteEvolves ==
  ASSUME Inv, NEW d \in Dirs, NEW t \in Dirs, NEW e \in Entries, NEW content,
         dirs' = [dirs EXCEPT ![t] = Written(dirs[t], e, content)],
         events'.silent = events.silent
  PROVE  Evolves(d)
<1>1. CASE d # t
  <2>1. dirs'[d] = dirs[d]
    BY <1>1 DEF Inv, TypeInv
  <2> QED
    BY <2>1, QuietEvolves
<1>2. CASE d = t
  <2> DEFINE old == dirs[d].entry
             item == [content |-> content, stamp |-> old[e].stamp + 1]
  <2>1. dirs[d] \in Directories /\ old \in [Entries -> [ content : Contents \cup Manifests \cup {None},
                                                        stamp : Nat ]]
    BY DEF Inv, TypeInv, Directories
  <2>2. dirs'[d].entry = [old EXCEPT ![e] = item]
    BY <1>2 DEF Inv, TypeInv, Written
  <2>3. ASSUME NEW f \in Names
        PROVE  /\ Stamp(d, f)' \in Nat
               /\ Stamp(d, f)' >= Stamp(d, f)
               /\ Stamp(d, f)' = Stamp(d, f) => Content(d, f)' = Content(d, f)
    <3>1. f \in Entries /\ old[f].stamp \in Nat /\ old[e].stamp \in Nat
      BY <2>1, ControlFacts
    <3>2. CASE f = e
      <4>1. dirs'[d].entry[f].stamp = old[f].stamp + 1
        BY <2>1, <2>2, <3>2
      <4> QED
        BY <3>1, <4>1 DEF Stamp
    <3>3. CASE f # e
      <4>1. dirs'[d].entry[f] = old[f]
        BY <2>1, <2>2, <3>1, <3>3
      <4> QED
        BY <3>1, <4>1 DEF Stamp, Content
    <3> QED
      BY <3>2, <3>3
  <2> QED
    BY <2>3, EventFacts DEF Evolves
<1> QED
  BY <1>1, <1>2

(* The manifest is moved: two entries are written. *)
LEMMA RenameEvolves ==
  ASSUME Inv, NEW d \in Dirs, NEW t \in Dirs, NEW content, NEW moved,
         moved = Written(dirs[t], "manifest.json", content),
         dirs' = [dirs EXCEPT ![t] = Written(moved, "manifest.json.tmp", None)],
         events'.silent = events.silent
  PROVE  Evolves(d)
<1>1. CASE d # t
  <2>1. dirs'[d] = dirs[d]
    BY <1>1 DEF Inv, TypeInv
  <2> QED
    BY <2>1, QuietEvolves
<1>2. CASE d = t
  <2>1. DOMAIN dirs[d].entry = Entries
    BY DEF Inv, TypeInv, Directories
  <2>2. \A f \in Names : moved.entry[f] = dirs[d].entry[f]
    BY <1>2, <2>1, ControlFacts DEF Written
  <2>3. DOMAIN moved.entry = Entries
    BY <1>2, <2>1 DEF Written
  <2>4. \A f \in Names : dirs'[d].entry[f] = moved.entry[f]
    BY <1>2, <2>3, ControlFacts DEF Written, Inv, TypeInv
  <2>5. \A f \in Names : Stamp(d, f) \in Nat
    BY StampFacts
  <2> QED
    BY <2>2, <2>4, <2>5, EventFacts DEF Evolves, Stamp, Content
<1> QED
  BY <1>1, <1>2

(* Only a silent write changes a content under its stamp. *)
LEMMA EditEvolves ==
  ASSUME Inv, NEW d \in Dirs, NEW t \in Dirs, NEW f \in Names, EditPayload(t, f)
  PROVE  Evolves(d)
<1>1. f \in Entries
  BY ControlFacts
<1>2. PICK n \in Nat, m \in Nat : n = events.payload + 1 /\ m = events.silent + 1
  BY DEF Inv, TypeInv
<1>3. CASE /\ \/ dirs' = [dirs EXCEPT ![t] = Written(dirs[t], f, Edited)]
              \/ dirs' = [dirs EXCEPT ![t] = Written(dirs[t], f, None)]
           /\ events' = [events EXCEPT !.payload = n]
  <2>1. events'.silent = events.silent
    BY <1>3 DEF Inv, TypeInv
  <2> QED
    BY <1>1, <1>3, <2>1, WriteEvolves
<1>4. CASE /\ dirs' = [dirs EXCEPT ![t] = SilentlyWritten(dirs[t], f, Edited)]
           /\ events' = [events EXCEPT !.payload = n, !.silent = m]
  <2>1. events'.silent = m /\ m \in Nat /\ events.silent \in Nat
    BY <1>4 DEF Inv, TypeInv
  <2>2. \A g \in Names : Stamp(d, g)' = Stamp(d, g)
    <3>1. dirs[t].entry \in [Entries -> [ content : Contents \cup Manifests \cup {None},
                                           stamp : Nat ]]
      BY DEF Inv, TypeInv, Directories
    <3>2. CASE d = t
      <4>1. dirs'[d] = SilentlyWritten(dirs[t], f, Edited)
        BY <1>4, <3>2 DEF Inv, TypeInv
      <4>2. dirs'[d].entry = [dirs[t].entry EXCEPT ![f] = [dirs[t].entry[f] EXCEPT !.content = Edited]]
        BY <4>1 DEF SilentlyWritten, Inv, TypeInv, Directories
      <4> QED
        BY <1>1, <3>1, <3>2, <4>2, ControlFacts DEF Stamp
    <3>3. CASE d # t
      BY <1>4, <3>3 DEF Stamp, Inv, TypeInv
    <3> QED
      BY <3>2, <3>3
  <2>3. \A g \in Names : Stamp(d, g) \in Nat
    BY StampFacts
  <2> QED
    BY <1>2, <2>1, <2>2, <2>3 DEF Evolves
<1> QED
  BY <1>2, <1>3, <1>4 DEF EditPayload, Inv, TypeInv


(* A step of the call that only looks. *)
Looks(p) ==
  /\ UNCHANGED <<dirs, run, envVars>>
  /\ Scan(p) \/ ReadManifest(p) \/ (\E f \in Names : HashFile(p, f)) \/ EndHash(p)

LEMMA OpenedIsFresh ==
  ASSUME NEW op, NEW d, NEW manifest, NEW p \in Procs,
         call \in [Procs -> Calls], call' = [call EXCEPT ![p] = Opened(op, d, manifest)]
  PROVE  /\ Fresh(p)'
         /\ call'[p].dir = d
         /\ \A q \in Procs : q # p => call'[q] = call[q]
<1>1. /\ \A q \in Procs : q # p => call'[q] = call[q]
      /\ call'[p] = Opened(op, d, manifest)
  OBVIOUS
<1> QED
  BY <1>1 DEF Fresh, Opened, NewCall, Entries

LEMMA ClosedIsFresh ==
  ASSUME NEW p \in Procs, call \in [Procs -> Calls], call' = [call EXCEPT ![p] = NoCall]
  PROVE  /\ Fresh(p)'
         /\ call'[p].op = "none"
         /\ \A q \in Procs : q # p => call'[q] = call[q]
<1>1. /\ \A q \in Procs : q # p => call'[q] = call[q]
      /\ call'[p] = NoCall
  OBVIOUS
<1> QED
  BY <1>1, NoCallFacts DEF Fresh

(* What a step is to the call of p: its directory evolves under it, or the *)
(* call ends or begins, or it looks at its directory.                      *)
StepsFor(p) ==
  \/ call'[p] = call[p] /\ (call[p].op # "none" => Evolves(call[p].dir))
  \/ Fresh(p)'
  \/ Looks(p)

LEMMA QuietFor ==
  ASSUME Inv, NEW p \in Procs, dirs' = dirs, call'[p] = call[p], events' = events
  PROVE  StepsFor(p)
<1>1. call[p].op # "none" => Evolves(call[p].dir)
  BY QuietEvolves DEF Inv, CallOK
<1> QED
  BY <1>1 DEF StepsFor

(* The directory of another run's temporary is none of this call's.        *)
LEMMA ReplacedFor ==
  ASSUME Inv, OpenInv, NEW p \in Procs, NEW q \in Procs, p # q,
         \A d \in Dirs : d # q => dirs'[d] = dirs[d],
         call'[p] = call[p], events'.silent = events.silent
  PROVE  StepsFor(p)
<1>1. ASSUME call[p].op # "none"
      PROVE  Evolves(call[p].dir)
  <2>1. call[p].dir \in Dirs /\ call[p].dir # q
    BY <1>1, DirFacts DEF Inv, CallOK, OpenInv
  <2> QED
    BY <2>1, QuietEvolves
<1> QED
  BY <1>1 DEF StepsFor

LEMMA WriteFor ==
  ASSUME Inv, NEW p \in Procs, NEW t \in Dirs, NEW e \in Entries, NEW content,
         dirs' = [dirs EXCEPT ![t] = Written(dirs[t], e, content)],
         call'[p] = call[p], events'.silent = events.silent
  PROVE  StepsFor(p)
<1>1. call[p].op # "none" => Evolves(call[p].dir)
  BY WriteEvolves DEF Inv, CallOK
<1> QED
  BY <1>1 DEF StepsFor

LEMMA LineageFor ==
  ASSUME Inv, NEW p \in Procs, NEW q \in Procs, Lineage(q)
  PROVE  StepsFor(p)
<1>1. call \in [Procs -> Calls] /\ dirs \in [Dirs -> Directories] /\ call[q] \in Calls
  BY DEF Inv, TypeInv
<1>2. events' = events /\ UNCHANGED <<run, envVars>>
  BY DEF Lineage, envVars
<1>3. CASE Scan(q) \/ ReadManifest(q) \/ (\E f \in Names : HashFile(q, f)) \/ EndHash(q)
  <2>1. dirs' = dirs /\ (p # q => call'[p] = call[p])
    BY <1>1, <1>3 DEF Scan, ReadManifest, HashFile, EndHash
  <2>2. CASE p = q
    BY <1>2, <1>3, <2>1, <2>2 DEF StepsFor, Looks
  <2>3. CASE p # q
    BY <1>2, <2>1, <2>3, QuietFor
  <2> QED
    BY <2>2, <2>3
<1>4. CASE call[q].at \in {"write_manifest", "rename", "marker"}
  <2>1. call[q].op = "publish" /\ call[q].dir \in Dirs
    BY <1>4 DEF Inv, CallOK
  <2>2. PICK t \in Dirs : t = call[q].dir
    BY <2>1
  <2>3. CASE WriteTemporary(q, "bound")
    <3> DEFINE manifest == [files |-> call[q].digests, about |-> "bound"]
    <3>1. /\ dirs' = [dirs EXCEPT ![t] = Written(dirs[t], "manifest.json.tmp", manifest)]
          /\ call' = [call EXCEPT ![q].at = "rename", ![q].manifest = manifest]
      BY <1>1, <2>2, <2>3 DEF WriteTemporary
    <3>2. CASE p # q
      <4>1. call'[p] = call[p]
        BY <1>1, <3>1, <3>2
      <4> QED
        BY <1>2, <3>1, <4>1, WriteFor, ControlFacts
    <3>3. CASE p = q
      <4>1. call'[q].op = "publish"
        BY <1>1, <2>1, <3>1 DEF Calls
      <4> QED
        BY <3>3, <4>1 DEF StepsFor, Fresh
    <3> QED
      BY <3>2, <3>3
  <2>4. CASE RenameManifest(q)
    <3>1. PICK moved, content :
            /\ moved = Written(dirs[t], "manifest.json", content)
            /\ dirs' = [dirs EXCEPT ![t] = Written(moved, "manifest.json.tmp", None)]
      BY <2>2, <2>4 DEF RenameManifest
    <3>2. call' = [call EXCEPT ![q].at = "marker"]
      BY <2>4 DEF RenameManifest
    <3>3. CASE p # q
      <4>1. call'[p] = call[p]
        BY <1>1, <3>2, <3>3
      <4>2. call[p].op # "none" => Evolves(call[p].dir)
        BY <1>2, <3>1, RenameEvolves DEF Inv, CallOK
      <4> QED
        BY <4>1, <4>2 DEF StepsFor
    <3>4. CASE p = q
      <4>1. call'[q].op = "publish"
        BY <1>1, <2>1, <3>2 DEF Calls
      <4> QED
        BY <3>4, <4>1 DEF StepsFor, Fresh
    <3> QED
      BY <3>3, <3>4
  <2>5. CASE WriteMarker(q)
    <3>1. /\ dirs' = [dirs EXCEPT ![t] = Written(dirs[t], "_SUCCESS", call[q].manifest)]
          /\ call' = [call EXCEPT ![q] = Opened("verify", t, call[q].manifest)]
      BY <1>1, <2>2, <2>5 DEF WriteMarker
    <3>2. Fresh(q)' /\ (p # q => call'[p] = call[p])
      BY <1>1, <3>1, OpenedIsFresh
    <3>3. CASE p # q
      BY <1>2, <3>1, <3>2, <3>3, WriteFor, ControlFacts
    <3> QED
      BY <3>2, <3>3 DEF StepsFor
  <2> QED
    BY <1>3, <2>3, <2>4, <2>5 DEF Lineage, LineageStep
<1> QED
  BY <1>3, <1>4 DEF Lineage, LineageStep, WriteTemporary, RenameManifest, WriteMarker

(* Nothing moves over an output directory under verification.              *)
LEMMA PlaceFor ==
  ASSUME Inv, OpenInv, InPlaceInv, NEW p \in Procs, NEW q \in Procs, Place(q)
  PROVE  StepsFor(p)
<1>1. call \in [Procs -> Calls] /\ dirs \in [Dirs -> Directories]
  BY DEF Inv, TypeInv
<1>2. mode = "staged" /\ Target(q) = q
  BY TargetFacts DEF Place, InPlaceInv, Inv, TypeInv
<1>3. PICK o \in {Out, Other} : o = Output(q)
  BY OutputIsOut
<1>4. /\ ~NonEmpty(o)
      /\ dirs' = [dirs EXCEPT ![o] = dirs[q], ![q] = EmptyDir]
      /\ call' = [call EXCEPT ![q] = Opened("verify", o, call[q].manifest)]
      /\ events' = events
  BY <1>2, <1>3 DEF Place, envVars
<1>5. Fresh(q)' /\ (p # q => call'[p] = call[p])
  BY <1>1, <1>4, OpenedIsFresh
<1>6. CASE p # q
  <2>1. ASSUME call[p].op # "none"
        PROVE  Evolves(call[p].dir)
    <3>1. call[p].dir \in Dirs /\ call[p].dir \notin {q, o}
      BY <1>2, <1>4, <1>6, <2>1, DirFacts DEF Inv, CallOK, OpenInv
    <3>2. dirs'[call[p].dir] = dirs[call[p].dir]
      BY <1>1, <1>4, <3>1
    <3> QED
      BY <1>4, <3>1, <3>2, QuietEvolves
  <2> QED
    BY <1>5, <1>6, <2>1 DEF StepsFor
<1> QED
  BY <1>5, <1>6 DEF StepsFor

LEMMA EndFor ==
  ASSUME Inv, OpenInv, NEW p \in Procs, NEW q \in Procs, Fail(q) \/ Crash(q)
  PROVE  StepsFor(p)
<1>1. call \in [Procs -> Calls] /\ dirs \in [Dirs -> Directories]
      /\ mode \in {"staged", "in_place"}
  BY DEF Inv, TypeInv
<1>2. /\ call' = [call EXCEPT ![q] = NoCall]
      /\ events'.silent = events.silent
      /\ dirs' = dirs \/ dirs' = [dirs EXCEPT ![q] = EmptyDir]
  <2>1. CASE Fail(q)
    BY <1>1, <2>1, TargetFacts DEF Fail, envVars
  <2>2. CASE Crash(q)
    BY <2>2 DEF Crash, Inv, TypeInv
  <2> QED
    BY <2>1, <2>2
<1>3. Fresh(q)' /\ (p # q => call'[p] = call[p])
  BY <1>1, <1>2, ClosedIsFresh
<1>4. \A d \in Dirs : d # q => dirs'[d] = dirs[d]
  BY <1>1, <1>2
<1>5. CASE p # q
  BY <1>2, <1>3, <1>4, <1>5, ReplacedFor
<1> QED
  BY <1>3, <1>5 DEF StepsFor

(* Every step is one of these to every call. *)
LEMMA EveryStepFor ==
  ASSUME Inv, OpenInv, InPlaceInv, [Next]_vars, NEW p \in Procs
  PROVE  StepsFor(p)
<1>1. call \in [Procs -> Calls] /\ dirs \in [Dirs -> Directories]
  BY DEF Inv, TypeInv
<1>2. ASSUME NEW q \in Procs, ProcStep(q)
      PROVE  StepsFor(p)
  <2>1. CASE BindInputs(q) \/ ReadSource(q) \/ RefuseLeftovers(q) \/ Execute(q)
             \/ Recheck(q) \/ PublishReturned(q) \/ Return(q)
    <3>1. UNCHANGED <<lineageVars, envVars>>
      BY <2>1 DEF BindInputs, ReadSource, RefuseLeftovers, Execute, Recheck,
                  PublishReturned, Return
    <3> QED
      BY <3>1, QuietFor DEF lineageVars, envVars
  <2>2. CASE FindExisting(q) \/ BeginPublish(q)
    <3>1. PICK op, d : /\ call' = [call EXCEPT ![q] = Opened(op, d, None)]
                       /\ UNCHANGED <<dirs, envVars>>
      BY <2>2 DEF FindExisting, BeginPublish
    <3>2. Fresh(q)' /\ (p # q => call'[p] = call[p])
      BY <1>1, <3>1, OpenedIsFresh
    <3>3. CASE p # q
      BY <3>1, <3>2, <3>3, QuietFor DEF envVars
    <3> QED
      BY <3>2, <3>3 DEF StepsFor
  <2>3. CASE \E f \in Names : Truncate(q, f) \/ Fill(q, f)
    <3>1. PICK t \in Dirs : t = Target(q)
      BY TargetFacts
    <3>2. PICK f \in Names : Truncate(q, f) \/ Fill(q, f)
      BY <2>3
    <3>3. /\ \E content : dirs' = [dirs EXCEPT ![t] = Written(dirs[t], f, content)]
          /\ UNCHANGED <<call, envVars>>
      BY <1>1, <3>1, <3>2 DEF Truncate, Fill
    <3> QED
      BY <3>3, WriteFor, ControlFacts DEF envVars
  <2> QED
    BY <1>2, <2>1, <2>2, <2>3, LineageFor, PlaceFor, EndFor DEF ProcStep
<1>3. ASSUME NEW q \in Procs, Crash(q)
      PROVE  StepsFor(p)
  BY <1>3, EndFor
<1>4. CASE ChangeInputs
  <2>1. UNCHANGED lineageVars /\ events'.silent = events.silent
    BY <1>4 DEF ChangeInputs, Inv, TypeInv
  <2>2. call[p].op # "none" => Evolves(call[p].dir)
    BY <2>1, QuietEvolves DEF Inv, CallOK, lineageVars
  <2> QED
    BY <2>1, <2>2 DEF StepsFor, lineageVars
<1>5. ASSUME NEW d \in Dirs, NEW f \in Names, EditPayload(d, f)
      PROVE  StepsFor(p)
  <2>1. call' = call
    BY <1>5 DEF EditPayload
  <2>2. call[p].op # "none" => Evolves(call[p].dir)
    BY <1>5, EditEvolves DEF Inv, CallOK
  <2> QED
    BY <2>1, <2>2 DEF StepsFor
<1>6. CASE UNCHANGED vars
  BY <1>6, QuietFor DEF vars, lineageVars
<1> QED
  BY <1>2, <1>3, <1>4, <1>5, <1>6 DEF Next

(* A file whose stamp has moved on never looks unchanged again, and one    *)
(* whose stamp has not was rewritten at most silently.                     *)
LEMMA EvolvedFile ==
  ASSUME Inv, Inv', NEW p \in Procs, call'[p] = call[p], call[p].op # "none",
         Evolves(call[p].dir), StampsPassed(p), NEW f \in Names
  PROVE  /\ call[p].tree[f] # None => call[p].tree[f] <= Stamp(call[p].dir, f)'
         /\ Unchanged(p, f)' =>
              \/ Content(call[p].dir, f)' = Content(call[p].dir, f) /\ Unchanged(p, f)
              \/ events'.silent > events.silent /\ events'.silent >= 1
              \/ call[p].tree[f] = None /\ Content(call[p].dir, f)' = None
         /\ call[p].tree[f] # None /\ events'.silent = events.silent
              /\ AsFound(p, f)' => AsFound(p, f)
<1> DEFINE d == call[p].dir
           seen == call[p].tree[f]
<1>1. d \in Dirs /\ seen \in Nat \cup {None}
  <2>1. call[p] \in Calls /\ f \in Entries
    BY ControlFacts DEF Inv, TypeInv
  <2> QED
    BY <2>1 DEF Inv, CallOK, Calls
<1>2. /\ Stamp(d, f) \in Nat /\ None \notin Nat
      /\ StampSeen(d, f) = IF Content(d, f) # None THEN Stamp(d, f) ELSE None
  BY <1>1, StampFacts
<1>3. /\ StampSeen(d, f)' = IF Content(d, f)' # None THEN Stamp(d, f)' ELSE None
  BY <1>1 DEF StampSeen, Exists, Content, Stamp
<1>4. /\ events'.silent \in Nat /\ events.silent \in Nat /\ events'.silent >= events.silent
      /\ Stamp(d, f)' \in Nat /\ Stamp(d, f)' >= Stamp(d, f)
      /\ Stamp(d, f)' = Stamp(d, f) /\ events'.silent = events.silent =>
           Content(d, f)' = Content(d, f)
  BY EventFacts DEF Evolves
<1>5. seen # None => seen <= Stamp(d, f)
  BY DEF StampsPassed
<1>6. /\ Unchanged(p, f) <=> StampSeen(d, f) = seen
      /\ Unchanged(p, f)' <=> StampSeen(d, f)' = seen
      /\ AsFound(p, f) <=> Unchanged(p, f) /\ Content(d, f) = call[p].digests[f]
      /\ AsFound(p, f)' <=> Unchanged(p, f)' /\ Content(d, f)' = call[p].digests[f]
  BY DEF Unchanged, AsFound, Content, StampSeen, Exists
<1> HIDE DEF d, seen
<1>7. CASE seen = None
  BY <1>2, <1>3, <1>4, <1>6, <1>7 DEF d, seen
<1>8. CASE seen # None
  <2>1. seen \in Nat /\ seen <= Stamp(d, f)
    BY <1>1, <1>5, <1>8
  <2>2. seen <= Stamp(d, f)'
    BY <1>2, <1>4, <2>1
  <2>3. ASSUME StampSeen(d, f)' = seen
        PROVE  Stamp(d, f)' = Stamp(d, f) /\ Content(d, f)' # None
    BY <1>2, <1>3, <1>4, <1>8, <2>1, <2>3
  <2>4. ASSUME StampSeen(d, f)' = seen, events'.silent = events.silent
        PROVE  Content(d, f)' = Content(d, f) /\ StampSeen(d, f) = seen
    BY <1>2, <1>3, <1>4, <2>3, <2>4
  <2>5. events'.silent # events.silent => events'.silent > events.silent /\ events'.silent >= 1
    BY <1>4
  <2> QED
    BY <1>6, <1>8, <2>2, <2>4, <2>5 DEF d, seen
<1> QED
  BY <1>7, <1>8

LEMMA EvolvedIsOK ==
  ASSUME Inv, Inv', NEW p \in Procs, call'[p] = call[p],
         call[p].op # "none" => Evolves(call[p].dir), VerifyOK(p)
  PROVE  VerifyOK(p)'
<1> SUFFICES ASSUME call[p].op = "verify"
             PROVE  VerifyOK(p)'
  BY DEF VerifyOK
<1> DEFINE c == call[p]
<1>1. /\ StampsPassed(p) /\ TodoOK(p) /\ DigestsOK(p)
      /\ HashedOK(p) /\ RescanOK(p) /\ FinalScanOK(p)
      /\ Evolves(c.dir)
  BY DEF VerifyOK
<1>2. events'.silent \in Nat /\ events.silent \in Nat /\ events'.silent >= events.silent
  BY <1>1, EventFacts DEF Evolves
<1>3. \A f \in Names :
         /\ c.tree[f] # None => c.tree[f] <= Stamp(c.dir, f)'
         /\ Unchanged(p, f)' =>
              \/ Content(c.dir, f)' = Content(c.dir, f) /\ Unchanged(p, f)
              \/ events'.silent > events.silent /\ events'.silent >= 1
              \/ c.tree[f] = None /\ Content(c.dir, f)' = None
         /\ c.tree[f] # None /\ events'.silent = events.silent
              /\ AsFound(p, f)' => AsFound(p, f)
  BY <1>1, EvolvedFile
<1>4. StampsPassed(p)' /\ TodoOK(p)' /\ DigestsOK(p)'
  BY <1>1, <1>3 DEF StampsPassed, TodoOK, DigestsOK, Stamp
<1>5. HashedOK(p)'
  <2> SUFFICES ASSUME NEW f \in Names,
                      \/ c.pass = 1 /\ c.at = "hash" /\ f \notin c.todo
                      \/ c.pass \in {2, 3},
                      Unchanged(p, f)', ~(events'.silent >= 1)
               PROVE  AsFound(p, f)'
    BY DEF HashedOK
  <2>1. ~(events.silent >= 1)
    BY <1>2
  <2>2. CASE Content(c.dir, f)' = Content(c.dir, f) /\ Unchanged(p, f)
    <3>1. AsFound(p, f)
      BY <1>1, <2>1, <2>2 DEF HashedOK
    <3> QED
      BY <2>2, <3>1 DEF AsFound
  <2>3. CASE c.tree[f] = None /\ Content(c.dir, f)' = None
    <3>1. c.digests[f] = None
      BY <1>1, <2>3 DEF DigestsOK
    <3> QED
      BY <2>3, <3>1 DEF AsFound
  <2> QED
    BY <1>3, <2>2, <2>3
<1>6. RescanOK(p)'
  <2>1. CASE c.pass = 2 /\ c.at \in {"manifest", "hash"}
    <3>1. CASE c.trueAtRescan \/ events.silent >= 2
      BY <1>2, <2>1, <3>1 DEF RescanOK
    <3>2. CASE events.silent >= 1 /\ \E f \in c.todo : ~AsFound(p, f)
      <4>1. PICK f \in c.todo : ~AsFound(p, f)
        BY <3>2
      <4>2. f \in Names /\ c.tree[f] # None
        BY <1>1, <2>1, <4>1 DEF TodoOK, Inv, TypeInv, Calls
      <4>3. CASE events'.silent = events.silent
        <5>1. ~AsFound(p, f)'
          BY <1>3, <4>1, <4>2, <4>3
        <5>2. \E g \in c.todo : ~AsFound(p, g)'
          BY <4>1, <5>1
        <5> QED
          BY <2>1, <3>2, <4>3, <5>2 DEF RescanOK
      <4>4. CASE events'.silent # events.silent
        <5>1. events'.silent >= 2
          BY <1>2, <3>2, <4>4
        <5> QED
          BY <2>1, <5>1 DEF RescanOK
      <4> QED
        BY <4>3, <4>4
    <3> QED
      BY <1>1, <2>1, <3>1, <3>2 DEF RescanOK
  <2>2. CASE c.pass = 3
    BY <1>1, <1>2, <2>2 DEF RescanOK
  <2>3. CASE ~(c.pass = 2 /\ c.at \in {"manifest", "hash"}) /\ c.pass # 3
    BY <2>3 DEF RescanOK
  <2> QED
    BY <2>1, <2>2, <2>3
<1>7. FinalScanOK(p)'
  BY <1>1, <1>2 DEF FinalScanOK
<1> QED
  BY <1>4, <1>5, <1>6, <1>7 DEF VerifyOK

-----------------------------------------------------------------------------
(* The steps of a verification.                                            *)
LEMMA LookFacts ==
  ASSUME Inv, NEW p \in Procs, call[p].op = "verify"
  PROVE  /\ call \in [Procs -> Calls] /\ call[p] \in Calls /\ call[p].dir \in Dirs
         /\ \A f \in Names :
              /\ call[p].tree[f] \in Nat \cup {None}
              /\ Stamp(call[p].dir, f) \in Nat
              /\ StampSeen(call[p].dir, f) =
                   IF Content(call[p].dir, f) # None THEN Stamp(call[p].dir, f) ELSE None
              /\ StampSeen(call[p].dir, f) = None <=> Content(call[p].dir, f) = None
         /\ None \notin Nat /\ events.silent \in Nat
<1>1. call \in [Procs -> Calls] /\ call[p] \in Calls /\ call[p].dir \in Dirs
  BY DEF Inv, TypeInv, CallOK
<1>2. \A f \in Names : call[p].tree[f] \in Nat \cup {None}
  BY <1>1, ControlFacts DEF Calls
<1>3. None \notin Nat
  BY LineageAssumption
<1> QED
  BY <1>1, <1>2, <1>3, StampFacts, EventFacts

(* What a walk leaves behind. *)
LEMMA ScanEffect ==
  ASSUME Inv, NEW p \in Procs, Scan(p)
  PROVE  /\ call[p].at = "scan" /\ call[p].pass \in 1..3 /\ TreeOK(p)
         /\ dirs' = dirs
         /\ call'[p].op = call[p].op /\ call'[p].dir = call[p].dir
         /\ call'[p].pass = call[p].pass
         /\ call[p].op = "verify" =>
              call'[p].at = IF call[p].pass < 3 THEN "manifest" ELSE "end"
         /\ \A f \in Names : call'[p].tree[f] = StampSeen(call[p].dir, f)
         /\ call'[p].todo = IF call[p].pass < 3 THEN Payload(call[p].dir) ELSE {}
         /\ call'[p].digests = call[p].digests
         /\ call'[p].manifest = call[p].manifest
         /\ call[p].pass = 2 => call'[p].trueAtRescan = Holds(call[p].dir, call[p].digests)
         /\ call[p].pass # 2 => call'[p].trueAtRescan = call[p].trueAtRescan
         /\ call[p].pass = 3 =>
              call'[p].trueAtFinalScan = Holds(call[p].dir, call[p].digests)
<1> DEFINE d == call[p].dir
           true == Holds(d, call[p].digests)
           tree == [e \in Entries |-> StampSeen(d, e)]
           todo == IF call[p].pass < 3 THEN Payload(d) ELSE {}
           after == AfterScan(call[p].op, call[p].pass)
           rescan == IF call[p].pass = 2 THEN true ELSE call[p].trueAtRescan
           final == IF call[p].pass = 3 THEN true ELSE call[p].trueAtFinalScan
           c1 == [call[p] EXCEPT !.at = after, !.root = dirs[d].root, !.tree = tree]
           c == [c1 EXCEPT !.todo = todo, !.trueAtRescan = rescan,
                           !.trueAtFinalScan = final]
<1>1. call \in [Procs -> Calls] /\ call[p] \in Calls
  BY DEF Inv, TypeInv
<1>2. call[p].at = "scan" /\ TreeOK(p) /\ dirs' = dirs
  BY DEF Scan
<1>3. call[p].pass \in 1..3
  BY <1>2 DEF Inv, CallOK
<1>4. call' = [call EXCEPT ![p] = c]
  <2> DEFINE whole == [call[p] EXCEPT !.at = after, !.root = dirs[d].root,
                         !.tree = tree, !.todo = todo, !.trueAtRescan = rescan,
                         !.trueAtFinalScan = final]
  <2>1. call' = [call EXCEPT ![p] = whole]
    BY <1>1, ZenonT(40) DEF Scan
  <2> HIDE DEF true, tree, todo, after, rescan, final
  <2>2. whole = c
    BY <1>1, SMTT(30) DEF Calls
  <2> QED
    BY <2>1, <2>2
<1>5. call[p].op = "verify" => after = IF call[p].pass < 3 THEN "manifest" ELSE "end"
  BY <1>3 DEF AfterScan
<1>6. \A f \in Names : tree[f] = StampSeen(d, f)
  BY ControlFacts
<1> HIDE DEF true, tree, todo, after, rescan, final
<1>7. /\ c1.op = call[p].op /\ c1.dir = d /\ c1.pass = call[p].pass
      /\ c1.at = after /\ c1.tree = tree /\ c1.digests = call[p].digests
      /\ c1.manifest = call[p].manifest
      /\ DOMAIN c1 = DOMAIN call[p]
  BY <1>1 DEF Calls
<1>8. /\ c.op = call[p].op /\ c.dir = d /\ c.pass = call[p].pass
      /\ c.at = after /\ c.tree = tree /\ c.digests = call[p].digests
      /\ c.manifest = call[p].manifest
      /\ c.todo = todo /\ c.trueAtRescan = rescan /\ c.trueAtFinalScan = final
  BY <1>1, <1>7 DEF Calls
<1> HIDE DEF c
<1>9. call'[p] = c
  BY <1>1, <1>4
<1> QED
  BY <1>2, <1>3, <1>5, <1>6, <1>8, <1>9 DEF todo, rescan, final, true

LEMMA ScanIsOK ==
  ASSUME Inv, NEW p \in Procs, Scan(p), UNCHANGED <<run, envVars>>, VerifyOK(p)
  PROVE  VerifyOK(p)'
<1> SUFFICES ASSUME call[p].op = "verify"
             PROVE  VerifyOK(p)'
  <2>1. call[p].op # "verify" => call'[p].op # "verify"
    BY ScanEffect
  <2> QED
    BY <2>1 DEF VerifyOK
<1> DEFINE c == call[p]
           d == call[p].dir
<1>1. /\ StampsPassed(p) /\ TodoOK(p) /\ DigestsOK(p)
      /\ HashedOK(p) /\ RescanOK(p) /\ FinalScanOK(p)
  BY DEF VerifyOK
<1>2. /\ c.at = "scan" /\ c.pass \in 1..3 /\ TreeOK(p)
      /\ dirs' = dirs
      /\ call'[p].op = "verify" /\ call'[p].dir = d
      /\ call'[p].pass = c.pass
      /\ call'[p].at = IF c.pass < 3 THEN "manifest" ELSE "end"
      /\ \A f \in Names : call'[p].tree[f] = StampSeen(d, f)
      /\ call'[p].todo = IF c.pass < 3 THEN Payload(d) ELSE {}
      /\ call'[p].digests = c.digests
      /\ call'[p].manifest = c.manifest
      /\ c.pass = 2 => call'[p].trueAtRescan = Holds(d, c.digests)
      /\ c.pass # 2 => call'[p].trueAtRescan = c.trueAtRescan
      /\ c.pass = 3 => call'[p].trueAtFinalScan = Holds(d, c.digests)
  BY ScanEffect
<1>3. /\ d \in Dirs /\ None \notin Nat /\ events.silent \in Nat
      /\ \A f \in Names :
           /\ Stamp(d, f) \in Nat
           /\ StampSeen(d, f) = IF Content(d, f) # None THEN Stamp(d, f) ELSE None
           /\ StampSeen(d, f) = None <=> Content(d, f) = None
  BY LookFacts
<1>4. events' = events
  BY DEF envVars
<1>5. \A f \in Names : Stamp(d, f)' = Stamp(d, f) /\ Content(d, f)' = Content(d, f)
                       /\ StampSeen(d, f)' = StampSeen(d, f)
  BY <1>2 DEF Stamp, Content, StampSeen, Exists
<1>6. c.pass \in {2, 3} => \A f \in Names : Unchanged(p, f)
  BY <1>2, ControlFacts DEF TreeOK, TreeUnchanged
<1>7. StampsPassed(p)'
  BY <1>2, <1>3, <1>5 DEF StampsPassed
<1>8. TodoOK(p)'
  <2>1. \A f \in Names : f \in Payload(d) <=> StampSeen(d, f) # None
    BY <1>3 DEF Payload, Exists
  <2>2. Payload(d) \subseteq Names
    BY DEF Payload
  <2> QED
    BY <1>2, <2>1, <2>2 DEF TodoOK
<1>9. DigestsOK(p)'
  BY <1>1, <1>2, <1>6 DEF DigestsOK, Unchanged
<1>10. ASSUME NEW f \in Names
       PROVE  AsFound(p, f)' <=> Content(d, f) = c.digests[f]
  <2>1. Unchanged(p, f)'
    BY <1>2, <1>5 DEF Unchanged
  <2> QED
    BY <1>2, <1>5, <2>1 DEF AsFound
<1>11. c.pass \in {2, 3} =>
         \A f \in Names : Content(d, f) = c.digests[f] \/ events.silent >= 1
  BY <1>1, <1>6 DEF HashedOK, AsFound
<1>12. HashedOK(p)'
  BY <1>2, <1>4, <1>10, <1>11 DEF HashedOK
<1>13. RescanOK(p)'
  <2>1. CASE c.pass = 2 /\ ~Holds(d, c.digests)
    <3>1. PICK f \in Names : Content(d, f) # c.digests[f]
      BY <2>1 DEF Holds
    <3>2. events.silent >= 1
      BY <1>11, <2>1, <3>1
    <3>3. f \in Payload(d)
      <4>1. c.tree[f] = StampSeen(d, f)
        BY <1>6, <2>1 DEF Unchanged
      <4>2. c.digests[f] = None <=> c.tree[f] = None
        BY <1>1, <2>1 DEF DigestsOK
      <4> QED
        BY <1>3, <3>1, <4>1, <4>2 DEF Payload, Exists
    <3>4. f \in call'[p].todo /\ ~AsFound(p, f)'
      BY <1>2, <1>10, <2>1, <3>1, <3>3
    <3>5. \E g \in call'[p].todo : ~AsFound(p, g)'
      BY <3>4
    <3> QED
      BY <1>2, <1>4, <2>1, <3>2, <3>5 DEF RescanOK
  <2>2. CASE c.pass = 2 /\ Holds(d, c.digests)
    BY <1>2, <2>2 DEF RescanOK
  <2>3. CASE c.pass # 2
    BY <1>1, <1>2, <1>4, <2>3 DEF RescanOK
  <2> QED
    BY <2>1, <2>2, <2>3
<1>14. FinalScanOK(p)'
  <2>1. c.pass = 3 /\ ~Holds(d, c.digests) => events.silent >= 1
    BY <1>11 DEF Holds
  <2> QED
    BY <1>2, <1>4, <2>1 DEF FinalScanOK
<1> QED
  BY <1>7, <1>8, <1>9, <1>12, <1>13, <1>14 DEF VerifyOK

LEMMA ReadManifestIsOK ==
  ASSUME Inv, NEW p \in Procs, ReadManifest(p), UNCHANGED <<run, envVars>>, VerifyOK(p)
  PROVE  VerifyOK(p)'
<1> DEFINE c == call[p]
           d == call[p].dir
           read == Content(d, "manifest.json")
           after == [c EXCEPT !.at = "hash", !.manifest = read, !.digests = read.files]
<1>1. /\ c.at = "manifest" /\ c.op = "verify" /\ c.pass \in 1..2
      /\ ManifestOK(p) /\ dirs' = dirs /\ events' = events
  BY DEF ReadManifest, Inv, CallOK, envVars
<1>2. /\ call \in [Procs -> Calls] /\ c \in Calls
      /\ d \in Dirs /\ None \notin Nat /\ events.silent \in Nat
      /\ \A f \in Names : StampSeen(d, f) = None <=> Content(d, f) = None
  BY <1>1, LookFacts
<1>3. call' = [call EXCEPT ![p] = after]
  BY <1>2 DEF ReadManifest, Calls
<1>4. /\ read # None
      /\ \A f \in Names : (c.tree[f] # None) <=> (read.files[f] # None)
      /\ c.manifest # None => read = c.manifest
  BY <1>1 DEF ManifestOK, Unchanged, StampSeen, Exists
<1> HIDE DEF read
<1>5. /\ after.op = "verify" /\ after.dir = d /\ after.pass = c.pass /\ after.at = "hash"
      /\ after.todo = c.todo /\ after.tree = c.tree
      /\ after.manifest = read /\ after.digests = read.files
      /\ after.trueAtRescan = c.trueAtRescan
  BY <1>1, <1>2 DEF Calls
<1>6. call'[p] = after
  BY <1>2, <1>3
<1> HIDE DEF after
<1>7. /\ StampsPassed(p) /\ TodoOK(p) /\ DigestsOK(p)
      /\ HashedOK(p) /\ RescanOK(p) /\ FinalScanOK(p)
  BY <1>1 DEF VerifyOK
<1>8. c.pass = 2 => read.files = c.digests
  BY <1>4, <1>7 DEF DigestsOK
<1>9. \A f \in Names : /\ Stamp(d, f)' = Stamp(d, f) /\ Content(d, f)' = Content(d, f)
                       /\ StampSeen(d, f)' = StampSeen(d, f)
  BY <1>1, <1>5, <1>6 DEF Stamp, Content, StampSeen, Exists
<1>10. \A f \in Names : /\ Unchanged(p, f)' <=> Unchanged(p, f)
                        /\ AsFound(p, f)' <=> Unchanged(p, f) /\ Content(d, f) = read.files[f]
  BY <1>5, <1>6, <1>9 DEF Unchanged, AsFound
<1>11. StampsPassed(p)' /\ TodoOK(p)' /\ DigestsOK(p)'
  BY <1>1, <1>4, <1>5, <1>6, <1>7, <1>9 DEF StampsPassed, TodoOK, DigestsOK
<1>12. HashedOK(p)'
  <2> SUFFICES ASSUME NEW f \in Names,
                      (c.pass = 1 /\ f \notin c.todo) \/ c.pass = 2,
                      Unchanged(p, f)
               PROVE  AsFound(p, f)' \/ events'.silent >= 1
    BY <1>1, <1>5, <1>6, <1>10 DEF HashedOK
  <2>1. CASE c.pass = 1 /\ f \notin c.todo
    <3>1. c.tree[f] = None
      BY <1>1, <1>7, <2>1 DEF TodoOK
    <3>2. read.files[f] = None /\ Content(d, f) = None
      BY <1>2, <1>4, <3>1 DEF Unchanged
    <3> QED
      BY <1>10, <3>2
  <2>2. CASE c.pass = 2
    BY <1>1, <1>7, <1>8, <1>10, <2>2 DEF HashedOK, AsFound
  <2> QED
    BY <2>1, <2>2
<1>13. RescanOK(p)'
  <2>1. CASE c.pass = 2
    <3>1. \A f \in c.todo : AsFound(p, f)' <=> AsFound(p, f)
      <4>1. c.todo \subseteq Names
        BY <1>2 DEF Calls
      <4> QED
        BY <1>8, <1>10, <2>1, <4>1 DEF AsFound
    <3> QED
      BY <1>1, <1>5, <1>6, <1>7, <2>1, <3>1 DEF RescanOK
  <2>2. CASE c.pass = 1
    BY <1>5, <1>6, <2>2 DEF RescanOK
  <2> QED
    BY <1>1, <2>1, <2>2
<1>14. FinalScanOK(p)'
  BY <1>5, <1>6 DEF FinalScanOK
<1> QED
  BY <1>11, <1>12, <1>13, <1>14 DEF VerifyOK

LEMMA HashFileIsOK ==
  ASSUME Inv, NEW p \in Procs, NEW f \in Names, HashFile(p, f),
         UNCHANGED <<run, envVars>>, VerifyOK(p)
  PROVE  VerifyOK(p)'
<1> DEFINE c == call[p]
           d == call[p].dir
           found == IF c.pass = 1 THEN Content(d, f) ELSE c.digests[f]
           digests == [c.digests EXCEPT ![f] = found]
           after == [c EXCEPT !.todo = c.todo \ {f}, !.digests = digests]
<1>1. /\ c.at = "hash" /\ f \in c.todo /\ DigestOK(p, f)
      /\ dirs' = dirs /\ events' = events
  BY DEF HashFile, envVars
<1>2. call \in [Procs -> Calls] /\ c \in Calls /\ c.pass \in 1..2
  BY <1>1 DEF Inv, TypeInv, CallOK
<1>3. call' = [call EXCEPT ![p] = after]
  BY <1>2 DEF HashFile, Calls
<1> HIDE DEF digests
<1>4. /\ after.op = c.op /\ after.dir = d /\ after.pass = c.pass /\ after.at = "hash"
      /\ after.todo = c.todo \ {f} /\ after.tree = c.tree
      /\ after.manifest = c.manifest /\ after.digests = digests
      /\ after.trueAtRescan = c.trueAtRescan
  BY <1>1, <1>2 DEF Calls
<1>5. call'[p] = after
  BY <1>2, <1>3
<1> HIDE DEF after
<1> SUFFICES ASSUME c.op = "verify"
             PROVE  VerifyOK(p)'
  BY <1>4, <1>5 DEF VerifyOK
<1>6. Unchanged(p, f) /\ Content(d, f) = c.digests[f]
  BY <1>1 DEF DigestOK
<1>7. digests = c.digests
  <2>1. found = c.digests[f]
    BY <1>6
  <2>2. DOMAIN c.digests = Names
    BY <1>2 DEF Calls
  <2> QED
    BY <1>2, <2>1, <2>2 DEF digests, Calls
<1>8. /\ StampsPassed(p) /\ TodoOK(p) /\ DigestsOK(p)
      /\ HashedOK(p) /\ RescanOK(p) /\ FinalScanOK(p)
  BY DEF VerifyOK
<1>9. \A g \in Names : /\ Stamp(d, g)' = Stamp(d, g) /\ Content(d, g)' = Content(d, g)
                       /\ StampSeen(d, g)' = StampSeen(d, g)
  BY <1>1, <1>4, <1>5 DEF Stamp, Content, StampSeen, Exists
<1>10. \A g \in Names : /\ Unchanged(p, g)' <=> Unchanged(p, g)
                        /\ AsFound(p, g)' <=> AsFound(p, g)
  BY <1>4, <1>5, <1>7, <1>9 DEF Unchanged, AsFound
<1>11. StampsPassed(p)' /\ TodoOK(p)' /\ DigestsOK(p)'
  BY <1>1, <1>4, <1>5, <1>7, <1>8, <1>9 DEF StampsPassed, TodoOK, DigestsOK
<1>12. AsFound(p, f)
  BY <1>6 DEF AsFound
<1>13. HashedOK(p)'
  BY <1>1, <1>4, <1>5, <1>8, <1>10, <1>12 DEF HashedOK
<1>14. RescanOK(p)'
  <2>1. CASE c.pass = 2
    <3>1. \A g \in c.todo : ~AsFound(p, g) => g \in c.todo \ {f} /\ ~AsFound(p, g)'
      <4>1. c.todo \subseteq Names
        BY <1>2 DEF Calls
      <4> QED
        BY <1>10, <1>12, <4>1
    <3>2. \/ c.trueAtRescan
          \/ events.silent >= 2
          \/ events.silent >= 1 /\ \E g \in c.todo \ {f} : ~AsFound(p, g)'
      BY <1>1, <1>8, <2>1, <3>1 DEF RescanOK
    <3> QED
      BY <1>1, <1>4, <1>5, <2>1, <3>2 DEF RescanOK
  <2>2. CASE c.pass = 1
    BY <1>4, <1>5, <2>2 DEF RescanOK
  <2> QED
    BY <1>2, <2>1, <2>2
<1>15. FinalScanOK(p)'
  BY <1>4, <1>5 DEF FinalScanOK
<1> QED
  BY <1>11, <1>13, <1>14, <1>15 DEF VerifyOK

LEMMA EndHashIsOK ==
  ASSUME Inv, NEW p \in Procs, EndHash(p), UNCHANGED <<run, envVars>>, VerifyOK(p)
  PROVE  VerifyOK(p)'
<1> DEFINE c == call[p]
           d == call[p].dir
<1>1. /\ c.at = "hash" /\ c.todo = {} /\ dirs' = dirs /\ events' = events
  BY DEF EndHash, envVars
<1>2. call \in [Procs -> Calls] /\ c \in Calls /\ c.pass \in 1..2
  BY <1>1 DEF Inv, TypeInv, CallOK
<1>3. PICK next \in 2..3 : next = c.pass + 1
  BY <1>2
<1> DEFINE after == [c EXCEPT !.at = "scan", !.pass = next]
<1>4. call' = [call EXCEPT ![p] = after]
  BY <1>2, <1>3 DEF EndHash
<1>5. /\ after.op = c.op /\ after.dir = d /\ after.pass = next /\ after.at = "scan"
      /\ after.tree = c.tree /\ after.manifest = c.manifest /\ after.digests = c.digests
      /\ after.trueAtRescan = c.trueAtRescan
  BY <1>2 DEF Calls
<1>6. call'[p] = after
  BY <1>2, <1>4
<1> HIDE DEF after
<1> SUFFICES ASSUME c.op = "verify"
             PROVE  VerifyOK(p)'
  BY <1>5, <1>6 DEF VerifyOK
<1>7. /\ StampsPassed(p) /\ TodoOK(p) /\ DigestsOK(p)
      /\ HashedOK(p) /\ RescanOK(p) /\ FinalScanOK(p)
  BY DEF VerifyOK
<1>8. \A g \in Names : /\ Stamp(d, g)' = Stamp(d, g) /\ Content(d, g)' = Content(d, g)
                       /\ StampSeen(d, g)' = StampSeen(d, g)
  BY <1>1, <1>5, <1>6 DEF Stamp, Content, StampSeen, Exists
<1>9. \A g \in Names : /\ Unchanged(p, g)' <=> Unchanged(p, g)
                       /\ AsFound(p, g)' <=> AsFound(p, g)
  BY <1>5, <1>6, <1>8 DEF Unchanged, AsFound
<1>10. StampsPassed(p)' /\ TodoOK(p)' /\ DigestsOK(p)'
  BY <1>1, <1>5, <1>6, <1>7, <1>8 DEF StampsPassed, TodoOK, DigestsOK
<1>11. \A g \in Names : Unchanged(p, g) => AsFound(p, g) \/ events.silent >= 1
  BY <1>1, <1>2, <1>7 DEF HashedOK
<1>12. HashedOK(p)'
  BY <1>1, <1>9, <1>11 DEF HashedOK
<1>13. c.pass = 2 => c.trueAtRescan \/ events.silent >= 2
  BY <1>1, <1>7 DEF RescanOK
<1>14. RescanOK(p)'
  <2>1. next = 3 => c.pass = 2
    BY <1>2, <1>3
  <2> QED
    BY <1>1, <1>5, <1>6, <1>13, <2>1 DEF RescanOK
<1>15. FinalScanOK(p)'
  BY <1>5, <1>6 DEF FinalScanOK
<1> QED
  BY <1>10, <1>12, <1>14, <1>15 DEF VerifyOK

LEMMA NextKeepsVerifyOK ==
  ASSUME VerifyInv, [Next]_vars, Inv', NEW p \in Procs
  PROVE  VerifyOK(p)'
<1>1. Inv /\ VerifyOK(p) /\ StepsFor(p)
  BY EveryStepFor DEF VerifyInv
<1>2. CASE Looks(p)
  BY <1>1, <1>2, ScanIsOK, ReadManifestIsOK, HashFileIsOK, EndHashIsOK DEF Looks
<1>3. CASE call'[p] = call[p] /\ (call[p].op # "none" => Evolves(call[p].dir))
  BY <1>1, <1>3, EvolvedIsOK
<1>4. CASE Fresh(p)'
  BY <1>4 DEF Fresh, VerifyOK, StampsPassed, TodoOK, DigestsOK, HashedOK, RescanOK,
              FinalScanOK
<1> QED
  BY <1>1, <1>2, <1>3, <1>4 DEF StepsFor

-----------------------------------------------------------------------------
(* Only a stage run moves a directory. *)
LEMMA NextKeepsInPlaceInv ==
  ASSUME Inv, InPlaceInv, [Next]_vars
  PROVE  InPlaceInv'
<1> SUFFICES ASSUME mode = "in_place", NEW p \in Procs
             PROVE  run'[p].at # "place"
  BY NextKeepsMode DEF InPlaceInv
<1>1. run \in [Procs -> Runs] /\ run[p] \in Runs /\ run[p].at # "place"
  BY DEF Inv, TypeInv, InPlaceInv
<1>2. CASE run'[p] = run[p]
  BY <1>1, <1>2
<1>3. ASSUME NEW q \in Procs, NEW point, GoTo(q, point), point # "place"
      PROVE  run'[p].at # "place"
  BY <1>1, <1>3 DEF GoTo, Runs
<1>4. ASSUME NEW q \in Procs, ProcStep(q)
      PROVE  run'[p].at # "place"
  <2>1. CASE \/ BindInputs(q) \/ FindExisting(q) \/ RefuseLeftovers(q) \/ BeginPublish(q)
             \/ PublishReturned(q) \/ Place(q) \/ Return(q) \/ Fail(q)
             \/ \E f \in Names : Fill(q, f)
    <3>1. BindInputs(q) \/ FindExisting(q) \/ RefuseLeftovers(q) =>
            GoTo(q, "load") \/ GoTo(q, "existing") \/ GoTo(q, "failed")
      BY DEF BindInputs, FindExisting, RefuseLeftovers
    <3>2. BeginPublish(q) \/ PublishReturned(q) =>
            GoTo(q, "publishing") \/ GoTo(q, "recheck_again") \/ GoTo(q, "returned")
      BY DEF BeginPublish, PublishReturned
    <3>3. Place(q) \/ Return(q) \/ Fail(q) =>
            GoTo(q, "confirm") \/ GoTo(q, "returned") \/ GoTo(q, "failed")
      BY DEF Place, Return, Fail
    <3>4. (\E f \in Names : Fill(q, f)) =>
            GoTo(q, "write") \/ GoTo(q, "recheck") \/ GoTo(q, "publish")
      BY DEF Fill
    <3> QED
      BY <1>3, <2>1, <3>1, <3>2, <3>3, <3>4
  <2>2. CASE Recheck(q)
    <3>1. GoTo(q, RecheckPoints[run[q].at]) /\ run[q].at \in {"recheck", "recheck_again"}
      BY <2>2 DEF Recheck
    <3>2. RecheckPoints[run[q].at] # "place"
      BY <3>1 DEF RecheckPoints
    <3> QED
      BY <1>3, <3>1, <3>2
  <2>3. CASE ReadSource(q) \/ Execute(q) \/ \E f \in Names : Truncate(q, f)
    BY <1>1, <2>3 DEF ReadSource, Execute, Truncate, Runs
  <2>4. CASE Lineage(q)
    BY <1>1, <2>4 DEF Lineage
  <2> QED
    BY <1>4, <2>1, <2>2, <2>3, <2>4 DEF ProcStep
<1>5. ASSUME NEW q \in Procs, Crash(q)
      PROVE  run'[p].at # "place"
  BY <1>1, <1>5 DEF Crash, Idle
<1> QED
  BY <1>1, <1>4, <1>5 DEF Next, ChangeInputs, EditPayload, vars

(* An output directory of a stage run that is not empty stays so.          *)
LEMMA NonEmptyStays ==
  ASSUME Inv, [Next]_vars, mode = "staged", NEW d \in {Out, Other}, NonEmpty(d)
  PROVE  NonEmpty(d)'
<1>1. CASE dirs'[d] = dirs[d]
  BY <1>1 DEF NonEmpty, Exists, Content
<1>2. CASE Sealed(d)'
  BY <1>2, ControlFacts DEF Sealed, NonEmpty, Published
<1> QED
  BY <1>1, <1>2, SealedStays

(* What a step does to the directory of a call. *)
LEMMA DirectoryOfCall ==
  ASSUME Inv, [Next]_vars, NEW p \in Procs
  PROVE  \/ call'[p].op = "none"
         \/ call[p].op # "none" /\ call'[p].dir = call[p].dir
         \/ call'[p].dir = p
         \/ call'[p].dir \in {Out, Other} /\ mode = "in_place"
         \/ call'[p].dir \in {Out, Other} /\ NonEmpty(call'[p].dir)
         \/ Place(p) /\ call'[p].dir \in {Out, Other}
<1>1. call \in [Procs -> Calls] /\ call[p] \in Calls /\ mode \in {"staged", "in_place"}
      /\ (call[p].op = "none" => call[p].at = "end")
  BY DEF Inv, TypeInv, CallOK
<1>2. Output(p) \in {Out, Other} /\ (mode = "staged" => Target(p) = p)
      /\ (mode = "in_place" => Target(p) = Output(p))
  BY OutputIsOut DEF Target
<1>3. CASE call'[p] = call[p]
  BY <1>3
<1>4. ASSUME NEW q \in Procs, ProcStep(q) \/ Crash(q), q # p
      PROVE  call'[p] = call[p]
  BY <1>1, <1>4
  DEF ProcStep, Crash, BindInputs, ReadSource, FindExisting, RefuseLeftovers, Execute,
      Recheck, Truncate, Fill, BeginPublish, Lineage, LineageStep, Scan, ReadManifest,
      HashFile, EndHash, WriteTemporary, RenameManifest, WriteMarker, PublishReturned,
      Place, Return, Fail, lineageVars
<1>5. CASE Crash(p) \/ Fail(p)
  <2>1. call'[p] = NoCall
    BY <1>1, <1>5 DEF Crash, Fail
  <2> QED
    BY <2>1, NoCallFacts
<1>6. CASE FindExisting(p)
  <2>1. call'[p] = Opened("verify", Output(p), None)
    BY <1>1, <1>6 DEF FindExisting
  <2>2. mode = "staged" => NonEmpty(Output(p))
    BY <1>6 DEF FindExisting
  <2> QED
    BY <1>1, <1>2, <2>1, <2>2 DEF Opened, NewCall
<1>7. CASE BeginPublish(p)
  <2>1. call'[p] = Opened("publish", Target(p), None)
    BY <1>1, <1>7 DEF BeginPublish
  <2> QED
    BY <1>1, <1>2, <2>1 DEF Opened, NewCall
<1>8. CASE Place(p)
  <2>1. call'[p] = Opened("verify", Output(p), call[p].manifest)
    BY <1>1, <1>8 DEF Place
  <2> QED
    BY <1>2, <1>8, <2>1 DEF Opened, NewCall
<1>9. CASE Lineage(p)
  <2>1. CASE WriteMarker(p)
    <3>1. call'[p].dir = call[p].dir
      BY <1>1, <2>1 DEF WriteMarker, Opened, NewCall
    <3>2. call[p].at = "marker"
      BY <2>1 DEF WriteMarker
    <3> QED
      BY <1>1, <3>1, <3>2
  <2>2. CASE Scan(p)
    BY <1>1, <2>2, ScanEffect DEF Scan
  <2>3. CASE ReadManifest(p)
    BY <1>1, <2>3 DEF ReadManifest, Calls
  <2>4. CASE \E f \in Names : HashFile(p, f)
    <3>1. PICK f \in Names : HashFile(p, f)
      BY <2>4
    <3>2. call'[p].dir = call[p].dir /\ call[p].at = "hash"
      BY <1>1, <3>1 DEF HashFile, Calls
    <3> QED
      BY <1>1, <3>2
  <2>5. CASE EndHash(p)
    BY <1>1, <2>5 DEF EndHash, Calls
  <2>6. CASE WriteTemporary(p, "bound")
    BY <1>1, <2>6 DEF WriteTemporary, Calls
  <2>7. CASE RenameManifest(p)
    BY <1>1, <2>7 DEF RenameManifest, Calls
  <2> QED
    BY <1>9, <2>1, <2>2, <2>3, <2>4, <2>5, <2>6, <2>7 DEF Lineage, LineageStep
<1>10. ASSUME ProcStep(p), ~FindExisting(p), ~BeginPublish(p), ~Place(p), ~Fail(p),
              ~Lineage(p)
       PROVE  call'[p] = call[p]
  BY <1>10
  DEF ProcStep, BindInputs, ReadSource, RefuseLeftovers, Execute, Recheck, Truncate,
      Fill, PublishReturned, Return, lineageVars
<1>11. ChangeInputs \/ (\E d \in Dirs, f \in Names : EditPayload(d, f)) \/ UNCHANGED vars
         => call' = call
  BY DEF ChangeInputs, EditPayload, vars, lineageVars
<1> QED
  BY <1>3, <1>4, <1>5, <1>6, <1>7, <1>8, <1>9, <1>10, <1>11 DEF Next

LEMMA NextKeepsOpenInv ==
  ASSUME Inv, OpenInv, InPlaceInv, [Next]_vars
  PROVE  OpenInv'
<1>1. ASSUME NEW p \in Procs, NEW d, call'[p].op # "none", d = call'[p].dir
      PROVE  /\ d \in {p, Out, Other}
             /\ mode = "staged" /\ d # p => NonEmpty(d)'
  <2>1. CASE call[p].op # "none" /\ d = call[p].dir
    BY <2>1, NonEmptyStays DEF OpenInv
  <2>2. CASE d = p \/ (d \in {Out, Other} /\ mode = "in_place")
    BY <2>2
  <2>3. CASE d \in {Out, Other} /\ NonEmpty(d)
    BY <2>3, NonEmptyStays
  <2>4. CASE Place(p) /\ d \in {Out, Other}
    <3>1. mode = "staged" /\ Target(p) = p
      BY <2>4, TargetFacts DEF Place, InPlaceInv, Inv, TypeInv
    <3>2. PICK o \in {Out, Other} : o = Output(p)
      BY OutputIsOut
    <3>3. /\ run[p].at = "place"
          /\ dirs' = [dirs EXCEPT ![o] = dirs[p], ![p] = EmptyDir]
          /\ call' = [call EXCEPT ![p] = Opened("verify", o, call[p].manifest)]
      BY <2>4, <3>1, <3>2 DEF Place
    <3>4. d = o
      BY <1>1, <3>3 DEF Inv, TypeInv, Opened, NewCall
    <3>5. dirs'[o] = dirs[p]
      BY <3>3, DirFacts DEF Inv, TypeInv
    <3>6. NonEmpty(p)
      BY <3>1, <3>3, ControlFacts DEF Inv, StagedInv, Mine, Sealed, Published, NonEmpty
    <3> QED
      BY <2>4, <3>4, <3>5, <3>6 DEF NonEmpty, Exists, Content
  <2> QED
    BY <1>1, <2>1, <2>2, <2>3, <2>4, DirectoryOfCall
<1> QED
  BY <1>1, NextKeepsMode DEF OpenInv, NonEmpty, Exists, Content

LEMMA InitVerifyInv == Init => VerifyInv
<1> SUFFICES ASSUME Init
             PROVE  VerifyInv
  OBVIOUS
<1>1. Inv
  BY InitInv
<1>2. \A p \in Procs : call[p].op = "none" /\ run[p].at # "place"
  BY NoCallFacts DEF Init, Idle
<1> QED
  BY <1>1, <1>2 DEF VerifyInv, InPlaceInv, OpenInv, VerifyOK

LEMMA VerifyInvHolds == Spec => []VerifyInv
<1>1. VerifyInv /\ [Next]_vars => VerifyInv'
  <2> SUFFICES ASSUME VerifyInv, [Next]_vars
               PROVE  VerifyInv'
    OBVIOUS
  <2>1. Inv /\ InPlaceInv /\ OpenInv
    BY DEF VerifyInv
  <2>2. Inv'
    BY <2>1, NextKeepsInv
  <2>3. InPlaceInv' /\ OpenInv'
    BY <2>1, NextKeepsInPlaceInv, NextKeepsOpenInv
  <2>4. \A p \in Procs : VerifyOK(p)'
    BY <2>2, NextKeepsVerifyOK
  <2> QED
    BY <2>2, <2>3, <2>4 DEF VerifyInv
<1> QED
  BY <1>1, InitVerifyInv, PTL DEF Spec

(* A manifest that verify_artifact returns was true when the second walk   *)
(* began, if at most one write ever went unseen: whoever else writes, for  *)
(* any number of files, and whenever processes die.                        *)
THEOREM ReturnedWasTrue == Spec => []VerifiedAtRescan
<1>1. VerifyInv => VerifiedAtRescan
  <2> SUFFICES ASSUME VerifyInv, NEW p \in Procs, Verified(p), events.silent <= 1
               PROVE  call[p].trueAtRescan
    BY DEF VerifiedAtRescan
  <2>1. call[p].pass = 3 /\ VerifyOK(p) /\ call[p].op = "verify"
    BY DEF VerifyInv, Inv, CallOK, Verified
  <2>2. events.silent \in Nat
    BY EventFacts DEF VerifyInv
  <2> QED
    BY <2>1, <2>2 DEF VerifyOK, RescanOK
<1> QED
  BY <1>1, VerifyInvHolds, PTL

(* Where every write shows in a snapshot it was true even when the last    *)
(* walk began.                                                             *)
THEOREM ReturnedWasTrueLater == Spec => []VerifiedAtFinalScan
<1>1. VerifyInv => VerifiedAtFinalScan
  <2> SUFFICES ASSUME VerifyInv, NEW p \in Procs, Verified(p), events.silent = 0
               PROVE  call[p].trueAtFinalScan
    BY DEF VerifiedAtFinalScan
  <2>1. call[p].pass = 3 /\ call[p].at = "end" /\ VerifyOK(p) /\ call[p].op = "verify"
    BY DEF VerifyInv, Inv, CallOK, Verified
  <2> QED
    BY <2>1 DEF VerifyOK, FinalScanOK
<1> QED
  BY <1>1, VerifyInvHolds, PTL
=============================================================================
