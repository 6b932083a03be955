--------------------------- MODULE ArtifactLineage ---------------------------
(***************************************************************************)
(* Publishing and verifying an artifact directory (lineage.py              *)
(* publish_artifact, verify_artifact), one file system step at a time, so  *)
(* that another process may act between any two of them.                   *)
(*                                                                         *)
(* A directory entry is its content and the stamp that a metadata snapshot *)
(* of it shows (identity, size, mtime, ctime).  A write gives the entry a  *)
(* fresh stamp, and so does the directory's own when the entry appears or  *)
(* goes; a silent write, one within the clock's granularity that keeps the *)
(* size, does not.  The SHA-256 of a content is the content itself, and an *)
(* artifact id is the manifest it hashes.                                  *)
(*                                                                         *)
(* A process has at most one call open.  The call walks its tree three     *)
(* times: scan and hash, scan and hash again, scan.  Size, depth and count *)
(* limits, links and the parsing of the manifest are left out.             *)
(***************************************************************************)
EXTENDS Integers, FiniteSets

CONSTANTS
  Procs,     (* the processes that publish and verify *)
  Dirs,      (* artifact directories *)
  Names,     (* payload file names *)
  None       (* no content: the entry is absent *)

Control == {"manifest.json", "_SUCCESS", "manifest.json.tmp"}

Entries == Names \cup Control

ASSUME LineageAssumption ==
  /\ Names \cap Control = {}
  /\ IsFiniteSet(Names)
  /\ None \notin Nat

VARIABLES
  dirs,   (* directory -> its entries and its own stamp *)
  call    (* process -> its open publish or verify call *)

lineageVars == <<dirs, call>>

-----------------------------------------------------------------------------
Absent == [content |-> None, stamp |-> 0]

EmptyDir == [root |-> 0, entry |-> [e \in Entries |-> Absent]]

Content(d, e) == dirs[d].entry[e].content

Exists(d, e) == Content(d, e) # None

Payload(d) == {f \in Names : Exists(d, f)}

(* The directory after entry e took the given content. *)
Written(dir, e, content) ==
  LET old == dir.entry[e]
  IN [ root  |-> IF (old.content = None) # (content = None) THEN dir.root + 1 ELSE dir.root,
       entry |-> [dir.entry EXCEPT ![e] = [content |-> content, stamp |-> old.stamp + 1]] ]

(* The same, by a rewrite that no metadata snapshot shows. *)
SilentlyWritten(dir, e, content) == [dir EXCEPT !.entry[e].content = content]

-----------------------------------------------------------------------------
(* pass: which of the three walks; todo: the files that are still to be   *)
(* hashed; tree: the stamps of the first walk (None where an entry was    *)
(* absent); digests: what the first hashing found.  The last two fields    *)
(* are history: did the directory hold what the digests say when the       *)
(* second, and when the third walk began?                                  *)
NewCall(op, d, pass, at, manifest) ==
  [ op |-> op, dir |-> d, pass |-> pass, at |-> at, todo |-> {},
    root |-> 0, tree |-> [e \in Entries |-> None],
    digests |-> [f \in Names |-> None], manifest |-> manifest,
    trueAtRescan |-> FALSE, trueAtFinalScan |-> FALSE ]

NoCall == NewCall("none", None, 0, "end", None)

Opened(op, d, manifest) == NewCall(op, d, 1, "scan", manifest)

StampSeen(d, e) == IF Exists(d, e) THEN dirs[d].entry[e].stamp ELSE None

Holds(d, files) == \A f \in Names : Content(d, f) = files[f]

Unchanged(p, e) == StampSeen(call[p].dir, e) = call[p].tree[e]

(* What each step of a call checks; a check that fails is a raise.         *)
(*                                                                         *)
(* From the second walk on everything must look as it did in the first.    *)
(* Mutant: only the second walk compares.                                  *)
TreeUnchangedOnce(p) ==
  call[p].pass = 2 => /\ dirs[call[p].dir].root = call[p].root
                      /\ \A e \in Entries : Unchanged(p, e)

(* _compare_artifact_trees *)
TreeUnchanged(p) ==
  call[p].pass > 1 => /\ dirs[call[p].dir].root = call[p].root
                      /\ \A e \in Entries : Unchanged(p, e)

(* A publication refuses a marker and a left-over temporary; a             *)
(* verification refuses the latter, as a file the manifest does not list.  *)
TreeOK(p) ==
  /\ TreeUnchanged(p)
  /\ ~Exists(call[p].dir, "manifest.json.tmp")
  /\ call[p].op = "publish" => ~Exists(call[p].dir, "_SUCCESS")

(* verify_artifact parses the manifest, compares the marker with it and    *)
(* the tree's files with the ones it lists, and in the second pass the     *)
(* manifest with the first one's.                                          *)
ManifestOK(p) ==
  LET c == call[p]
      read == Content(c.dir, "manifest.json")
  IN /\ \A e \in {"manifest.json", "_SUCCESS"} : c.tree[e] # None /\ Unchanged(p, e)
     /\ Content(c.dir, "_SUCCESS") = read
     /\ \A f \in Names : (c.tree[f] # None) <=> (read.files[f] # None)
     /\ c.manifest # None => read = c.manifest

(* Mutant: the second hashing does not compare digests. *)
DigestOKInFirstPass(p, f) ==
  /\ Unchanged(p, f)
  /\ call[p].pass = 1 /\ call[p].op = "verify" =>
       Content(call[p].dir, f) = call[p].digests[f]

(* A file that is hashed must still show the scanned snapshot, and have    *)
(* the digest the manifest lists or, in a publication, the first hashing   *)
(* found.                                                                  *)
DigestOK(p, f) ==
  /\ Unchanged(p, f)
  /\ call[p].pass = 2 \/ call[p].op = "verify" =>
       Content(call[p].dir, f) = call[p].digests[f]

(* The temporary and the marker are created exclusively. *)
ControlFileOK(p) ==
  LET d == call[p].dir
  IN CASE call[p].at = "write_manifest" -> ~Exists(d, "manifest.json.tmp")
       [] call[p].at = "rename"         -> Exists(d, "manifest.json.tmp")
       [] call[p].at = "marker"         -> ~Exists(d, "_SUCCESS")

Raises(p) ==
  \/ call[p].at = "scan" /\ ~TreeOK(p)
  \/ call[p].at = "manifest" /\ ~ManifestOK(p)
  \/ call[p].at = "hash" /\ \E f \in call[p].todo : ~DigestOK(p, f)
  \/ call[p].at \in {"write_manifest", "rename", "marker"} /\ ~ControlFileOK(p)

-----------------------------------------------------------------------------
AfterScan(op, pass) ==
  CASE pass < 3 /\ op = "publish" -> "hash"
    [] pass < 3 /\ op = "verify"  -> "manifest"
    [] pass = 3 /\ op = "publish" -> "write_manifest"
    [] pass = 3 /\ op = "verify"  -> "end"

(* _scan_artifact looks at every entry and at the root.  The model does so *)
(* at one instant: an entry that changes during the walk changes before or *)
(* after its own snapshot is taken, and only snapshots are compared.       *)
Scan(p) ==
  LET c == call[p]
      true == Holds(c.dir, c.digests)
  IN /\ c.at = "scan"
     /\ TreeOK(p)
     /\ call' = [call EXCEPT
          ![p].at = AfterScan(c.op, c.pass),
          ![p].root = dirs[c.dir].root,
          ![p].tree = [e \in Entries |-> StampSeen(c.dir, e)],
          ![p].todo = IF c.pass < 3 THEN Payload(c.dir) ELSE {},
          ![p].trueAtRescan = IF c.pass = 2 THEN true ELSE @,
          ![p].trueAtFinalScan = IF c.pass = 3 THEN true ELSE @]
     /\ UNCHANGED dirs

ReadManifest(p) ==
  LET read == Content(call[p].dir, "manifest.json")
  IN /\ call[p].at = "manifest"
     /\ ManifestOK(p)
     /\ call' = [call EXCEPT ![p].at = "hash", ![p].manifest = read,
                             ![p].digests = read.files]
     /\ UNCHANGED dirs

HashFile(p, f) ==
  LET c == call[p]
  IN /\ c.at = "hash"
     /\ f \in c.todo
     /\ DigestOK(p, f)
     /\ call' = [call EXCEPT ![p].todo = @ \ {f},
                             ![p].digests[f] = IF c.pass = 1 THEN Content(c.dir, f) ELSE @]
     /\ UNCHANGED dirs

EndHash(p) ==
  /\ call[p].at = "hash"
  /\ call[p].todo = {}
  /\ call' = [call EXCEPT ![p].at = "scan", ![p].pass = @ + 1]
  /\ UNCHANGED dirs

(* The control files: a temporary, renamed over the manifest, the marker.  *)
WriteTemporary(p, about) ==
  LET d == call[p].dir
      manifest == [files |-> call[p].digests, about |-> about]
  IN /\ call[p].at = "write_manifest"
     /\ ControlFileOK(p)
     /\ dirs' = [dirs EXCEPT ![d] = Written(@, "manifest.json.tmp", manifest)]
     /\ call' = [call EXCEPT ![p].at = "rename", ![p].manifest = manifest]

RenameManifest(p) ==
  LET d == call[p].dir
      moved == Written(dirs[d], "manifest.json", Content(d, "manifest.json.tmp"))
  IN /\ call[p].at = "rename"
     /\ ControlFileOK(p)
     /\ dirs' = [dirs EXCEPT ![d] = Written(moved, "manifest.json.tmp", None)]
     /\ call' = [call EXCEPT ![p].at = "marker"]

(* Then the published artifact is verified like any other, and must be the *)
(* one just made.                                                          *)
WriteMarker(p) ==
  LET d == call[p].dir
  IN /\ call[p].at = "marker"
     /\ ControlFileOK(p)
     /\ dirs' = [dirs EXCEPT ![d] = Written(@, "_SUCCESS", call[p].manifest)]
     /\ call' = [call EXCEPT ![p] = Opened("verify", d, call[p].manifest)]

LineageStep(p, about) ==
  \/ Scan(p)
  \/ ReadManifest(p)
  \/ \E f \in Names : HashFile(p, f)
  \/ EndHash(p)
  \/ WriteTemporary(p, about)
  \/ RenameManifest(p)
  \/ WriteMarker(p)

(* The publication's checks before its first scan. *)
MayPublish(d) == ~Exists(d, "_SUCCESS") /\ ~Exists(d, "manifest.json.tmp")
=============================================================================
