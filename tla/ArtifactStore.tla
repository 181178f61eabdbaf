---------------------------- MODULE ArtifactStore ----------------------------
(***************************************************************************)
(* ArtifactStore.put: a file named by the digest of its bytes, and a row   *)
(* of artifacts that refers to it.  Every await of put is a point where    *)
(* other puts run, some of them of the same bytes, and where the process   *)
(* may die.  One element of Puts is one call; equal contents stand for     *)
(* equal digests.  ToolAudit composes these steps with those of its calls. *)
(***************************************************************************)
CONSTANTS Puts, Contents, None   \* None is not a content

VARIABLES
  putting,   \* where each call is
  content,   \* the bytes it was given
  blob,      \* the file at pathForHash of each content
  artifact   \* the content the row it inserted refers to

storeVars == <<putting, content, blob, artifact>>

InPut == {"writing", "renaming", "inserting"}

StoreTypeOK ==
  /\ putting \in [Puts -> InPut \cup {"idle", "stored", "failed"}]
  /\ content \in [Puts -> Contents \cup {None}]
  /\ blob \in [Contents -> {"absent", "partial", "whole"}]
  /\ artifact \in [Puts -> Contents \cup {None}]
  /\ \A w \in Puts : putting[w] # "idle" => content[w] # None

StoreInit ==
  /\ putting = [w \in Puts |-> "idle"]
  /\ content = [w \in Puts |-> None]
  /\ blob = [x \in Contents |-> "absent"]
  /\ artifact = [w \in Puts |-> None]

Goto(w, to) == putting' = [putting EXCEPT ![w] = to]

(* Mutated form of Put: the bytes are written to their destination.        *)
PutInPlace(w, x) ==
  /\ putting[w] = "idle"
  /\ Goto(w, "writing")
  /\ content' = [content EXCEPT ![w] = x]
  /\ blob' = [blob EXCEPT ![x] = "partial"]
  /\ UNCHANGED artifact

(* A temporary file with a name of its own is opened.                      *)
Put(w, x) ==
  /\ putting[w] = "idle"
  /\ Goto(w, "writing")
  /\ content' = [content EXCEPT ![w] = x]
  /\ UNCHANGED <<blob, artifact>>

(* Written, synced and closed.                                             *)
Written(w) ==
  /\ putting[w] = "writing"
  /\ Goto(w, "renaming")
  /\ UNCHANGED <<content, blob, artifact>>

(* The rename replaces the destination, or it fails and the destination    *)
(* already has the digest: the same file either way.                       *)
Placed(w) ==
  /\ putting[w] = "renaming"
  /\ Goto(w, "inserting")
  /\ blob' = [blob EXCEPT ![content[w]] = "whole"]
  /\ UNCHANGED <<content, artifact>>

(* ArtifactRepository.create.                                              *)
Inserted(w) ==
  /\ putting[w] = "inserting"
  /\ Goto(w, "stored")
  /\ artifact' = [artifact EXCEPT ![w] = content[w]]
  /\ UNCHANGED <<content, blob>>

(* Whatever it awaits is rejected, or the insertion throws; a temporary    *)
(* file may be left.                                                       *)
Failed(w) ==
  /\ putting[w] \in InPut
  /\ Goto(w, "failed")
  /\ UNCHANGED <<content, blob, artifact>>

Died ==
  /\ putting' = [w \in Puts |-> IF putting[w] \in InPut THEN "failed" ELSE putting[w]]
  /\ UNCHANGED <<content, blob, artifact>>

(* The file a row refers to is there, with the bytes the row names: no     *)
(* read finds it missing or raises ArtifactIntegrityError, whatever other  *)
(* puts of the same bytes, failures and deaths come between its steps.     *)
RowsAreBacked == \A w \in Puts : artifact[w] # None => blob[artifact[w]] = "whole"
=============================================================================
