--------------------------- MODULE HvmCheckpoint ----------------------------
(***************************************************************************)
(* The checkpoint of the H-VM ledger.  POST /hvm/checkpoint replays the    *)
(* ledger out of the log (rest.rs, engine.rs, vm_bridge.rs) and gives the  *)
(* map to BEpsilonTree::from_map, which builds a tree in hvm.tmp, commits  *)
(* it, renames it to hvm.hbt and syncs the directory.  Each request runs   *)
(* on a thread of its own and nothing excludes two of them; the name of    *)
(* the temporary file is the same for all.                                 *)
(*                                                                         *)
(* A version of the ledger stands for the map replayed from it, a file for *)
(* what a tree opened on it would hold.  How a commit writes the pages is  *)
(* ShadowPaging.                                                           *)
(***************************************************************************)
EXTENDS Naturals

CONSTANTS
    Requests,       \* concurrent requests for a checkpoint
    MaxFiles,       \* bound: files that exist at a time, with a name or without
    MaxVersions,    \* bound: versions of the ledger
    MaxHvmEvents    \* bound: failing calls, kills, power failures, and times that
                    \* a request finds the hvm.tmp of another one in its way

ASSUME HvmCheckpointAssumption ==
    /\ {MaxFiles, MaxVersions, MaxHvmEvents} \subseteq Nat
    /\ MaxVersions > 0

VARIABLES
    ledger,     \* the version of the ledger
    names,      \* the file of each name, 0 for none: hvm.tmp and hvm.hbt
    namesBack,  \* directories a power failure may bring back
    content,    \* the content of each file
    durable,    \* its content at its last sync
    request,    \* what each request does next, with its version and its file
    told,       \* history: the newest version somebody was told is in the checkpoint
    met,        \* history: files that more than one request had a hand in
    late,       \* history: files of an older version than what was renamed before
    hvmUsed     \* history: the events of the bound so far

hvmVars == <<ledger, names, namesBack, content, durable, request, told,
             met, late, hvmUsed>>

Files == 1 .. MaxFiles

\* What a file holds: nothing, the empty tree of a new file, the tree of a
\* version, pages of two builders, or superblocks that fail their checksum
NoPages == [tree |-> "none", of |-> 0]
Genesis == [tree |-> "genesis", of |-> 0]
TreeOf(v) == [tree |-> "whole", of |-> v]
Mixed == [tree |-> "mixed", of |-> 0]
Broken == [tree |-> "broken", of |-> 0]

IdleRequest == [at |-> "idle", of |-> 0, file |-> 0, base |-> NoPages]

HvmInit ==
    /\ ledger = 1
    /\ names = [tmp |-> 0, hbt |-> 0] /\ namesBack = {}
    /\ content = [f \in Files |-> NoPages] /\ durable = content
    /\ request = [r \in Requests |-> IdleRequest]
    /\ told = 0
    /\ met = {} /\ late = {}
    /\ hvmUsed = 0

HvmEvent == hvmUsed < MaxHvmEvents /\ hvmUsed' = hvmUsed + 1

\* Files with a name, now or after a power failure, or open in a request
InUse ==
    (UNION {{d.tmp, d.hbt} : d \in namesBack \union {names}})
        \union {request[r].file : r \in Requests}

-----------------------------------------------------------------------------
(* A request *)

Proceeds(r, at) == request' = [request EXCEPT ![r].at = at]
GivesUp(r) == request' = [request EXCEPT ![r] = IdleRequest]
NextStep(r, at) == request[r].at = at
Renames(new) == names' = new /\ namesBack' = namesBack \union {names}

\* hvm_write: one more instruction in the log
Advance ==
    /\ ledger < MaxVersions /\ ledger' = ledger + 1
    /\ UNCHANGED <<names, namesBack, content, durable, request, told, met, late, hvmUsed>>

\* replay_vm reads the log up to its end
ReplayLedger(r) ==
    /\ NextStep(r, "idle")
    /\ request' = [request EXCEPT ![r].at = "look", ![r].of = ledger]
    /\ UNCHANGED <<ledger, names, namesBack, content, durable, told, met, late, hvmUsed>>

\* tmp_path.exists() ...
LookForTmp(r) ==
    /\ NextStep(r, "look")
    /\ Proceeds(r, IF names.tmp = 0 THEN "open" ELSE "remove")
    /\ UNCHANGED <<ledger, names, namesBack, content, durable, told, met, late, hvmUsed>>

\* ... and remove_file, whose error is returned
RemoveTmp(r) ==
    /\ NextStep(r, "remove")
    /\ IF names.tmp # 0
       THEN /\ Renames([names EXCEPT !.tmp = 0]) /\ Proceeds(r, "open")
            /\ IF \E q \in Requests : request[q].file = names.tmp THEN HvmEvent ELSE UNCHANGED hvmUsed
       ELSE GivesUp(r) /\ UNCHANGED <<names, namesBack, hvmUsed>>
    /\ UNCHANGED <<ledger, content, durable, told, met, late>>

\* open(hvm.tmp): a new file, or the one that somebody made meanwhile.  A file
\* without pages is to be given an empty tree, any other is opened as it is.
OpenTmp(r) ==
    /\ NextStep(r, "open")
    /\ IF names.tmp # 0
       THEN /\ LET found == content[names.tmp]
               IN request' = IF found = Broken
                             THEN [request EXCEPT ![r] = IdleRequest]
                             ELSE [request EXCEPT
                                      ![r].at = IF found = NoPages THEN "genesis" ELSE "build",
                                      ![r].file = names.tmp, ![r].base = found]
            /\ HvmEvent /\ met' = met \union {names.tmp}
            /\ UNCHANGED <<names, namesBack, content, durable, late>>
       ELSE \E f \in Files \ InUse :
                /\ \A g \in Files \ InUse : f <= g
                /\ Renames([names EXCEPT !.tmp = f])
                /\ content' = [content EXCEPT ![f] = NoPages]
                /\ durable' = [durable EXCEPT ![f] = NoPages]
                /\ request' = [request EXCEPT ![r].at = "genesis", ![r].file = f]
                /\ met' = met \ {f} /\ late' = late \ {f}
                /\ UNCHANGED hvmUsed
    /\ UNCHANGED <<ledger, told>>

\* The first superblock and the empty root are written ...
WriteGenesis(r) ==
    /\ NextStep(r, "genesis")
    /\ request' = [request EXCEPT ![r].at = "genesisSync", ![r].base = Genesis]
    /\ LET f == request[r].file
       IN content' = [content EXCEPT ![f] = IF @ = NoPages THEN Genesis ELSE @]
    /\ UNCHANGED <<ledger, names, namesBack, durable, told, met, late, hvmUsed>>

\* sync_all of the file of a request
SyncFile(r) == durable' = [durable EXCEPT ![request[r].file] = content[request[r].file]]

\* ... and synced
SyncGenesis(r) ==
    /\ NextStep(r, "genesisSync") /\ Proceeds(r, "build") /\ SyncFile(r)
    /\ UNCHANGED <<ledger, names, namesBack, content, told, met, late, hvmUsed>>

\* The upserts, and the pages that commit writes and syncs: no superblock
\* reaches them yet.  Two builders that began with the same superblock take
\* the same pages.
HasBuilt(r, f) == request[r].file = f /\ request[r].at \in {"superblock", "superblockSync", "rename"}
Build(r) ==
    LET f == request[r].file
        samePages == content[f] # request[r].base \/ \E q \in Requests \ {r} : HasBuilt(q, f)
    IN /\ NextStep(r, "build") /\ Proceeds(r, "superblock")
       /\ content' = [content EXCEPT ![f] = IF request[r].base = Genesis /\ samePages THEN Mixed ELSE @]
       /\ durable' = [durable EXCEPT ![f] = content'[f]]
       /\ UNCHANGED <<ledger, names, namesBack, told, met, late, hvmUsed>>

\* The superblock of the commit.  On a tree that was not empty the upserts
\* leave the keys the ledger no longer has.
WriteSuperblock(r) ==
    /\ NextStep(r, "superblock") /\ Proceeds(r, "superblockSync")
    /\ LET f == request[r].file
       IN content' = [content EXCEPT ![f] = IF @ = Genesis THEN TreeOf(request[r].of) ELSE Mixed]
    /\ UNCHANGED <<ledger, names, namesBack, durable, told, met, late, hvmUsed>>

SyncSuperblock(r) ==
    /\ NextStep(r, "superblockSync") /\ Proceeds(r, "rename") /\ SyncFile(r)
    /\ UNCHANGED <<ledger, names, namesBack, content, told, met, late, hvmUsed>>

\* Somebody was told of a newer version, or is about to be
NewerIsThere(v) ==
    told > v \/ \E q \in Requests : request[q].at \in {"dirSync", "reopen"} /\ request[q].of > v

\* The tree is closed and whatever is called hvm.tmp becomes hvm.hbt.  Another
\* request may have made it so meanwhile, or may have renamed a newer version.
RenameTmp(r) ==
    /\ NextStep(r, "rename")
    /\ IF names.tmp # 0
       THEN /\ Renames([tmp |-> 0, hbt |-> names.tmp])
            /\ request' = [request EXCEPT ![r].at = "dirSync", ![r].file = 0]
            /\ met' = IF names.tmp = request[r].file THEN met ELSE met \union {names.tmp}
            /\ late' = IF NewerIsThere(request[r].of) THEN late \union {names.tmp} ELSE late
       ELSE GivesUp(r) /\ UNCHANGED <<names, namesBack, met, late>>
    /\ UNCHANGED <<ledger, content, durable, told, hvmUsed>>

\* Mutant of SyncDirectory: the error of the directory's sync is swallowed
SyncDirectorySwallows(r) ==
    /\ NextStep(r, "dirSync") /\ Proceeds(r, "reopen")
    /\ namesBack' \in {{}, namesBack}
    /\ UNCHANGED <<ledger, names, content, durable, told, met, late, hvmUsed>>

SyncDirectory(r) ==
    /\ NextStep(r, "dirSync") /\ Proceeds(r, "reopen")
    /\ namesBack' = {}
    /\ UNCHANGED <<ledger, names, content, durable, told, met, late, hvmUsed>>

\* open(hvm.hbt) for the caller, who is answered Ok.  It gives an empty tree
\* to a file without pages, here too.
Reopen(r) ==
    /\ NextStep(r, "reopen") /\ GivesUp(r)
    /\ LET f == names.hbt
       IN /\ told' = IF content[f] # Broken /\ request[r].of > told THEN request[r].of ELSE told
          /\ IF content[f] = NoPages
             THEN /\ content' = [content EXCEPT ![f] = Genesis]
                  /\ durable' = [durable EXCEPT ![f] = Genesis]
             ELSE UNCHANGED <<content, durable>>
    /\ UNCHANGED <<ledger, names, namesBack, met, late, hvmUsed>>

\* Any system call fails; `?` returns it, and nothing is tried again
HvmFails(r) ==
    /\ ~NextStep(r, "idle") /\ HvmEvent /\ GivesUp(r)
    /\ UNCHANGED <<ledger, names, namesBack, content, durable, told, met, late>>

-----------------------------------------------------------------------------
(* Crashes *)

NobodyAsks == request' = [r \in Requests |-> IdleRequest]

HvmKill ==
    /\ HvmEvent /\ NobodyAsks
    /\ UNCHANGED <<ledger, names, namesBack, content, durable, told, met, late>>

\* What a power failure may leave of a file: a torn superblock leaves the
\* other one, if there is another one
LeftOfFile(f) ==
    IF content[f] = durable[f] THEN {content[f]}
    ELSE {content[f], durable[f]} \union (IF durable[f] = NoPages THEN {Broken} ELSE {})

HvmPowerFails ==
    /\ HvmEvent /\ NobodyAsks
    /\ names' \in namesBack \union {names} /\ namesBack' = {}
    /\ \E left \in [Files -> UNION {LeftOfFile(f) : f \in Files}] :
          /\ \A f \in Files : left[f] \in LeftOfFile(f)
          /\ content' = left /\ durable' = left
    /\ UNCHANGED <<ledger, told, met, late>>

HvmNext ==
    \/ Advance
    \/ \E r \in Requests :
          \/ ReplayLedger(r) \/ LookForTmp(r) \/ RemoveTmp(r) \/ OpenTmp(r)
          \/ WriteGenesis(r) \/ SyncGenesis(r) \/ Build(r)
          \/ WriteSuperblock(r) \/ SyncSuperblock(r)
          \/ RenameTmp(r) \/ SyncDirectory(r) \/ Reopen(r)
          \/ HvmFails(r)
    \/ HvmKill \/ HvmPowerFails

HvmSpec == HvmInit /\ [][HvmNext]_hvmVars

-----------------------------------------------------------------------------
(* Properties *)

\* Every variable has its type.
HvmTypeOK ==
    /\ ledger \in 1 .. MaxVersions /\ told \in 0 .. MaxVersions
    /\ namesBack \union {names} \subseteq [{"tmp", "hbt"} -> 0 .. MaxFiles]
    /\ \A f \in Files :
          {content[f].tree, durable[f].tree} \subseteq {"none", "genesis", "whole", "mixed", "broken"}
    /\ \A r \in Requests : request[r].file \in 0 .. MaxFiles
    /\ met \union late \subseteq Files

\* The checkpoint is replaced whole: at any moment, and after a power failure
\* at that moment, hvm.hbt is the tree of one version of the ledger and no
\* older one than anybody was told is there; before the first one there is no
\* file (hvm_checkpoint: "persist it atomically as a checkpoint"; from_map:
\* "Materializa EXATAMENTE `map` em `path`").  Not so the file that two
\* requests built, or that one built and another one renamed; and a request
\* that replayed the ledger before another one may put back its version.
CheckpointWhole ==
    \A d \in namesBack \union {names} :
        IF d.hbt = 0 THEN told = 0
        ELSE d.hbt \in met \/ \A left \in LeftOfFile(d.hbt) :
                left.tree = "whole" /\ (left.of >= told \/ d.hbt \in late)
=============================================================================
