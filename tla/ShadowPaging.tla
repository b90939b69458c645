---------------------------- MODULE ShadowPaging ----------------------------
(***************************************************************************)
(* The pages of a B-epsilon tree (heraclitus-btree/src/lib.rs).  Between   *)
(* two commits everything is written to pages that the last durable        *)
(* superblock does not reach; the superblocks alternate between pages 0    *)
(* and 1, and the freed pages are chained in the file itself.              *)
(*                                                                         *)
(* The tree is one leaf and the overflow chains of its values: the pages   *)
(* an operation takes and gives back are those of push_msg on a leaf root, *)
(* of commit and of open.  A value is the number of the write that gave    *)
(* it; a crash is the end of the process or of the machine and leaves of   *)
(* every page written since the last sync the old content, the new one, or *)
(* one that fails its checksum.                                            *)
(***************************************************************************)
EXTENDS Integers, Sequences, SequencesExt

CONSTANTS
    TreeKeys,          \* keys of the tree
    MAX_SB_FREE_LIST,  \* ids of free pages that a superblock holds
    MaxPages,          \* bound: last page of the file
    MaxChain,          \* bound: pages of a value, 0 for one kept in the leaf
    MaxTreeWrites,     \* bound: upserts and deletes
    MaxTreeCommits,    \* bound: commits
    MaxTreeCrashes,    \* bound: crashes
    ReopensSpilled     \* whether a file whose free list has pages of its own is
                       \* written to after it was opened again

ASSUME ShadowPagingAssumption ==
    /\ {MAX_SB_FREE_LIST, MaxChain, MaxTreeWrites, MaxTreeCommits, MaxTreeCrashes} \subseteq Nat
    /\ MAX_SB_FREE_LIST > 0 /\ MaxPages \in Nat \ 0 .. 2
    /\ ReopensSpilled \in BOOLEAN

VARIABLES
    page,      \* the content of each page of the file
    synced,    \* its content at the last sync
    tree,      \* the open tree: the page of its root and the slots of the leaf, as cached
    sb,        \* its superblock, in memory
    active,    \* active_sb_offset, as the number of the page
    epoch,     \* allocated_this_epoch
    recycle,   \* pending_recycle
    treeAt,    \* "closed", "open", "read" only, or the next step of the commit under way
    kept,      \* history: the map of the last commit that was answered
    saving,    \* history: the map of the commit under way, otherwise as kept
    treeUsed   \* history: how much of each bound is spent

fileVars == <<page, synced>>
memoryVars == <<tree, sb, active, epoch, recycle>>
shadowVars == <<fileVars, memoryVars, treeAt, kept, saving, treeUsed>>

PageIds == 0 .. MaxPages

\* The contents of a page.  Torn is also what was never written.
TornPage == [type |-> "torn"]
Leaf(slots) == [type |-> "leaf", slots |-> slots]
Overflow(val, next) == [type |-> "overflow", val |-> val, next |-> next]
FreePage(next, ids) == [type |-> "free", next |-> next, ids |-> ids]
Superblock(gen, root, next, head, free) ==
    [type |-> "superblock", generation |-> gen, root |-> root, nextPage |-> next,
     head |-> head, free |-> free]

\* A slot of the leaf: a value, the first page of its chain, and its pages
NoSlot == [val |-> 0, first |-> 0, len |-> 0]
MapOf(slots) == [k \in TreeKeys |-> slots[k].val]

\* The pages of a chain, followed in the file from the first by `next`, until
\* that is 0
NextOf(file, id) == IF id # 0 /\ file[id].type = "overflow" THEN file[id].next ELSE 0
ChainOf(file, slot) ==
    LET at[n \in 0 .. MaxChain] ==
            IF n = 0 THEN slot.first ELSE NextOf(file, at[n - 1])
    IN  [n \in 1 .. Cardinality({i \in 0 .. MaxChain : at[i] # 0}) |-> at[n - 1]]

\* Init is what open leaves of a file it has just created: an empty leaf in
\* page 2, a superblock in page 0, both synced.
ShadowInit ==
    LET empty == [k \in TreeKeys |-> NoSlot]
    IN /\ sb = Superblock(1, 2, 3, 0, << >>)
       /\ page = [i \in PageIds |-> CASE i = 0 -> sb [] i = 2 -> Leaf(empty) [] OTHER -> TornPage]
       /\ synced = page
       /\ tree = [root |-> 2, slots |-> empty]
       /\ active = 0 /\ epoch = {} /\ recycle = << >>
       /\ treeAt = "open"
       /\ kept = MapOf(empty) /\ saving = kept
       /\ treeUsed = [writes |-> 0, commits |-> 0, crashes |-> 0]

-----------------------------------------------------------------------------
(* Pages taken and given back.  A pool is what these operations change: the *)
(* superblock in memory, the epoch, the pending pages and the file.         *)

Pool == [sb |-> sb, epoch |-> epoch, recycle |-> recycle, file |-> page, ids |-> << >>]

TakesPage(pool, id, newSb) ==
    [pool EXCEPT !.sb = newSb, !.epoch = @ \union {id}, !.ids = Append(@, id)]

\* allocate_id: the last id of the superblock's list; when that is empty, the
\* page at the head of the chain, whose own list becomes the superblock's;
\* when there is no chain, a new page at the end of the file.
AllocateId(pool) ==
    LET s == pool.sb
    IN IF s.free # << >>
       THEN TakesPage(pool, Last(s.free), [s EXCEPT !.free = Front(@)])
       ELSE IF s.head # 0
       THEN LET spill == pool.file[s.head]
            IN TakesPage(pool, s.head, [s EXCEPT !.head = spill.next, !.free = spill.ids])
       ELSE TakesPage(pool, s.nextPage, [s EXCEPT !.nextPage = @ + 1])

AllocateIds(pool, count) ==
    LET taken[n \in 0 .. count] ==
            IF n = 0 THEN pool ELSE AllocateId(taken[n - 1])
    IN  taken[count]

\* Mutant of AddToFreeList: the page does not take the full list over
AddToFreeListDropsIds(pool, id) ==
    IF Len(pool.sb.free) < MAX_SB_FREE_LIST
    THEN [pool EXCEPT !.file[id] = FreePage(0, << >>), !.sb.free = Append(@, id)]
    ELSE [pool EXCEPT !.file[id] = FreePage(pool.sb.head, << >>),
                      !.sb.head = id, !.sb.free = << >>]

\* add_to_free_list: the page is overwritten at once.  When the superblock's
\* list is full the page takes it over and becomes the head of the chain.
AddToFreeList(pool, id) ==
    IF Len(pool.sb.free) < MAX_SB_FREE_LIST
    THEN [pool EXCEPT !.file[id] = FreePage(0, << >>), !.sb.free = Append(@, id)]
    ELSE [pool EXCEPT !.file[id] = FreePage(pool.sb.head, pool.sb.free),
                      !.sb.head = id, !.sb.free = << >>]

\* Mutant of RecycleId: a page the durable superblock reaches is free at once
RecycleIdAtOnce(pool, id) ==
    IF id <= 2 THEN pool
    ELSE AddToFreeList([pool EXCEPT !.epoch = @ \ {id}], id)

\* recycle_id: a page of this epoch is free at once, one the durable
\* superblock may reach only after the next commit.
RecycleId(pool, id) ==
    IF id <= 2 THEN pool
    ELSE IF id \in pool.epoch
    THEN AddToFreeList([pool EXCEPT !.epoch = @ \ {id}], id)
    ELSE [pool EXCEPT !.recycle = Append(@, id)]

Recycled(pool, ids) ==
    LET done[n \in 0 .. Len(ids)] ==
            IF n = 0 THEN pool ELSE RecycleId(done[n - 1], ids[n])
    IN  done[Len(ids)]

\* The pages that waited for a commit are free.
Drained(pool, ids) ==
    LET done[n \in 0 .. Len(ids)] ==
            IF n = 0 THEN pool ELSE AddToFreeList(done[n - 1], ids[n])
    IN  done[Len(ids)]

-----------------------------------------------------------------------------
(* Operations *)

Uses(what, max) ==
    treeUsed[what] < max /\ treeUsed' = [treeUsed EXCEPT ![what] = @ + 1]

\* write_value_chain: each page is written with its successor already known
WithChain(file, ids, val) ==
    [i \in PageIds |->
        IF \E n \in 1 .. Len(ids) : ids[n] = i
        THEN LET n == CHOOSE n \in 1 .. Len(ids) : ids[n] = i
             IN Overflow(val, IF n = Len(ids) THEN 0 ELSE ids[n + 1])
        ELSE file[i]]

\* push_msg on a leaf: the root takes a new page, and the value pages of its
\* own; the chain of the value it replaces and the old root are given back.
\* The root is written by the commit.
PushMsg(k, val, len) ==
    LET taken == AllocateIds(Pool, 1 + len)
        chain == Tail(taken.ids)
        gone  == Append(ChainOf(page, tree.slots[k]), tree.root)
        done  == Recycled([taken EXCEPT !.file = WithChain(@, chain, val)], gone)
    IN /\ taken.sb.nextPage <= MaxPages + 1
       /\ page' = done.file /\ epoch' = done.epoch /\ recycle' = done.recycle
       /\ tree' = [root |-> Head(taken.ids),
                   slots |-> [tree.slots EXCEPT ![k] =
                       [val |-> val, len |-> len, first |-> IF len = 0 THEN 0 ELSE Head(chain)]]]
       /\ sb' = [done.sb EXCEPT !.root = Head(taken.ids)]
       /\ UNCHANGED <<synced, active, treeAt, kept, saving>>

Upsert(k, len) ==
    /\ treeAt = "open" /\ Uses("writes", MaxTreeWrites)
    /\ PushMsg(k, treeUsed.writes + 1, len)

\* A deleted key keeps a slot without a value until the leaf is compacted.
DeleteKey(k) ==
    /\ treeAt = "open" /\ Uses("writes", MaxTreeWrites)
    /\ PushMsg(k, 0, 0)

\* commit, first part: the dirty root is written ...
CommitPages ==
    /\ treeAt = "open" /\ treeAt' = "sync" /\ Uses("commits", MaxTreeCommits)
    /\ page' = [page EXCEPT ![tree.root] = Leaf(tree.slots)]
    /\ saving' = MapOf(tree.slots)
    /\ UNCHANGED <<synced, memoryVars, kept>>

\* ... and synced ...
CommitSync ==
    /\ treeAt = "sync" /\ treeAt' = "superblock"
    /\ synced' = page
    /\ UNCHANGED <<page, memoryVars, kept, saving, treeUsed>>

\* ... the superblock is written over the older of the two ...
CommitSuperblock ==
    /\ treeAt = "superblock" /\ treeAt' = "drain"
    /\ sb' = [sb EXCEPT !.generation = @ + 1]
    /\ page' = [page EXCEPT ![1 - active] = sb']
    /\ UNCHANGED <<synced, tree, active, epoch, recycle, kept, saving, treeUsed>>

\* ... and synced; only now are the pages the older one reaches free.
CommitDrain ==
    LET done == Drained(Pool, recycle)
    IN /\ treeAt = "drain" /\ treeAt' = "open"
       /\ synced' = page /\ page' = done.file /\ sb' = done.sb
       /\ active' = 1 - active /\ recycle' = << >> /\ epoch' = {}
       /\ kept' = saving
       /\ UNCHANGED <<tree, saving, treeUsed>>

-----------------------------------------------------------------------------
(* Crashes, and open *)

\* What a crash may leave of a page
LeftOf(id) == IF page[id] = synced[id] THEN {page[id]} ELSE {page[id], synced[id], TornPage}
Unsynced == {id \in PageIds : page[id] # synced[id]}

\* The end of the process leaves the file, the end of the machine any mixture.
\* OpensCommitted looks at every mixture; the tree goes on from those in which
\* the pages other than the superblocks share one fate, since none of them is
\* reached any more.
TreeCrash ==
    /\ treeAt # "closed" /\ Uses("crashes", MaxTreeCrashes)
    /\ \E first \in LeftOf(0), second \in LeftOf(1), fate \in {"new", "old", "torn"} :
          page' = [id \in PageIds |->
                      CASE id = 0 -> first
                        [] id = 1 -> second
                        [] OTHER -> IF id \notin Unsynced \/ fate = "new" THEN page[id]
                                    ELSE IF fate = "old" THEN synced[id] ELSE TornPage]
    /\ synced' = page'
    /\ treeAt' = "closed"
    /\ tree' = [root |-> 0, slots |-> [k \in TreeKeys |-> NoSlot]]
    /\ sb' = TornPage /\ active' = 0 /\ epoch' = {} /\ recycle' = << >>
    /\ UNCHANGED <<kept, saving>>

Valid(content) == content.type = "superblock"

\* open takes the valid superblock of the higher generation.
ActiveOf(first, second) ==
    CASE Valid(first) /\ Valid(second) -> IF first.generation >= second.generation THEN 0 ELSE 1
      [] Valid(first) /\ ~Valid(second) -> 0
      [] ~Valid(first) /\ Valid(second) -> 1
      [] OTHER -> -1

\* The map read through a superblock, when every page on the way is intact
Intact(file, slot) ==
    LET chain == ChainOf(file, slot)
    IN /\ Len(chain) = slot.len
       /\ \A n \in 1 .. Len(chain) :
             file[chain[n]].type = "overflow" /\ file[chain[n]].val = slot.val
TreeReadable(file, root) ==
    file[root].type = "leaf" /\ \A k \in TreeKeys : Intact(file, file[root].slots[k])

TreeOpen ==
    LET chosen == ActiveOf(page[0], page[1])
    IN /\ treeAt = "closed" /\ chosen # -1 /\ page[page[chosen].root].type = "leaf"
       /\ active' = chosen /\ sb' = page[chosen]
       /\ tree' = [root |-> sb'.root, slots |-> page[sb'.root].slots]
       /\ treeAt' = IF sb'.head = 0 \/ ReopensSpilled THEN "open" ELSE "read"
       /\ kept' = MapOf(tree'.slots) /\ saving' = kept'
       /\ UNCHANGED <<fileVars, epoch, recycle, treeUsed>>

ShadowNext ==
    \/ \E k \in TreeKeys, len \in 0 .. MaxChain : Upsert(k, len)
    \/ \E k \in TreeKeys : DeleteKey(k)
    \/ CommitPages \/ CommitSync \/ CommitSuperblock \/ CommitDrain
    \/ TreeCrash \/ TreeOpen

ShadowSpec == ShadowInit /\ [][ShadowNext]_shadowVars

-----------------------------------------------------------------------------
(* Properties *)

\* Every variable has its type.
ShadowTypeOK ==
    /\ {page[id].type : id \in PageIds} \union {synced[id].type : id \in PageIds}
          \subseteq {"torn", "leaf", "overflow", "free", "superblock"}
    /\ active \in {0, 1} /\ epoch \subseteq 3 .. MaxPages
    /\ tree.root \in PageIds /\ treeUsed.writes <= MaxTreeWrites
    /\ treeAt \in {"closed", "read", "open", "sync", "superblock", "drain"}

\* Whatever moment a crash comes at and whichever of the pages written since
\* the last sync it keeps, loses or tears, open finds a superblock, every page
\* reached from it is the one that was committed, and the map is the one of the
\* last commit answered or of the commit under way (commit, recycle_id:
\* "nunca sobrescrever o que o estado durável ainda aponta").
OpensCommitted ==
    \A first \in LeftOf(0), second \in LeftOf(1) :
        LET chosen == ActiveOf(first, second)
            found  == IF chosen = 0 THEN first ELSE second
            Pages  == {found.root} \union
                      UNION {ToSet(ChainOf(page, page[found.root].slots[k])) : k \in TreeKeys}
        IN /\ chosen # -1
           /\ TreeReadable(page, found.root)
           /\ Pages \intersect Unsynced = {}
           /\ MapOf(page[found.root].slots) \in {kept, saving}

\* A page of an open tree has one role: in the tree, in a chain, in the free
\* list or one of its pages, or waiting for the next commit.  Until a crash
\* none is lost (allocate_id, recycle_id, add_to_free_list, verify_structure).
NextFree(id) == IF id # 0 /\ page[id].type = "free" THEN page[id].next ELSE 0
SpilledIds(id) == IF page[id].type = "free" THEN page[id].ids ELSE << >>
SpillPages ==
    LET at[n \in 0 .. MaxPages] == IF n = 0 THEN sb.head ELSE NextFree(at[n - 1])
    IN  [n \in 1 .. Cardinality({i \in 0 .. MaxPages : at[i] # 0}) |-> at[n - 1]]
RolesWith(spilled) ==
    ({"root", "waits", "free", "spill"} \X {0})
    \union ({"value"} \X TreeKeys) \union ({"held"} \X ToSet(spilled))
PagesOfRole(role, spilled) ==
    CASE role[1] = "root"  -> <<tree.root>>
      [] role[1] = "waits" -> recycle
      [] role[1] = "free"  -> sb.free
      [] role[1] = "spill" -> spilled
      [] role[1] = "held"  -> SpilledIds(role[2])
      [] role[1] = "value" -> ChainOf(page, tree.slots[role[2]])
EachPageOnce ==
    treeAt = "open" =>
        LET spilled == SpillPages
            pages   == [role \in RolesWith(spilled) |-> PagesOfRole(role, spilled)]
            once    == UNION {ToSet(pages[role]) : role \in DOMAIN pages}
        IN /\ \A id \in ToSet(spilled) : page[id].type = "free"
           /\ \A r, q \in DOMAIN pages : \A i \in DOMAIN pages[r], j \in DOMAIN pages[q] :
                 pages[r][i] = pages[q][j] => r = q /\ i = j
           /\ once \subseteq 2 .. sb.nextPage - 1
           /\ treeUsed.crashes = 0 => 3 .. sb.nextPage - 1 \subseteq once
=============================================================================
