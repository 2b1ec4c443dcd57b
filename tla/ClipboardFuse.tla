---------------------------- MODULE ClipboardFuse ----------------------------
(***************************************************************************)
(* The FUSE file streams of the X11 clipboard (xf_cliprdr.c, WITH_FUSE).   *)
(*                                                                         *)
(* When the server copies files, a paste of the local application gets a  *)
(* FileGroupDescriptorW list; xf_cliprdr_fuse_generate_list turns it into  *)
(* an inode table (ino_list) that the FUSE thread serves under the         *)
(* clipboard directory.  A lookup of a file whose size is unknown, and     *)
(* every read, registers a stream in stream_list with the next             *)
(* current_stream_id and sends a File Contents Request; the server's File  *)
(* Contents Response is matched to its stream by id on the channel thread, *)
(* which answers the FUSE request.  xf_cliprdr_clear_cached_data, called   *)
(* by the channel thread on a new format list or data response and by the *)
(* X thread on a paste that needs the server, fails every stream, resets   *)
(* the id to 0 and empties both lists.                                     *)
(*                                                                         *)
(* Three threads share the lists: the FUSE session loop (fuse), the        *)
(* channel thread (chan) and the X event thread (x).  Each list operation  *)
(* under one ArrayList lock is one step; a handler that takes a lock more  *)
(* than once is split where it lets go.  Files are named by their list     *)
(* index; a file's content is <<copy, lindex>>, the server copy it comes   *)
(* from.  The server and the kernel are modelled from MS-RDPECLIP and the  *)
(* FUSE low-level protocol.                                                *)
(***************************************************************************)
EXTENDS Integers, Sequences, FiniteSets

CONSTANTS
  FileLists,     \* file lists the server may copy: [nr, descs]
  MaxCopies,     \* bound on the server's copies
  MaxPastes,     \* bound on the local application's pastes
  MaxFuseOps,    \* bound on FUSE requests of the kernel
  MaxIds,        \* bound on current_stream_id
  AllocCanFail   \* an allocation in generate_list may fail

ASSUME MaxCopies \in Nat \ {0} /\ MaxPastes \in Nat /\ MaxFuseOps \in Nat
ASSUME MaxIds \in Nat /\ AllocCanFail \in BOOLEAN

\* A FILEDESCRIPTORW: a directory or not, the index (1-based) of the
\* descriptor naming its directory or 0 for the root, FD_FILESIZE set.
Descs == [dir : BOOLEAN, parent : Nat, sizeKnown : BOOLEAN]
ASSUME \A L \in FileLists : L.nr \in Nat /\ \A k \in DOMAIN L.descs : L.descs[k] \in Descs

Files == UNION {DOMAIN L.descs : L \in FileLists}   \* lindex + 1
NoFile == <<0, 0>>

VARIABLES
  srvLists,  \* srvLists[c]: the file list of the server's copy c
  c2s, s2c,  \* cliprdr PDUs in flight
  respond,   \* clipboard->respond: the format of the paste in flight
  cached,    \* clipboard->data: the format of the cached data
  inos,      \* ino_list: inos[i] is the inode of number i
  tcopy,     \* the server copy the inode table was built from
  builds,    \* inode tables built so far (an inode's allocation)
  streams,   \* stream_list
  nextId,    \* current_stream_id
  fuse,      \* the FUSE thread inside a lookup or read
  chan,      \* the channel thread inside a callback
  x,         \* the X thread inside a selection request
  known,     \* inodes the kernel holds: [ino, file]
  ops,       \* ops[r]: FUSE request r and the file it is about
  replies,   \* fuse_reply_* calls, in order: [req, kind, data]
  uaf,       \* a SIZE response wrote through a freed inode
  pastes     \* pastes of the local application so far

vars == <<srvLists, c2s, s2c, respond, cached, inos, tcopy, builds, streams,
          nextId, fuse, chan, x, known, ops, replies, uaf, pastes>>
fuseVars == <<fuse, known, ops>>

Idle == [pc |-> "idle", req |-> 0, ino |-> 0, lindex |-> 0, ptr |-> <<0, 0>>, id |-> 0]
srvCopy == Len(srvLists)
Reply(r, k, d) == [req |-> r, kind |-> k, data |-> d]

-----------------------------------------------------------------------------
(* xf_cliprdr_fuse_generate_list                                           *)

RootInode == [lindex |-> -1, dir |-> TRUE, parent |-> 1, children |-> {}, sizeSet |-> TRUE]

\* The directory of descriptor d is already in mapDir: a directory built
\* before it ("we assume that parent folder always appears before its children").
ParentKnown(tbl, d) == d.parent = 0 \/ (d.parent + 1 < Len(tbl) + 1 /\ tbl[d.parent + 1].dir)
ParentIno(d) == IF d.parent = 0 THEN 1 ELSE d.parent + 1

\* Descriptor k linked into its parent's child_inos, the inode not yet added.
Linked(tbl, d, k) == [tbl EXCEPT ![ParentIno(d)].children = @ \cup {k + 1}]
\* ... and appended to ino_list as inode k + 1 (lindex k - 1).
Added(tbl, d, k) ==
  Linked(tbl, d, k) \o <<[lindex |-> k - 1, dir |-> d.dir, parent |-> ParentIno(d),
                          children |-> {}, sizeSet |-> d.dir \/ d.sizeKnown]>>

\* A mutant of OnError: the error ladder stops at error3 and keeps the
\* inodes built so far.
OnErrorKeepsPartial(tbl) == tbl

\* error2: ArrayList_Clear(clipboard->ino_list).
OnError(tbl) == <<>>

\* The tables the loop can leave from descriptor k on, with any one
\* allocation failing before (inode, name) or after (child_inos, mapDir,
\* ino_list) the inode is linked to its parent.
RECURSIVE BuildFrom(_, _, _)
BuildFrom(L, k, tbl) ==
  IF k > Len(L.descs) THEN {tbl}
  ELSE LET d == L.descs[k] IN
       IF ~ParentKnown(tbl, d) THEN {OnError(tbl)}
       ELSE BuildFrom(L, k + 1, Added(tbl, d, k))
            \cup (IF AllocCanFail THEN {OnError(tbl), OnError(Linked(tbl, d, k))} ELSE {})

\* The inode tables generate_list can leave in place of tbl.  A count that
\* does not match nrDescriptors leaves the list as it is.
GenerateList(L, tbl) ==
  IF Len(L.descs) < 1 \/ L.nr # Len(L.descs) THEN {tbl}
  ELSE BuildFrom(L, 1, <<RootInode>>) \cup (IF AllocCanFail THEN {OnError(<<>>)} ELSE {})

-----------------------------------------------------------------------------
(* xf_cliprdr_clear_cached_data, in two steps                              *)

\* Up to ArrayList_Unlock(stream_list): the cached data freed, the id reset
\* and every stream's request answered EIO.
ClearEntries ==
  /\ cached' = "none"
  /\ nextId' = 0
  /\ replies' = replies \o [i \in DOMAIN streams |-> Reply(streams[i].req, "err", NoFile)]

\* ArrayList_Clear of stream_list and ino_list: the streams and the inodes freed.
ClearLists == streams' = <<>> /\ inos' = <<>>

-----------------------------------------------------------------------------
(* The FUSE thread (xf_cliprdr_fuse_lookup, xf_cliprdr_fuse_read)          *)

NewOp(kind, file) == ops' = Append(ops, [op |-> kind, file |-> file])

\* xf_cliprdr_fuse_lookup up to ArrayList_Unlock(ino_list): a size already
\* set is answered at once, else the inode's address is kept for the stream.
FuseLookup ==
  /\ fuse.pc = "idle" /\ Len(ops) < MaxFuseOps
  /\ \E f \in Files :
       LET i == f + 1
           r == Len(ops) + 1
           file == <<tcopy, f - 1>>
       IN /\ NewOp("lookup", file)
          /\ IF i > Len(inos)
             THEN replies' = Append(replies, Reply(r, "err", NoFile)) /\ UNCHANGED <<fuse, known>>
             ELSE IF inos[i].sizeSet
             THEN /\ replies' = Append(replies, Reply(r, "entry", file))
                  /\ known' = known \cup {[ino |-> i, file |-> file]}
                  /\ UNCHANGED fuse
             ELSE /\ fuse' = [Idle EXCEPT !.pc = "l_stream", !.req = r, !.ino = i,
                                  !.lindex = f - 1, !.ptr = <<builds, i>>]
                  /\ UNCHANGED <<known, replies>>
  /\ UNCHANGED <<srvLists, c2s, s2c, respond, cached, inos, tcopy, builds, streams,
                 nextId, chan, x, uaf, pastes>>

\* xf_cliprdr_fuse_read up to ArrayList_Unlock(ino_list), on an inode the
\* kernel holds: the inode of that number now is the one read.
FuseRead ==
  /\ fuse.pc = "idle" /\ Len(ops) < MaxFuseOps
  /\ \E k \in known :
       LET r == Len(ops) + 1 IN
       /\ NewOp("read", k.file)
       /\ IF k.ino < 2 \/ k.ino > Len(inos) \/ inos[k.ino].dir
          THEN replies' = Append(replies, Reply(r, "err", NoFile)) /\ UNCHANGED fuse
          ELSE /\ fuse' = [Idle EXCEPT !.pc = "r_stream", !.req = r, !.ino = k.ino,
                               !.lindex = inos[k.ino].lindex]
               /\ UNCHANGED replies
  /\ UNCHANGED <<srvLists, c2s, s2c, respond, cached, inos, tcopy, builds, streams,
                 nextId, chan, x, known, uaf, pastes>>

\* Under the stream_list lock: a stream of the given kind with the next
\* id and req_data, and current_stream_id incremented.
AddStream(kind) ==
  /\ nextId < MaxIds
  /\ streams' = Append(streams, [id |-> nextId, req |-> fuse.req, ptr |-> fuse.ptr, kind |-> kind])
  /\ nextId' = nextId + 1
  /\ fuse' = [fuse EXCEPT !.pc = "send", !.id = nextId]
  /\ UNCHANGED <<srvLists, c2s, s2c, respond, cached, inos, tcopy, builds, known, ops,
                 replies, chan, x, uaf, pastes>>

\* The lookup's stream: FILECONTENTS_SIZE, req_data = the inode's address.
FuseAddStream == fuse.pc = "l_stream" /\ AddStream("SIZE")

\* The read's stream: FILECONTENTS_RANGE, req_data NULL.
FuseReadStream == fuse.pc = "r_stream" /\ AddStream("RANGE")

\* xf_cliprdr_send_client_file_contents.
FuseSend ==
  /\ fuse.pc = "send"
  /\ c2s' = Append(c2s, [type |-> "ContentsRequest", id |-> fuse.id, lindex |-> fuse.lindex,
                         kind |-> IF fuse.ptr = <<0, 0>> THEN "RANGE" ELSE "SIZE"])
  /\ fuse' = Idle
  /\ UNCHANGED <<srvLists, s2c, respond, cached, inos, tcopy, builds, streams, nextId,
                 known, ops, replies, chan, x, uaf, pastes>>

-----------------------------------------------------------------------------
(* The channel thread                                                      *)

\* xf_cliprdr_server_format_list, up to the unlock in clear_cached_data.
ChanFormatList ==
  /\ chan.pc = "idle" /\ s2c # <<>> /\ Head(s2c).type = "FormatList"
  /\ s2c' = Tail(s2c)
  /\ ClearEntries
  /\ chan' = [pc |-> "clear", fmt |-> "none", copy |-> 0]
  /\ UNCHANGED <<srvLists, c2s, respond, inos, tcopy, builds, streams, fuseVars, x, uaf, pastes>>

\* xf_cliprdr_server_format_data_response up to the unlock in
\* clear_cached_data; a response with no paste waiting is dropped.
ChanDataResponse ==
  /\ chan.pc = "idle" /\ s2c # <<>> /\ Head(s2c).type = "DataResponse"
  /\ s2c' = Tail(s2c)
  /\ IF respond = "none"
     THEN UNCHANGED <<cached, nextId, replies, chan>>
     ELSE ClearEntries /\ chan' = [pc |-> "clear", fmt |-> respond, copy |-> Head(s2c).copy]
  /\ UNCHANGED <<srvLists, c2s, respond, inos, tcopy, builds, streams, fuseVars, x, uaf, pastes>>

\* The rest of the callback: the lists emptied, then for a file list the
\* inode table built and the data cached, and respond answered.
ChanClearDone ==
  /\ chan.pc = "clear"
  /\ streams' = <<>>
  /\ IF chan.fmt = "none"
     THEN inos' = <<>> /\ UNCHANGED <<respond, cached, tcopy, builds>>
     ELSE /\ respond' = "none"
          /\ cached' = chan.fmt
          /\ IF chan.fmt = "files"
             THEN /\ inos' \in GenerateList(srvLists[chan.copy], <<>>)
                  /\ tcopy' = chan.copy
                  /\ builds' = builds + 1
             ELSE inos' = <<>> /\ UNCHANGED <<tcopy, builds>>
  /\ chan' = [pc |-> "idle", fmt |-> "none", copy |-> 0]
  /\ UNCHANGED <<srvLists, c2s, s2c, nextId, fuseVars, replies, x, uaf, pastes>>

\* xf_cliprdr_server_file_contents_response: the first stream with the id
\* answers its request and is removed; an unknown id is ignored.
ChanContentsResponse ==
  /\ chan.pc = "idle" /\ s2c # <<>> /\ Head(s2c).type = "ContentsResponse"
  /\ s2c' = Tail(s2c)
  /\ LET m == Head(s2c)
         found == {i \in DOMAIN streams : streams[i].id = m.id}
     IN IF found = {} THEN UNCHANGED <<inos, streams, known, replies, uaf>>
        ELSE LET i == CHOOSE j \in found : \A j2 \in found : j <= j2
                 s == streams[i]
                 live == s.ptr[1] = builds /\ s.ptr[2] <= Len(inos)
             IN /\ streams' = [j \in 1..Len(streams) - 1 |-> IF j < i THEN streams[j] ELSE streams[j + 1]]
                /\ IF s.kind = "RANGE"
                   THEN /\ replies' = Append(replies, Reply(s.req, "data", m.data))
                        /\ UNCHANGED <<inos, known, uaf>>
                   ELSE IF m.data = NoFile
                   THEN /\ replies' = Append(replies, Reply(s.req, "err", NoFile))
                        /\ UNCHANGED <<inos, known, uaf>>
                   ELSE /\ replies' = Append(replies, Reply(s.req, "entry", m.data))
                        /\ known' = known \cup {[ino |-> s.ptr[2], file |-> ops[s.req].file]}
                        /\ uaf' = (uaf \/ ~live)
                        /\ inos' = IF live THEN [inos EXCEPT ![s.ptr[2]].sizeSet = TRUE] ELSE inos
  /\ UNCHANGED <<srvLists, c2s, respond, cached, tcopy, builds, nextId, fuse, ops, chan, x, pastes>>

-----------------------------------------------------------------------------
(* The X thread: xf_cliprdr_process_selection_request for data the client  *)
(* does not hold, which asks the server                                     *)

XPaste ==
  /\ x.pc = "idle" /\ respond = "none" /\ pastes < MaxPastes
  /\ \E f \in {"files", "text"} :
       /\ cached # f
       /\ ClearEntries
       /\ x' = [pc |-> "clear", fmt |-> f]
  /\ pastes' = pastes + 1
  /\ UNCHANGED <<srvLists, c2s, s2c, respond, inos, tcopy, builds, streams, fuseVars, chan, uaf>>

XPasteDone ==
  /\ x.pc = "clear"
  /\ ClearLists
  /\ respond' = x.fmt
  /\ c2s' = Append(c2s, [type |-> "DataRequest"])
  /\ x' = [pc |-> "idle", fmt |-> "none"]
  /\ UNCHANGED <<srvLists, s2c, cached, tcopy, builds, nextId, fuseVars, replies, chan, uaf, pastes>>

-----------------------------------------------------------------------------
(* The server (MS-RDPECLIP 2.2.5.3, 2.2.5.4)                               *)

\* A File Contents Response from the server's current list, with no data
\* for an index it does not have or a directory.
ContentsOf(m) ==
  LET L == srvLists[srvCopy].descs IN
  IF m.lindex + 1 \in DOMAIN L /\ ~L[m.lindex + 1].dir THEN <<srvCopy, m.lindex>> ELSE NoFile

ServerReceive ==
  /\ c2s # <<>>
  /\ c2s' = Tail(c2s)
  /\ s2c' = Append(s2c, IF Head(c2s).type = "DataRequest"
                        THEN [type |-> "DataResponse", copy |-> srvCopy]
                        ELSE [type |-> "ContentsResponse", id |-> Head(c2s).id,
                              data |-> ContentsOf(Head(c2s))])
  /\ UNCHANGED <<srvLists, respond, cached, inos, tcopy, builds, streams, nextId,
                 fuseVars, replies, chan, x, uaf, pastes>>

ServerCopy ==
  /\ srvCopy < MaxCopies
  /\ \E L \in FileLists : srvLists' = Append(srvLists, L)
  /\ s2c' = Append(s2c, [type |-> "FormatList"])
  /\ UNCHANGED <<c2s, respond, cached, inos, tcopy, builds, streams, nextId,
                 fuseVars, replies, chan, x, uaf, pastes>>

-----------------------------------------------------------------------------

\* The client holds the server's first format list, and nothing is cached.
Init ==
  /\ srvLists \in {<<L>> : L \in FileLists}
  /\ c2s = <<>> /\ s2c = <<>>
  /\ respond = "none" /\ cached = "none"
  /\ inos = <<>> /\ tcopy = 0 /\ builds = 0
  /\ streams = <<>> /\ nextId = 0
  /\ fuse = Idle /\ chan = [pc |-> "idle", fmt |-> "none", copy |-> 0]
  /\ x = [pc |-> "idle", fmt |-> "none"]
  /\ known = {} /\ ops = <<>> /\ replies = <<>> /\ uaf = FALSE /\ pastes = 0

Next ==
  \/ FuseLookup \/ FuseRead \/ FuseAddStream \/ FuseReadStream \/ FuseSend
  \/ ChanFormatList \/ ChanDataResponse \/ ChanClearDone \/ ChanContentsResponse
  \/ XPaste \/ XPasteDone
  \/ ServerReceive \/ ServerCopy

\* Each thread, and the server, runs whenever it has work: the FUSE thread
\* finishes a request it started, the channel thread handles every PDU,
\* the X thread finishes a paste, the server answers every request.
Fairness ==
  /\ WF_vars(FuseAddStream) /\ WF_vars(FuseReadStream) /\ WF_vars(FuseSend)
  /\ WF_vars(ChanFormatList \/ ChanDataResponse \/ ChanClearDone \/ ChanContentsResponse)
  /\ WF_vars(XPasteDone) /\ WF_vars(ServerReceive)

Spec == Init /\ [][Next]_vars /\ Fairness

-----------------------------------------------------------------------------
(* Properties                                                              *)

TypeOK ==
  /\ respond \in {"none", "files", "text"} /\ cached \in {"none", "files", "text"}
  /\ nextId \in 0..MaxIds /\ builds \in Nat /\ uaf \in BOOLEAN
  /\ fuse.pc \in {"idle", "l_stream", "r_stream", "send"}
  /\ chan.pc \in {"idle", "clear"} /\ x.pc \in {"idle", "clear"}

\* The inode table the FUSE thread serves is empty or the whole tree of the
\* file list it was built from: inode i + 1 is descriptor i, every inode
\* hangs under a directory that lists it, and a directory lists only
\* inodes that exist.  generate_list's error ladder must leave no partial
\* table when an allocation fails or a parent comes after its child.
InodeTableWellFormed ==
  inos # <<>> =>
    /\ Len(inos) = Len(srvLists[tcopy].descs) + 1
    /\ inos[1].dir /\ inos[1].lindex = -1
    /\ \A i \in 2..Len(inos) :
         /\ inos[i].lindex = i - 2
         /\ inos[i].parent \in 1..i - 1 /\ inos[inos[i].parent].dir
         /\ i \in inos[inos[i].parent].children
    /\ \A i \in 1..Len(inos) : \A c \in inos[i].children : c \in 2..Len(inos) /\ inos[c].parent = i

\* A read answered with data gets the file the kernel opened: the reply
\* to a FUSE read is never another file's content, whether the stream id
\* was reused after clear_cached_data reset current_stream_id, the inode
\* number now names a file of a newer list, or the server changed copies.
ReadGetsItsFile ==
  \A j \in DOMAIN replies : replies[j].kind = "data" => replies[j].data = ops[replies[j].req].file

\* fuse_reply_* is called once per request.
RepliedOnce ==
  \A j, k \in DOMAIN replies : j < k => replies[j].req # replies[k].req

\* A SIZE response never writes st_size through an inode freed by
\* clear_cached_data ("child_node is not guaranteed to be valid").
NoUseAfterFree == ~uaf

\* Every FUSE request is eventually answered, provided the server answers.
EveryRequestReplied ==
  \A r \in 1..MaxFuseOps :
    [](r <= Len(ops) => <>(\E j \in DOMAIN replies : replies[j].req = r))
=============================================================================
