----------------------------- MODULE FileTransfer -----------------------------
(***************************************************************************)
(* Files dropped onto the client's window, sent over the TCP connection    *)
(* and dropped into a window of the server:                                *)
(*                                                                         *)
(*   whist/file/file_synchronizer.c           the lists of files           *)
(*   whist/file/file_drop.c                   the list of names to drop    *)
(*   client/sync_packets.cpp, server/main.c   the TCP threads              *)
(*                                                                         *)
(* The client's TCP thread goes through its list again and again: the      *)
(* first visit of a file sends its metadata, the next ones a chunk each.   *)
(* The list is walked without its mutex, with the next entry fetched       *)
(* before the present one is handled, while the main thread adds to it.    *)
(***************************************************************************)
EXTENDS Integers, Sequences

CONSTANTS
    Window,          \* packets that fit into the connection before a sender waits
    MaxFiles,        \* bound: files dropped by the user
    MaxPieces,       \* bound: chunks of a file's content
    MaxReconnects    \* bound: connections after the first

\* What the constants have to be; the module that instantiates this one assumes it.
FileAssumption ==
    /\ Window \in Nat \ {0}
    /\ MaxFiles \in Nat /\ MaxPieces \in Nat /\ MaxReconnects \in Nat

Files == 1 .. MaxFiles
Meta(f) == [type |-> "meta", id |-> f]
Body(f, k) == [type |-> "body", id |-> f, piece |-> k]
Close(f) == [type |-> "close", id |-> f]
GroupEnd(g) == [type |-> "group", id |-> g]
\* Entries of the client's list: a file, whose read handle is at piece pos (-1 if
\* it is not open), or the marker of a group's end.
FileEntry(f) == [kind |-> "file", id |-> f, pos |-> -1]
Marker(g) == [kind |-> "marker", id |-> g, pos |-> -1]
NoEntry == [kind |-> "none", id |-> 0, pos |-> -1]

VARIABLES
    files,       \* transferring_files of the client
    wrecked,     \* a race has left the list without its head
    next,        \* next_ of linked_list_for_each: an index of files, 0 for NULL
    adding,      \* the entry that the client's main thread adds, holding the mutex
    dropped,     \* the group of each file the user has dropped
    groups,      \* groups that have ended
    wire,        \* the channel to the server (module Channel)
    linked,      \* the connection is up
    writing,     \* transferring_files of the server: the files that have a handle
    uris,        \* file_uri_list of the server
    written,     \* per file: the pieces the server has written
    ready,       \* files that file_drop_mark_ready was called for
    size,        \* per file: its pieces, as found at its end (history), -1 before
    unread,      \* files the client could not open (history)
    unwritten,   \* files the server could not open (history)
    drops,       \* per group: the list that was dropped (history)
    reconnects,  \* connections made after the first
    first        \* the first file that belongs to this connection (history)

vars == <<files, wrecked, next, adding, dropped, groups, wire, linked, writing, uris, written,
          ready, size, unread, unwritten, drops, reconnects, first>>

Init ==
    /\ files = <<>>
    /\ wrecked = FALSE
    /\ next = 0
    /\ adding = NoEntry
    /\ dropped = <<>>
    /\ groups = 0
    /\ wire = <<>>
    /\ linked = TRUE
    /\ writing = {}
    /\ uris = <<>>
    /\ written = [f \in Files |-> <<>>]
    /\ ready = {}
    /\ size = [f \in Files |-> -1]
    /\ unread = {}
    /\ unwritten = {}
    /\ drops = [g \in Files |-> <<>>]
    /\ reconnects = 0
    /\ first = 1

-----------------------------------------------------------------------------
(***************************************************************************)
(* The client's main thread.                                               *)
(***************************************************************************)
\* handle_file_drop_event, up to the lock of file_synchrony_update_mutex.
DropFile ==
    /\ adding = NoEntry /\ linked
    /\ Len(dropped) < MaxFiles
    /\ dropped' = Append(dropped, groups + 1)
    /\ adding' = FileEntry(Len(dropped) + 1)
    /\ UNCHANGED <<files, wrecked, next, groups, wire, linked, writing, uris, written, ready, size,
                   unread, unwritten, drops, reconnects, first>>

\* The end of a drop of several files.
EndDrop ==
    /\ adding = NoEntry /\ linked
    /\ \E f \in 1 .. Len(dropped) : dropped[f] = groups + 1
    /\ groups' = groups + 1
    /\ adding' = Marker(groups + 1)
    /\ UNCHANGED <<files, wrecked, next, dropped, wire, linked, writing, uris, written, ready, size,
                   unread, unwritten, drops, reconnects, first>>

\* linked_list_add_tail, and the mutex is given back.  Without a head the entry
\* cannot be reached.
AddTail ==
    /\ adding # NoEntry
    /\ files' = IF wrecked THEN files ELSE Append(files, adding)
    /\ adding' = NoEntry
    /\ UNCHANGED <<wrecked, next, dropped, groups, wire, linked, writing, uris, written, ready, size,
                   unread, unwritten, drops, reconnects, first>>

-----------------------------------------------------------------------------
(***************************************************************************)
(* The client's TCP thread, which handles one entry in a step.             *)
(***************************************************************************)
\* A pass through the list begins.
PassBegins ==
    /\ next = 0 /\ files # <<>>
    /\ next' = 1
    /\ UNCHANGED <<files, wrecked, adding, dropped, groups, wire, linked, writing, uris, written, ready,
                   size, unread, unwritten, drops, reconnects, first>>

\* The entry that is visited, and the one fetched for the visit after it.
Entry == files[next]
\* Faulty: the entry after one that was removed is passed over.
SkipsOne(gone) == IF next + 1 <= Len(files) /\ (gone => next + 1 <= Len(files) - 1) THEN next + 1 ELSE 0

Fetched(gone) ==
    IF next = Len(files) THEN 0 ELSE IF gone THEN next ELSE next + 1

Without(s, i) == SubSeq(s, 1, i - 1) \o SubSeq(s, i + 1, Len(s))

\* reset_transferring_file.
Removed == Without(files, next)
Visits(kind) == next # 0 /\ Entry.kind = kind

\* The thread waits for room; over a lost connection the packet is dropped.
SendPacket(packet) ==
    /\ linked => Len(wire) < Window
    /\ wire' = IF linked THEN Append(wire, packet) ELSE wire
VisitUnchanged == UNCHANGED <<adding, dropped, groups, linked, writing, uris, written, ready, unwritten,
                              drops, reconnects, first>>

\* file_synchronizer_handle_type_group_end removes the marker without the mutex:
\* with an entry being added, the list may lose its head.
VisitMarker ==
    /\ Visits("marker")
    /\ files' = Removed
    /\ wrecked' \in IF adding = NoEntry THEN {wrecked} ELSE {wrecked, TRUE}
    /\ next' = Fetched(TRUE)
    /\ SendPacket(GroupEnd(Entry.id))
    /\ UNCHANGED <<size, unread>> /\ VisitUnchanged

\* Faulty: a chunk is read in the visit that opens the file.
ReadsAtOnce ==
    /\ Visits("file") /\ Entry.pos = -1
    /\ adding = NoEntry
    /\ files' = [files EXCEPT ![next].pos = 1]
    /\ next' = Fetched(FALSE)
    /\ SendPacket(Meta(Entry.id))
    /\ UNCHANGED <<wrecked, size, unread>> /\ VisitUnchanged

\* file_synchronizer_open_file_for_reading, and the metadata are sent.
VisitUnopened ==
    /\ Visits("file") /\ Entry.pos = -1
    /\ adding = NoEntry
    /\ files' = [files EXCEPT ![next].pos = 0]
    /\ next' = Fetched(FALSE)
    /\ SendPacket(Meta(Entry.id))
    /\ UNCHANGED <<wrecked, size, unread>> /\ VisitUnchanged

\* The file cannot be opened: its transfer is given up.
OpenFails ==
    /\ Visits("file") /\ Entry.pos = -1
    /\ adding = NoEntry
    /\ files' = Removed
    /\ next' = Fetched(TRUE)
    /\ unread' = unread \cup {Entry.id}
    /\ UNCHANGED <<wire, wrecked, size>> /\ VisitUnchanged

\* file_synchronizer_read_next_file_chunk finds a chunk.
VisitBody ==
    /\ Visits("file") /\ Entry.pos \in 0 .. MaxPieces - 1
    /\ adding = NoEntry
    /\ files' = [files EXCEPT ![next].pos = @ + 1]
    /\ next' = Fetched(FALSE)
    /\ SendPacket(Body(Entry.id, Entry.pos + 1))
    /\ UNCHANGED <<wrecked, size, unread>> /\ VisitUnchanged

\* Faulty: the entry is removed at the end of the file, but no chunk says so.
EndsSilently ==
    /\ Visits("file") /\ Entry.pos >= 0
    /\ adding = NoEntry
    /\ files' = Removed
    /\ next' = Fetched(TRUE)
    /\ size' = [size EXCEPT ![Entry.id] = Entry.pos]
    /\ UNCHANGED <<wire, wrecked, unread>> /\ VisitUnchanged

\* It finds the end of the file.
VisitEnd ==
    /\ Visits("file") /\ Entry.pos >= 0
    /\ adding = NoEntry
    /\ files' = Removed
    /\ next' = Fetched(TRUE)
    /\ size' = [size EXCEPT ![Entry.id] = Entry.pos]
    /\ SendPacket(Close(Entry.id))
    /\ UNCHANGED <<wrecked, unread>> /\ VisitUnchanged

-----------------------------------------------------------------------------
(***************************************************************************)
(* The server's TCP thread.                                                *)
(***************************************************************************)
\* file_synchronizer_open_file_for_writing.  A file that cannot be opened is noted
\* for the drop all the same, and removed by the walk through the list that ends
\* the pass: an entry without a handle is taken for a file to be read.
OpenForWriting(f) ==
    /\ \E opened \in BOOLEAN :
        /\ writing' = IF opened THEN writing \cup {f} ELSE writing
        /\ unwritten' = IF opened THEN unwritten ELSE unwritten \cup {f}
    /\ uris' = Append(uris, f)
    /\ UNCHANGED <<written, ready, drops>>

IsWriting(f) == f \in writing

\* file_synchronizer_write_file_chunk.
WriteChunk(packet) ==
    /\ written' = IF packet.type = "body" /\ IsWriting(packet.id)
                  THEN [written EXCEPT ![packet.id] = Append(@, packet.piece)]
                  ELSE written
    /\ ready' = IF packet.type = "close" /\ IsWriting(packet.id) THEN ready \cup {packet.id} ELSE ready
    /\ writing' = IF packet.type = "close" /\ IsWriting(packet.id)
                  THEN writing \ {packet.id} ELSE writing
    /\ UNCHANGED <<uris, unwritten, drops>>

\* drop_file_into_active_window(NULL).  If there is no window to enter, the names
\* stay for the next drop.
DropAll(g) ==
    /\ \/ drops' = [drops EXCEPT ![g] = uris] /\ uris' = <<>>
       \/ UNCHANGED <<drops, uris>>
    /\ UNCHANGED <<writing, written, ready, unwritten>>

Handles(packet) ==
    \/ packet.type = "meta" /\ OpenForWriting(packet.id)
    \/ packet.type \in {"body", "close"} /\ WriteChunk(packet)
    \/ packet.type = "group" /\ DropAll(packet.id)

ServerReceives ==
    /\ wire # <<>>
    /\ Handles(Head(wire))
    /\ wire' = Tail(wire)
    /\ UNCHANGED <<files, wrecked, next, adding, dropped, groups, linked, size, unread, reconnects, first>>

-----------------------------------------------------------------------------
(***************************************************************************)
(* The end of a connection, and the next one.                              *)
(***************************************************************************)
\* The connection ends: what is under way is lost from some packet on.
Disconnect ==
    /\ linked /\ adding = NoEntry
    /\ linked' = FALSE
    /\ \E n \in 0 .. Len(wire) : wire' = SubSeq(wire, 1, n)
    /\ UNCHANGED <<files, wrecked, next, adding, dropped, groups, writing, uris, written, ready, size,
                   unread, unwritten, drops, reconnects, first>>

\* A new connection: destroy_file_synchronizer at the client and
\* reset_all_transferring_files at the server have emptied both lists, but the
\* names collected for a drop stay.
Reconnect ==
    /\ ~linked /\ next = 0 /\ wire = <<>> /\ ~wrecked
    /\ reconnects < MaxReconnects
    /\ linked' = TRUE
    /\ files' = <<>>
    /\ writing' = {}
    /\ reconnects' = reconnects + 1
    /\ first' = Len(dropped) + 1
    /\ UNCHANGED <<wrecked, next, adding, dropped, groups, wire, uris, written, ready, size, unread,
                   unwritten, drops>>

-----------------------------------------------------------------------------
ClientLoop ==
    \/ PassBegins \/ VisitMarker \/ VisitUnopened \/ OpenFails \/ VisitBody \/ VisitEnd

Next ==
    \/ DropFile \/ EndDrop \/ AddTail
    \/ ClientLoop
    \/ ServerReceives
    \/ Disconnect \/ Reconnect

\* The threads of both ends run; nothing makes the user drop files, end a group,
\* or the connection end.
Fairness == WF_vars(AddTail) /\ WF_vars(ClientLoop) /\ WF_vars(ServerReceives)

Spec == Init /\ [][Next]_vars /\ Fairness

-----------------------------------------------------------------------------
\* A file that is marked ready was written whole: every chunk that the client
\* read, once and in order, whatever other files and markers were sent between
\* them and however often the client connected anew.
FilesArriveWhole == \A f \in ready : written[f] = [k \in 1 .. size[f] |-> k]

\* A drop holds every file of its group that the client has opened over this
\* connection, and no file of a later group: no metadata wait behind the end of
\* their group, although the list grows while it is walked.
GroupIsComplete == [][
    \A g \in Files : drops'[g] # drops[g] =>
        /\ \A f \in first .. Len(dropped) :
              dropped[f] = g /\ f \notin unread => \E i \in DOMAIN drops'[g] : drops'[g][i] = f
        /\ \A i \in DOMAIN drops'[g] : dropped[drops'[g][i]] <= g
    ]_vars

\* A file that was dropped comes to its end at the server, unless it cannot be
\* opened at one of the ends, the list was wrecked, or the connection ended.
FilesSettle == \A f \in Files :
    (Len(dropped) >= f) ~>
        \/ f \in ready \cup unread \cup unwritten
        \/ f < first \/ wrecked \/ ~linked

\* Drops end well: a group is handed over with all of its files, and no file is forgotten
\* (file_synchronizer.c:287-600).
DropsSettle == GroupIsComplete /\ FilesSettle
=============================================================================
