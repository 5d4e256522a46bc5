------------------------------- MODULE HostFs -------------------------------
(***************************************************************************)
(* vm/vm_host_fs.c: the file system calls of the guests.  One descriptor   *)
(* table and one mount table serve every VM; a path names a mount and then *)
(* a file inside it.  A trashfs mount is the volume of Trashfs; behind a   *)
(* host mount is the host's own file system (external), which is only      *)
(* asked to open and close.                                                *)
(*                                                                         *)
(* vol      the mounted volume                                             *)
(* fds      g_fds; a slot of a trashfs file or directory holds its handle  *)
(* mounts   g_mounts                                                       *)
(* handles  FILE* and DIR* the host has open on our behalf                 *)
(* ret      what the last call left in a0                                  *)
(* stale    history: descriptors whose file has been removed since         *)
(* clean    history: no write has gone through such a descriptor           *)
(***************************************************************************)
EXTENDS Trashfs

CONSTANTS
    MaxFiles,      \* VM_HOST_FS_MAX_FILES
    MaxMounts,     \* VM_HOST_FS_MAX_MOUNTS
    MountNames,    \* names the host may mount
    Paths,         \* paths the guests use: <<mount name, component, ...>>
    FlagSets,      \* flags of openat
    Counts,        \* lengths of reads and writes
    Seeks,         \* arguments of lseek: <<offset, whence>>
    MaxPos         \* bound on the position of a file

ASSUME HostFsAssumption ==
    /\ MaxFiles \in Nat \ {0} /\ MaxMounts \in Nat \ {0}
    /\ \A path \in Paths : path \in Seq(STRING) /\ path # <<>>
    /\ Counts \subseteq Nat /\ Seeks \subseteq Int \X {"SET", "CUR", "END"} /\ MaxPos \in Nat

VARIABLES vol, fds, mounts, handles, ret, stale, clean

fsVars == <<vol, fds, mounts, handles, ret, stale, clean>>

Fds == 0..MaxFiles - 1
FreeSlot == [kind |-> "FREE"]
NoMount == [kind |-> "FREE", name |-> "", writable |-> FALSE]
ReadOnly(flags) == "WR" \notin flags

FsInit ==
    /\ vol = trashfs_mount(trashfs_format)
    /\ fds = [d \in Fds |-> FreeSlot]
    /\ mounts = [m \in 0..MaxMounts - 1 |-> NoMount]
    /\ handles = 0 /\ ret = "ok" /\ stale = {} /\ clean = TRUE

-----------------------------------------------------------------------------
(* Descriptors and mounts *)

FreeFds == {d \in Fds : fds[d].kind = "FREE"}
alloc_fd == Least(FreeFds)

find_mount(name) == {m \in DOMAIN mounts : mounts[m].kind # "FREE" /\ mounts[m].name = name}
find_free_mount_slot == {m \in DOMAIN mounts : mounts[m].kind = "FREE"}

MountAt(name, kind, writable) ==
    /\ find_mount(name) = {} /\ find_free_mount_slot # {}
    /\ mounts' = [mounts EXCEPT ![Least(find_free_mount_slot)] =
                    [kind |-> kind, name |-> name, writable |-> writable]]
    /\ ret' = "ok"
    /\ UNCHANGED <<vol, fds, handles, stale, clean>>

vm_host_fs_mount_host(name, writable) == MountAt(name, "HOST", writable)
vm_host_fs_mount_trashfs(name) == MountAt(name, "TRASHFS", TRUE)

\* Descriptors opened through the mount stay open.
vm_host_fs_unmount(name) ==
    /\ find_mount(name) # {}
    /\ mounts' = [mounts EXCEPT ![Least(find_mount(name))] = NoMount]
    /\ ret' = "ok"
    /\ UNCHANGED <<vol, fds, handles, stale, clean>>

\* The mount of a path, and what is wrong with the path.
resolve_guest_path(path) ==
    LET found == find_mount(path[1])
        m == mounts[Least(found)]
    IN  IF found = {} THEN [res |-> "ENOENT", mount |-> NoMount]
        ELSE IF m.kind = "HOST" /\ \E i \in 2..Len(path) : path[i] = ".."
        THEN [res |-> "EPERM", mount |-> m]
        ELSE [res |-> "ok", mount |-> m]

\* A trashfs result as an errno; each handler knows some of them.
Errno(res, known) ==
    LET table == [NOT_FOUND |-> "ENOENT", NOT_DIR |-> "ENOTDIR", NO_SPACE |-> "ENOSPC",
                  INVALID_ARG |-> "EINVAL", EXISTS |-> "EEXIST", NOT_EMPTY |-> "ENOTEMPTY"]
    IN  IF res = "ok" THEN "ok" ELSE IF res \in known THEN table[res] ELSE "EIO"

Refuse(e) == ret' = e /\ UNCHANGED <<vol, fds, mounts, handles, stale, clean>>

-----------------------------------------------------------------------------
(* handle_openat *)

OpenRoot(flags) ==
    \/ /\ "DIRECTORY" \in flags /\ ReadOnly(flags) /\ FreeFds # {}
       /\ fds' = [fds EXCEPT ![alloc_fd] = [kind |-> "ROOT", cursor |-> 0]]
       /\ ret' = "ok" /\ UNCHANGED <<vol, mounts, handles, stale, clean>>
    \/ ~("DIRECTORY" \in flags /\ ReadOnly(flags)) /\ Refuse("EISDIR")
    \/ "DIRECTORY" \in flags /\ ReadOnly(flags) /\ FreeFds = {} /\ Refuse("EMFILE")

OpenRefused(path, flags) ==
    LET r == resolve_guest_path(path)
        writes == ~ReadOnly(flags) \/ flags \cap {"CREAT", "TRUNC", "APPEND"} # {}
    IN  \/ r.res # "ok" /\ Refuse(r.res)
        \/ r.res = "ok" /\ "DIRECTORY" \in flags /\ ~ReadOnly(flags) /\ Refuse("EISDIR")
        \/ /\ r.res = "ok" /\ r.mount.kind = "HOST" /\ "DIRECTORY" \notin flags
           /\ writes /\ ~r.mount.writable /\ Refuse("EROFS")

\* opendir comes before the descriptor, which may not be there.
OpenHostDir(path, flags) ==
    LET r == resolve_guest_path(path)
    IN  /\ r.res = "ok" /\ r.mount.kind = "HOST" /\ "DIRECTORY" \in flags /\ ReadOnly(flags)
        /\ \/ Refuse("ENOENT")
           \/ Refuse(IF FreeFds = {} THEN "EMFILE" ELSE "ENAMETOOLONG")
           \/ /\ FreeFds # {}
              /\ fds' = [fds EXCEPT ![alloc_fd] = [kind |-> "HOST_DIR"]]
              /\ handles' = handles + 1 /\ ret' = "ok"
              /\ UNCHANGED <<vol, mounts, stale, clean>>

\* The descriptor comes before fopen, and is given back when fopen fails.
OpenHostFile(path, flags) ==
    LET r == resolve_guest_path(path)
        writes == ~ReadOnly(flags) \/ flags \cap {"CREAT", "TRUNC", "APPEND"} # {}
    IN  /\ r.res = "ok" /\ r.mount.kind = "HOST" /\ "DIRECTORY" \notin flags
        /\ writes => r.mount.writable
        /\ \/ FreeFds = {} /\ Refuse("EMFILE")
           \/ FreeFds # {} /\ Refuse("ENOENT")
           \/ /\ FreeFds # {}
              /\ fds' = [fds EXCEPT ![alloc_fd] = [kind |-> "HOST_FILE", writable |-> r.mount.writable]]
              /\ handles' = handles + 1 /\ ret' = "ok"
              /\ UNCHANGED <<vol, mounts, stale, clean>>

OpenTrashDir(path, flags) ==
    LET r == resolve_guest_path(path)
    IN  /\ r.res = "ok" /\ r.mount.kind = "TRASHFS" /\ "DIRECTORY" \in flags /\ ReadOnly(flags)
        /\ \E t \in {trashfs_opendir(vol, Tail(path))} :
           \/ FreeFds = {} /\ Refuse("EMFILE")
           \/ FreeFds # {} /\ t.res # "ok" /\ Refuse(Errno(t.res, {"NOT_FOUND", "NOT_DIR"}))
           \/ /\ FreeFds # {} /\ t.res = "ok"
              /\ fds' = [fds EXCEPT ![alloc_fd] = [kind |-> "TRASH_DIR", dir |-> t.dir]]
              /\ ret' = "ok" /\ UNCHANGED <<vol, mounts, handles, stale, clean>>

\* Bug: the file is opened, or made, before a descriptor is found for it.
OpenTrashFile_LateFd(path, flags) ==
    LET r == resolve_guest_path(path)
    IN  /\ r.res = "ok" /\ r.mount.kind = "TRASHFS" /\ "DIRECTORY" \notin flags
        /\ \E t \in {trashfs_open(vol, Tail(path), flags)} :
              /\ vol' = t.vol
              /\ ret' = IF t.res = "ok" /\ FreeFds = {} THEN "EMFILE"
                        ELSE Errno(t.res, {"NOT_FOUND", "NO_SPACE", "INVALID_ARG"})
              /\ fds' = IF t.res = "ok" /\ FreeFds # {}
                        THEN [fds EXCEPT ![alloc_fd] = [kind |-> "TRASH_FILE", file |-> t.file]]
                        ELSE fds
        /\ UNCHANGED <<mounts, handles, stale, clean>>

\* The access mode of the flags is not kept: every file can be written.
OpenTrashFile(path, flags) ==
    LET r == resolve_guest_path(path)
    IN  /\ r.res = "ok" /\ r.mount.kind = "TRASHFS" /\ "DIRECTORY" \notin flags
        /\ IF FreeFds = {} THEN Refuse("EMFILE")
           ELSE \E t \in {trashfs_open(vol, Tail(path), flags)} :
                /\ vol' = t.vol
                /\ ret' = Errno(t.res, {"NOT_FOUND", "NO_SPACE", "INVALID_ARG"})
                /\ fds' = IF t.res = "ok"
                          THEN [fds EXCEPT ![alloc_fd] = [kind |-> "TRASH_FILE", file |-> t.file]]
                          ELSE fds
                /\ UNCHANGED <<mounts, handles, stale, clean>>

-----------------------------------------------------------------------------
(* The other calls *)

fs_close_fd(d) ==
    /\ fds' = [fds EXCEPT ![d] = FreeSlot]
    /\ handles' = IF fds[d].kind \in {"HOST_FILE", "HOST_DIR"} THEN handles - 1 ELSE handles
    /\ stale' = stale \ {d}
    /\ ret' = IF fds[d].kind = "FREE" THEN "EBADF" ELSE "ok"
    /\ UNCHANGED <<vol, mounts, clean>>

fs_read_fd(d, n) ==
    \/ /\ fds[d].kind = "TRASH_FILE"
       /\ fds' = [fds EXCEPT ![d].file = trashfs_read(@, n)]
       /\ ret' = "ok" /\ UNCHANGED <<vol, mounts, handles, stale, clean>>
    \/ fds[d].kind = "HOST_FILE" /\ \E e \in {"ok", "EIO"} : Refuse(e)
    \/ fds[d].kind \notin {"TRASH_FILE", "HOST_FILE"} /\ Refuse("EBADF")

fs_write_fd(d, n) ==
    \/ /\ fds[d].kind = "TRASH_FILE" /\ fds[d].file.pos + n <= MaxPos
       /\ \E w \in {trashfs_write(vol, fds[d].file, n)} :
              /\ vol' = w.vol
              /\ fds' = [fds EXCEPT ![d].file = w.file]
              /\ ret' = Errno(w.res, {"NO_SPACE"})
       /\ clean' = (clean /\ d \notin stale)
       /\ UNCHANGED <<mounts, handles, stale>>
    \/ /\ fds[d].kind = "HOST_FILE"
       /\ \E e \in IF fds[d].writable THEN {"ok", "EIO"} ELSE {"EROFS"} : Refuse(e)
    \/ fds[d].kind \notin {"TRASH_FILE", "HOST_FILE"} /\ Refuse("EBADF")

handle_lseek(d, off, whence) ==
    \/ /\ fds[d].kind = "TRASH_FILE"
       /\ LET s == trashfs_lseek(fds[d].file, off, whence)
          IN  /\ s.file.pos <= MaxPos
              /\ fds' = [fds EXCEPT ![d].file = s.file]
              /\ ret' = Errno(s.res, {"INVALID_ARG"})
       /\ UNCHANGED <<vol, mounts, handles, stale, clean>>
    \/ fds[d].kind = "HOST_FILE" /\ \E e \in {"ok", "EINVAL", "EIO"} : Refuse(e)
    \/ fds[d].kind \notin {"TRASH_FILE", "HOST_FILE"} /\ Refuse("EBADF")

handle_mkdirat(path) ==
    LET r == resolve_guest_path(path)
    IN  \/ r.res # "ok" /\ Refuse(r.res)
        \/ r.res = "ok" /\ r.mount.kind = "HOST" /\ Refuse("EROFS")
        \/ /\ r.res = "ok" /\ r.mount.kind = "TRASHFS"
           /\ \E t \in {trashfs_mkdir(vol, Tail(path))} :
                 /\ vol' = t.vol
                 /\ ret' = Errno(t.res, {"EXISTS", "NOT_FOUND", "NOT_DIR", "NO_SPACE", "INVALID_ARG"})
           /\ UNCHANGED <<fds, mounts, handles, stale, clean>>

\* Descriptors of the removed inode.
Opened(ino) ==
    {d \in Fds : \/ fds[d].kind = "TRASH_FILE" /\ fds[d].file.inode = ino
                 \/ fds[d].kind = "TRASH_DIR" /\ fds[d].dir.inode = ino}

\* Nothing looks whether the file is open.
handle_unlinkat(path, removedir) ==
    LET r == resolve_guest_path(path)
    IN  \/ r.res # "ok" /\ Refuse(r.res)
        \/ r.res = "ok" /\ r.mount.kind = "HOST" /\ Refuse("EROFS")
        \/ /\ r.res = "ok" /\ r.mount.kind = "TRASHFS"
           /\ \E t \in {IF removedir THEN trashfs_rmdir(vol, Tail(path)) ELSE trashfs_unlink(vol, Tail(path))} :
                 /\ vol' = t.vol
                 /\ ret' = Errno(t.res, {"NOT_FOUND", "NOT_DIR", "NOT_EMPTY", "INVALID_ARG"})
                 /\ stale' = stale \cup UNION {Opened(i) : i \in t.gone}
           /\ UNCHANGED <<fds, mounts, handles, clean>>

\* The root listing walks the mount table as it is now.
ReaddirRoot(d) ==
    LET ahead == {m \in DOMAIN mounts : m >= fds[d].cursor /\ mounts[m].kind # "FREE"}
    IN  /\ fds[d].kind = "ROOT"
        /\ fds' = [fds EXCEPT ![d].cursor = IF ahead = {} THEN MaxMounts ELSE Least(ahead) + 1]
        /\ ret' = IF ahead = {} THEN "END" ELSE "ok"
        /\ UNCHANGED <<vol, mounts, handles, stale, clean>>

ReaddirTrash(d) ==
    LET t == trashfs_readdir(vol, fds[d].dir)
    IN  /\ fds[d].kind = "TRASH_DIR"
        /\ fds' = [fds EXCEPT ![d].dir = t.dir]
        /\ ret' = IF t.have THEN "ok" ELSE "END"
        /\ UNCHANGED <<vol, mounts, handles, stale, clean>>

ReaddirOther(d) ==
    \/ fds[d].kind = "HOST_DIR" /\ \E e \in {"ok", "END", "EIO"} : Refuse(e)
    \/ fds[d].kind \notin {"ROOT", "TRASH_DIR", "HOST_DIR"} /\ Refuse("EBADF")

\* vm_host_fs_close_all and vm_host_fs_unmount_all.
vm_host_fs_reset ==
    /\ fds' = [d \in Fds |-> FreeSlot]
    /\ mounts' = [m \in DOMAIN mounts |-> NoMount]
    /\ handles' = handles - Cardinality({d \in Fds : fds[d].kind \in {"HOST_FILE", "HOST_DIR"}})
    /\ stale' = {} /\ ret' = "ok"
    /\ UNCHANGED <<vol, clean>>

FsNext ==
    \/ \E name \in MountNames :
        \/ vm_host_fs_mount_trashfs(name)
        \/ \E w \in BOOLEAN : vm_host_fs_mount_host(name, w)
        \/ vm_host_fs_unmount(name)
    \/ vm_host_fs_reset
    \/ \E flags \in FlagSets :
        \/ OpenRoot(flags)
        \/ \E path \in Paths :
            \/ OpenRefused(path, flags)
            \/ OpenHostDir(path, flags)
            \/ OpenHostFile(path, flags)
            \/ OpenTrashDir(path, flags)
            \/ OpenTrashFile(path, flags)
    \/ \E path \in Paths :
        \/ handle_mkdirat(path)
        \/ \E removedir \in BOOLEAN : handle_unlinkat(path, removedir)
    \/ \E d \in Fds :
        \/ fs_close_fd(d)
        \/ ReaddirRoot(d)
        \/ ReaddirTrash(d)
        \/ ReaddirOther(d)
        \/ \E n \in Counts : fs_read_fd(d, n) \/ fs_write_fd(d, n)
        \/ \E s \in Seeks : handle_lseek(d, s[1], s[2])

FsSpec == FsInit /\ [][FsNext]_fsVars

-----------------------------------------------------------------------------
(* Properties *)

UsedInodes == {i \in Inodes : vol.inode[i].mode # "free"}

\* The pointers of an inode that name block b, and those of its pointer blocks.
References(b) ==
    {r \in Inodes \X (0..Direct + 2) : vol.inode[r[1]].ptr[r[2]] = b}
        \cup {r \in vol.used \X (0..PtrsPerBlock - 1) : vol.data[r[1]].ptr[r[2]] = b}

\* Every allocated block is reached by exactly one pointer, from an inode in
\* use, and every block reached is allocated: nothing leaks and nothing is
\* shared, also when the volume fills up halfway through a call.
BlocksReachableOnce ==
    clean => /\ vol.used = UNION {OwnedBlocks(vol, i) : i \in UsedInodes}
             /\ \A b \in vol.used : Cardinality(References(b)) = 1

\* Every inode in use but the root has exactly one entry, of its own type,
\* in a directory that is in use; no entry names a free inode.
NamespaceIsTree ==
    LET Entries == UNION {{<<i, off>> : off \in Live(vol, i)} : i \in {j \in UsedInodes : vol.inode[j].mode = "dir"}}
        Target(e) == EntryAt(vol, e[1], e[2])
    IN  clean => /\ \A e \in Entries : vol.inode[Target(e).inode].mode = Target(e).type
                 /\ \A i \in UsedInodes \ {RootInode} :
                        Cardinality({e \in Entries : Target(e).inode = i}) = 1

\* The counters of the mounted handle are what a mount would count, even
\* after a call that had to give an inode back.
CachesExact == trashfs_mount(vol) = vol

\* What the directories show.
Names == [i \in {j \in Inodes : vol.inode[j].mode = "dir"} |->
            {EntryAt(vol, i, off) : off \in Live(vol, i)}]

\* A call that reports an error has changed no name, no descriptor and no
\* host handle.
FailedCall ==
    ret' \notin {"ok", "END"} =>
        /\ UNCHANGED <<fds, mounts, handles>>
        /\ vol' = vol \/ Names' = Names
FailedCallChangesNothing == [][FailedCall]_fsVars

\* Every FILE* and DIR* the host has open belongs to a descriptor.
HandlesAreOwned == handles = Cardinality({d \in Fds : fds[d].kind \in {"HOST_FILE", "HOST_DIR"}})

\* The volume is consistent after every call, those that fail midway on a full volume
\* included: every block in use belongs to exactly one inode, every inode in use other than the
\* root has one name, and what trashfs caches in memory is what mounting the region again would
\* find; every handle the host has open belongs to a descriptor (trashfs.c, vm_host_fs.c).
VolumeConsistent == BlocksReachableOnce /\ NamespaceIsTree /\ CachesExact /\ HandlesAreOwned

\* trashfs_write "updates size (if grown)".
WriteNeverShrinks ==
    [][(\E d \in Fds, n \in Counts : fs_write_fd(d, n))
            => \A i \in Inodes : vol'.inode[i].size >= vol.inode[i].size]_fsVars
=============================================================================
