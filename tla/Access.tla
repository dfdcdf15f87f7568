------------------------------- MODULE Access -------------------------------
(***************************************************************************)
(* The access(2) request: Fuse_Access (src/layers/fuse.hpp) and           *)
(* DirectoryLayer::Directory_CheckPermissions (directory.hpp).  One call   *)
(* is made on inputs chosen in Init: the ids of the process (getuid(),     *)
(* getgid()), the owner, group and permission bits of the inode as         *)
(* File_GetAttr reports them, whether the path exists, and the mask the    *)
(* kernel passes.  The st_mode type bits (GetFileTypeMode) lie above the   *)
(* nine permission bits and meet none of the S_I* masks, so st_mode is    *)
(* the permission bits alone.  RunCleaner, which Directory_Exists and     *)
(* Directory_CheckPermissions call first, changes no file                 *)
(* (FileLayerImplementsAbstract) and is left out.                         *)
(***************************************************************************)
EXTENDS Integers, Bitwise

CONSTANTS
    ProcUids,   \* values getuid() may return; 0 is root
    ProcGids,   \* values getgid() may return
    FileUids,   \* owners an inode may have (File_Create, File_Chown)
    FileGids    \* groups an inode may have

ASSUME ProcUids \cup FileUids \subseteq Nat /\ ProcGids \cup FileGids \subseteq Nat

F_OK == 0
X_OK == 1
W_OK == 2
R_OK == 4
Masks == 0 .. 7

S_IRUSR == 256
S_IWUSR == 128
S_IXUSR == 64
S_IRGRP == 32
S_IWGRP == 16
S_IXGRP == 8
S_IROTH == 4
S_IWOTH == 2
S_IXOTH == 1
Modes == 0 .. 511

ENOENT == 2
EACCES == 13

NoAnswer == 1     \* Fuse_Access returns 0 or a negative errno, never 1

VARIABLES
    uid, gid,   \* getuid(), getgid() of the process
    st,         \* [uid, gid, mode] as Directory_GetAttr fills stbuf
    exists,     \* Directory_Exists(path) = 0
    mask,       \* the mask of the request
    answer      \* what Fuse_Access returns, or NoAnswer before the call

vars == <<uid, gid, st, exists, mask, answer>>

(***************************************************************************)
(* Directory_CheckPermissions                                              *)
(***************************************************************************)

\* The permission bits of the class the code picks: the owner's when the
\* process's uid owns the inode, else the group's when its gid is the
\* inode's group, else the others'.
ClassBits(s, u, g) ==
    IF u = s.uid THEN [r |-> S_IRUSR, w |-> S_IWUSR, x |-> S_IXUSR]
    ELSE IF g = s.gid THEN [r |-> S_IRGRP, w |-> S_IWGRP, x |-> S_IXGRP]
    ELSE [r |-> S_IROTH, w |-> S_IWOTH, x |-> S_IXOTH]

\* One "if (flags & F) ret = (permissions & bit) > 0 ? 0 : 1;": a flag in
\* the mask sets ret from its own bit, whatever ret was.
Test(flags, f, mode, bit, ret) ==
    IF (flags & f) > 0 THEN (IF (mode & bit) > 0 THEN 0 ELSE 1) ELSE ret

\* The three tests in the code's order, R then W then X, from ret = 0.
Verdict(flags, mode, c) ==
    Test(flags, X_OK, mode, c.x, Test(flags, W_OK, mode, c.w, Test(flags, R_OK, mode, c.r, 0)))

Directory_CheckPermissions(s, u, g, flags) ==
    IF u = 0 THEN 0
    ELSE IF Verdict(flags, s.mode, ClassBits(s, u, g)) # 0 THEN -EACCES
    ELSE 0

(***************************************************************************)
(* Fuse_Access                                                             *)
(***************************************************************************)

Fuse_Access(e, s, u, g, m) ==
    IF ~e THEN -ENOENT
    ELSE IF m = F_OK THEN 0
    ELSE Directory_CheckPermissions(s, u, g, m)

Init ==
    /\ uid \in ProcUids /\ gid \in ProcGids
    /\ st \in [uid : FileUids, gid : FileGids, mode : Modes]
    /\ exists \in BOOLEAN
    /\ mask \in Masks
    /\ answer = NoAnswer

Access ==
    /\ answer = NoAnswer
    /\ answer' = Fuse_Access(exists, st, uid, gid, mask)
    /\ UNCHANGED <<uid, gid, st, exists, mask>>

\* The call has returned; nothing more happens.
Done == answer # NoAnswer /\ UNCHANGED vars

Next == Access \/ Done

Spec == Init /\ [][Next]_vars

(***************************************************************************)
(* Properties                                                              *)
(***************************************************************************)

\* The POSIX check (spec 4.5, check_permissions) as a reference: root is
\* always granted; anyone else is granted exactly when every flag of the
\* mask has its bit set in the permission triple of the caller's class.
Requested(m) == {f \in {R_OK, W_OK, X_OK} : (m & f) > 0}

BitOf(c, f) == IF f = R_OK THEN c.r ELSE IF f = W_OK THEN c.w ELSE c.x

PosixGrants(s, u, g, m) == u = 0 \/ \A f \in Requested(m) : (s.mode & BitOf(ClassBits(s, u, g), f)) > 0

\* Fuse_Access answers an access(2) request as POSIX does: ENOENT for a
\* missing path, and otherwise 0 exactly when the reference grants every
\* flag of the mask, EACCES when it refuses one.  The code tests R, W and
\* X in turn, each overwriting ret.
AccessIsPosix ==
    answer # NoAnswer =>
        answer = IF ~exists THEN -ENOENT
                 ELSE IF PosixGrants(st, uid, gid, mask) THEN 0
                 ELSE -EACCES

====
