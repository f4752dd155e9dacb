---------------------------- MODULE ErrnoTables ----------------------------
(***************************************************************************)
(* The errno_<call>[] tables that errinj_errno draws from, one header per  *)
(* platform.  A table is the set of its elements: how often it repeats one *)
(* only changes how likely that one is.                                    *)
(***************************************************************************)

\* Declarations one after the other: the entries of f, and those of g that f
\* does not have.
f ++ g == [x \in (DOMAIN f) \cup (DOMAIN g) |-> IF x \in DOMAIN f THEN f[x] ELSE g[x]]

\* What resolving a path can fail with, the common part of most tables.
PathErrnos == {"EACCES", "EFAULT", "ELOOP", "ENAMETOOLONG", "ENOENT", "ENOTDIR"}

\* Compiled in if __FreeBSD__ >= 12.
Integrity(v12) == IF v12 THEN {"EINTEGRITY"} ELSE {}

\* unreliablefs_errno_linux.h.
Linux_access_readdir ==
    [access |-> PathErrnos \cup {"EROFS", "EINVAL", "EIO", "ENOMEM",
         "ETXTBSY"},
     chmod |-> PathErrnos \cup {"EIO", "ENOMEM", "EPERM", "EROFS"},
     creat |-> PathErrnos \cup {"EDQUOT", "EEXIST", "EFBIG", "EINTR",
         "EINVAL", "EISDIR", "EMFILE", "ENFILE", "ENODEV", "ENOMEM", "ENOSPC",
         "ENXIO", "EOPNOTSUPP", "EOVERFLOW", "EPERM", "EROFS", "ETXTBSY",
         "EWOULDBLOCK"},
     ftruncate |-> {"EACCES", "EBADF", "EFAULT", "EFBIG", "EINTR", "EINVAL",
         "EIO", "EISDIR", "ELOOP", "ENAMETOOLONG", "ENOTDIR", "EPERM", "EROFS",
         "ETXTBSY"},
     link |-> PathErrnos \cup {"EDQUOT", "EEXIST", "EIO", "EMLINK", "ENOMEM",
         "ENOSPC", "EPERM", "EROFS", "EXDEV"},
     mkdir |-> PathErrnos \cup {"EDQUOT", "EEXIST", "EINVAL", "EMLINK",
         "ENOMEM", "ENOSPC", "EPERM", "EROFS"},
     mknod |-> PathErrnos \cup {"EDQUOT", "EEXIST", "EINVAL", "ENOMEM",
         "ENOSPC", "EPERM", "EROFS"},
     opendir |-> {"EACCES", "EBADF", "EMFILE", "ENOENT", "ENOMEM", "ENOTDIR"},
     readdir |-> {"EBADF"}]

Linux_read_lstat ==
    [read |-> {"EAGAIN", "EWOULDBLOCK", "EBADF", "EFAULT", "EINTR", "EINVAL",
         "EIO", "EISDIR"},
     readlink |-> PathErrnos \cup {"EINVAL", "EIO", "ENOMEM"},
     rename |-> PathErrnos \cup {"EBUSY", "EDQUOT", "EEXIST", "EINVAL",
         "EISDIR", "EMLINK", "ENOMEM", "ENOSPC", "ENOTEMPTY", "EPERM", "EROFS"},
     rmdir |-> PathErrnos \cup {"EBUSY", "EINVAL", "ENOMEM", "ENOTEMPTY",
         "EPERM", "EROFS"},
     symlink |-> PathErrnos \cup {"EDQUOT", "EEXIST", "EIO", "ENOMEM",
         "ENOSPC", "EPERM", "EROFS"},
     truncate |-> PathErrnos \cup {"EFBIG", "EINTR", "EINVAL", "EIO",
         "EISDIR", "EPERM", "EROFS", "ETXTBSY"},
     unlink |-> PathErrnos \cup {"EBUSY", "EIO", "EISDIR", "ENOMEM"},
     write |-> {"EAGAIN", "EWOULDBLOCK", "EBADF", "EDESTADDRREQ", "EDQUOT",
         "EFAULT", "EFBIG", "EINTR", "EINVAL", "ENOSPC", "EPERM", "EPIPE"},
     lstat |-> PathErrnos \cup {"EBADF", "EINVAL", "ENOMEM", "EOVERFLOW"}]

Linux_statfs_fcntl ==
    [statfs |-> PathErrnos \cup {"EINTR", "EIO", "ENOMEM", "ENOSYS",
         "EOVERFLOW"},
     close |-> {"EBADF", "EDQUOT", "EINTR", "EIO", "ENOSPC"},
     utimensat |-> PathErrnos \cup {"EBADF", "EINVAL", "EPERM", "EROFS",
         "ESRCH"},
     fsync |-> {"EBADF", "EDQUOT", "EINVAL", "EIO", "ENOSPC", "EROFS"},
     setxattr |-> PathErrnos \cup {"EDQUOT", "EEXIST", "ENODATA", "ENOSPC",
         "ENOTSUP", "EPERM", "ERANGE", "EBADF", "ENOMEM", "EOVERFLOW"},
     getxattr |-> PathErrnos \cup {"E2BIG", "ENODATA", "ENOTSUP", "ERANGE",
         "EBADF", "ENOMEM", "EOVERFLOW"},
     listxattr |-> PathErrnos \cup {"E2BIG", "ENOTSUP", "ERANGE", "EBADF",
         "ENOMEM", "EOVERFLOW"},
     removexattr |-> PathErrnos \cup {"ENODATA", "ENOTSUP", "EBADF",
         "ENOMEM", "EOVERFLOW"},
     flock |-> {"EBADF", "EINTR", "EINVAL", "ENOLCK", "EWOULDBLOCK"},
     fallocate |-> {"EBADF", "EFBIG", "EINTR", "EINVAL", "EIO", "ENODEV",
         "ENOSPC", "ENOSYS", "EOPNOTSUPP", "EPERM", "ESPIPE", "ETXTBSY"},
     ioctl |-> {"EBADF", "EFAULT", "EINVAL", "ENOTTY"},
     fcntl |-> {"EACCES", "EAGAIN", "EBADF", "EBUSY", "EDEADLK", "EFAULT",
         "EINTR", "EINVAL", "EMFILE", "ENOLCK", "ENOTDIR", "EPERM"}]

\* unreliablefs_errno_freebsd.h.
FreeBSD_access_mknod(v12) ==
    [access |-> Integrity(v12) \cup PathErrnos \cup {"EINVAL", "EIO",
         "EROFS", "ETXTBSY"},
     chmod |-> Integrity(v12) \cup PathErrnos \cup {"EFTYPE", "EIO", "EPERM",
         "EROFS"},
     creat |-> Integrity(v12) \cup PathErrnos \cup {"EBADF", "ECAPMODE",
         "EDQUOT", "EEXIST", "EINTR", "EINVAL", "EIO", "EISDIR", "EMFILE",
         "EMLINK", "ENFILE", "ENOSPC", "ENOTCAPABLE", "ENXIO", "EOPNOTSUPP",
         "EPERM", "EROFS", "ETXTBSY", "EWOULDBLOCK"},
     ftruncate |-> Integrity(v12) \cup PathErrnos \cup {"EBADF", "EFBIG",
         "EINVAL", "EIO", "EISDIR", "EPERM", "EROFS", "ETXTBSY"},
     link |-> Integrity(v12) \cup PathErrnos \cup {"EBADF", "EDQUOT",
         "EEXIST", "EINVAL", "EIO", "EMLINK", "ENOSPC", "EOPNOTSUPP", "EPERM",
         "EROFS", "EXDEV"},
     mkdir |-> Integrity(v12) \cup PathErrnos \cup {"EBADF", "EDQUOT",
         "EEXIST", "EIO", "EMLINK", "ENOSPC", "EPERM", "EROFS"},
     mknod |-> Integrity(v12) \cup PathErrnos \cup {"EBADF", "EDQUOT",
         "EEXIST", "EINVAL", "EIO", "ENOSPC", "EPERM", "EROFS"}]

FreeBSD_opendir_truncate(v12) ==
    [opendir |-> {"EACCES", "ELOOP", "ENAMETOOLONG", "ENOENT", "ENOTDIR"},
     readdir |-> Integrity(v12) \cup {"EBADF", "EFAULT", "EINVAL", "EIO"},
     read |-> Integrity(v12) \cup {"EAGAIN", "EBADF", "EBUSY", "ECONNRESET",
         "EFAULT", "EINTR", "EINVAL", "EIO", "EISDIR", "EOPNOTSUPP", "EOVERFLOW"},
     readlink |-> Integrity(v12) \cup PathErrnos \cup {"EINVAL", "EIO"},
     rename |-> Integrity(v12) \cup PathErrnos \cup {"ECAPMODE", "EDQUOT",
         "EINVAL", "EIO", "EISDIR", "ENOSPC", "ENOTEMPTY", "EPERM", "EROFS",
         "EXDEV"},
     rmdir |-> Integrity(v12) \cup PathErrnos \cup {"EBUSY", "EINVAL", "EIO",
         "ENOTEMPTY", "EPERM", "EROFS"},
     symlink |-> Integrity(v12) \cup PathErrnos \cup {"EDQUOT", "EEXIST",
         "EIO", "ENOSPC", "EPERM", "EROFS"},
     truncate |-> Integrity(v12) \cup PathErrnos \cup {"EFBIG", "EINVAL",
         "EIO", "EISDIR", "EPERM", "EROFS", "ETXTBSY"}]

FreeBSD_unlink_fcntl(v12) ==
    [unlink |-> Integrity(v12) \cup PathErrnos \cup {"EIO", "EISDIR",
         "ENOSPC", "EPERM", "EROFS"},
     write |-> Integrity(v12) \cup {"EAGAIN", "EBADF", "EDQUOT", "EFAULT",
         "EFBIG", "EINTR", "EINVAL", "EIO", "ENOSPC", "EPIPE", "EROFS"},
     lstat |-> Integrity(v12) \cup PathErrnos \cup {"EIO", "EOVERFLOW"},
     statfs |-> Integrity(v12) \cup PathErrnos \cup {"EIO"},
     close |-> {"EBADF", "EINTR", "ENOSPC", "ECONNRESET"},
     utimensat |-> Integrity(v12) \cup PathErrnos \cup {"EBADF", "EINVAL",
         "EIO", "EPERM", "EROFS", "ESRCH"},
     fsync |-> Integrity(v12) \cup {"EBADF", "EINVAL", "EIO"},
     flock |-> {"EBADF", "EINVAL", "ENOLCK", "EOPNOTSUPP", "EWOULDBLOCK"},
     ioctl |-> {"EBADF", "EFAULT", "EINVAL", "ENOTTY"},
     fcntl |-> {"EAGAIN", "EBADF", "EDEADLK", "EINTR", "EINVAL", "EMFILE",
         "ENOLCK", "ENOTTY", "EOPNOTSUPP", "EOVERFLOW", "EPERM", "ESRCH"}]

\* unreliablefs_errno_macosx.h.
MacOSX_access_read ==
    [access |-> PathErrnos \cup {"EINVAL", "EIO", "EROFS", "ETXTBSY"},
     chmod |-> PathErrnos \cup {"EINTR", "EIO", "EPERM", "EROFS"},
     creat |-> PathErrnos \cup {"EAGAIN", "EDQUOT", "EEXIST", "EINTR",
         "EINVAL", "EIO", "EISDIR", "EMFILE", "ENFILE", "ENOSPC", "ENXIO",
         "EOPNOTSUPP", "EOVERFLOW", "EROFS", "ETXTBSY"},
     ftruncate |-> {"EBADF", "EFBIG", "EINTR", "EINVAL", "EIO", "EROFS"},
     link |-> PathErrnos \cup {"EDQUOT", "EEXIST", "EIO", "EMLINK", "ENOSPC",
         "EPERM", "EROFS", "EXDEV"},
     mkdir |-> PathErrnos \cup {"EDQUOT", "EEXIST", "EIO", "EMLINK",
         "ENOSPC", "EROFS"},
     mknod |-> PathErrnos \cup {"EDQUOT", "EEXIST", "EINVAL", "EIO",
         "ENOSPC", "EPERM", "EROFS"},
     opendir |-> {},
     readdir |-> {},
     read |-> {"EAGAIN", "EBADF", "ECONNRESET", "EFAULT", "EINTR", "EINVAL",
         "EIO", "EISDIR", "ENOBUFS", "ENOMEM", "ENOTCONN", "ENXIO", "ETIMEDOUT"}]

MacOSX_readlink_statfs ==
    [readlink |-> PathErrnos \cup {"EINVAL", "EIO"},
     rename |-> PathErrnos \cup {"EDQUOT", "EINVAL", "EIO", "EISDIR",
         "ENOSPC", "ENOTEMPTY", "EPERM", "EROFS", "EXDEV"},
     rmdir |-> PathErrnos \cup {"EBUSY", "EIO", "ENOTEMPTY", "EPERM",
         "EROFS"},
     symlink |-> PathErrnos \cup {"EDQUOT", "EEXIST", "EIO", "ENOSPC",
         "EROFS"},
     truncate |-> PathErrnos \cup {"EFBIG", "EINTR", "EINVAL", "EIO",
         "EISDIR", "EROFS", "ETXTBSY"},
     unlink |-> PathErrnos \cup {"EBUSY", "EIO", "EPERM", "EROFS"},
     write |-> {"EAGAIN", "EBADF", "ECONNRESET", "EDQUOT", "EFAULT", "EFBIG",
         "EINTR", "EINVAL", "EIO", "ENETDOWN", "ENETUNREACH", "ENOSPC", "ENXIO",
         "EPIPE", "EWOULDBLOCK"},
     lstat |-> PathErrnos \cup {"EIO", "EOVERFLOW"},
     statfs |-> PathErrnos \cup {"EIO"}]

MacOSX_close_fcntl ==
    [close |-> {"EBADF", "EINTR", "EIO"},
     utimensat |-> PathErrnos \cup {"EBADF", "EINVAL", "EIO", "EPERM",
         "EROFS", "ESRCH"},
     fsync |-> {"EBADF", "EINTR", "EINVAL", "EIO"},
     setxattr |-> {"E2BIG", "EACCES", "EEXIST", "EFAULT", "EINVAL", "EIO",
         "ELOOP", "ENAMETOOLONG", "ENOATTR", "ENOSPC", "ENOTDIR", "ENOTSUP",
         "EPERM", "ERANGE", "EROFS"},
     getxattr |-> {"EACCES", "EFAULT", "EINVAL", "EIO", "EISDIR", "ELOOP",
         "ENAMETOOLONG", "ENOATTR", "ENOTDIR", "ENOTSUP", "EPERM", "ERANGE"},
     listxattr |-> {"EACCES", "EFAULT", "EINVAL", "EIO", "ELOOP",
         "ENAMETOOLONG", "ENOTDIR", "ENOTSUP", "EPERM", "ERANGE"},
     removexattr |-> {"EACCES", "EFAULT", "EINVAL", "EIO", "ELOOP",
         "ENAMETOOLONG", "ENOATTR", "ENOTDIR", "ENOTSUP", "EPERM", "EROFS"},
     flock |-> {"EBADF", "EINVAL", "ENOTSUP", "EWOULDBLOCK"},
     ioctl |-> {"EBADF", "EINVAL", "ENOTTY"},
     fcntl |-> {"EACCES", "EBADF", "EDEADLK", "EINTR", "EINVAL", "EMFILE",
         "ENOLCK", "EOVERFLOW", "ESRCH"}]

\* unreliablefs_errno_openbsd.h.
OpenBSD_access_opendir ==
    [access |-> PathErrnos \cup {"EINVAL", "EIO", "EPERM", "EROFS",
         "ETXTBSY"},
     chmod |-> PathErrnos \cup {"EINVAL", "EIO", "EPERM", "EROFS"},
     creat |-> PathErrnos \cup {"EBUSY", "EDQUOT", "EEXIST", "EINTR",
         "EINVAL", "EIO", "EISDIR", "EMFILE", "ENFILE", "ENOSPC", "ENXIO",
         "EOPNOTSUPP", "EPERM", "EROFS", "ETXTBSY", "EWOULDBLOCK"},
     ftruncate |-> {"EBADF", "EFBIG", "EINVAL", "EIO"},
     link |-> PathErrnos \cup {"EDQUOT", "EEXIST", "EIO", "EMLINK", "ENOSPC",
         "EOPNOTSUPP", "EPERM", "EROFS", "EXDEV"},
     mkdir |-> PathErrnos \cup {"EDQUOT", "EEXIST", "EIO", "ENOSPC", "EROFS"},
     mknod |-> PathErrnos \cup {"EDQUOT", "EEXIST", "EINVAL", "EIO",
         "ENOSPC", "EPERM", "EROFS"},
     opendir |-> PathErrnos \cup {"EAGAIN", "EBADF", "EDEADLK", "EINTR",
         "EINVAL", "EMFILE", "ENOLCK", "EOVERFLOW", "ESRCH", "EIO", "EBUSY",
         "EDQUOT", "EEXIST", "EISDIR", "ENFILE", "ENOSPC", "ENXIO", "EOPNOTSUPP",
         "EPERM", "EROFS", "ETXTBSY", "EWOULDBLOCK", "ENOMEM"}]

OpenBSD_readdir_unlink ==
    [readdir |-> {"EBADF", "EFAULT", "EINVAL", "EIO"},
     read |-> {"EAGAIN", "EBADF", "EFAULT", "EINTR", "EINVAL", "EIO",
         "EISDIR", "ENOTCONN"},
     readlink |-> PathErrnos \cup {"EINVAL", "EIO"},
     rename |-> PathErrnos \cup {"EDQUOT", "EINVAL", "EIO", "EISDIR",
         "EMLINK", "ENOSPC", "ENOTEMPTY", "EPERM", "EROFS", "EXDEV"},
     rmdir |-> PathErrnos \cup {"EBUSY", "EINVAL", "EIO", "ENOTEMPTY",
         "EPERM", "EROFS"},
     symlink |-> PathErrnos \cup {"EDQUOT", "EEXIST", "EIO", "ENOSPC",
         "EROFS"},
     truncate |-> PathErrnos \cup {"EFBIG", "EINVAL", "EIO", "EISDIR",
         "EROFS", "ETXTBSY"},
     unlink |-> PathErrnos \cup {"EBUSY", "EIO", "EPERM", "EROFS"}]

OpenBSD_write_fcntl ==
    [write |-> {"EAGAIN", "EBADF", "EDESTADDRREQ", "EDQUOT", "EFAULT",
         "EFBIG", "EINTR", "EINVAL", "EIO", "ENETDOWN", "ENOSPC", "EPIPE"},
     lstat |-> PathErrnos \cup {"EIO"},
     statfs |-> PathErrnos \cup {"EIO"},
     close |-> {"EBADF", "EINTR", "EIO"},
     utimensat |-> PathErrnos \cup {"EBADF", "EINVAL", "EIO", "EPERM",
         "EROFS"},
     fsync |-> {"EBADF", "EINVAL", "EIO"},
     flock |-> {"EBADF", "EINVAL", "EOPNOTSUPP", "EWOULDBLOCK"},
     fcntl |-> {"EAGAIN", "EBADF", "EDEADLK", "EINTR", "EINVAL", "EMFILE",
         "ENOLCK", "EOVERFLOW", "ESRCH"}]

\* The header that unreliablefs_errinj.h includes on a platform.
Header(platform, v12) ==
    CASE platform = "linux" ->
             Linux_access_readdir ++ Linux_read_lstat ++ Linux_statfs_fcntl
      [] platform = "freebsd" ->
             FreeBSD_access_mknod(v12) ++ FreeBSD_opendir_truncate(v12)
             ++ FreeBSD_unlink_fcntl(v12)
      [] platform = "macosx" ->
             MacOSX_access_read ++ MacOSX_readlink_statfs ++ MacOSX_close_fcntl
      [] platform = "openbsd" ->
             OpenBSD_access_opendir ++ OpenBSD_readdir_unlink ++ OpenBSD_write_fcntl
============================================================================
