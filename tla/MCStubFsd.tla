----------------------------- MODULE MCStubFsd -----------------------------
(* Small instances of StubFsd: which entry points the threads call. *)
EXTENDS StubFsd, TLC

\* FSCTL also carries the order to quit, ATTACH the detach.
Orderly      == {FS_FSCTL, FS_ATTACH}
WithFind     == {FS_FSCTL, FS_FINDFIRST}
OnlyFind     == {FS_FINDFIRST}
OnlyClose    == {FS_CLOSE}
OnlyFileInfo == {FS_FILEINFO}
OnlyRead     == {FS_READ}
OnlyWrite    == {FS_WRITE}
OnlyIOCtl    == {FS_IOCTL}

Symmetric == Permutations(Clients) \cup Permutations(Daemons)

=============================================================================
