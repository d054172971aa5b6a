---------------------------- MODULE MCFatSession ----------------------------
(* Instances of FatSession for TLC. *)
EXTENDS FatSession

CONSTANTS x, y, z

F == <<"F", 0>>
G == <<"long file", 0>>
D == <<"D", 0>>
LongG == {G}
GBase == [n \in LongG |-> "LONGFI"]
GParts == [n \in LongG |-> 1]
Volume == <<"VOL", 0>>

\* A volume with a file of 3 units and a directory, made with the library and its window
\* written: the second cluster of the file lies after that of the directory.
Wrote(r, d, n) == FSync(FWrite(r.v, r.fp, d, n).v, FWrite(r.v, r.fp, d, n).fp)
Start(v) == Wrote(FOpen(v, <<F>>, {"FA_WRITE", "FA_CREATE_ALWAYS"}), x, 2)
Grown(r) == Wrote([r EXCEPT !.v = FMkdir(r.v, <<D>>).v], x, 1)
OneFile == {ShownDisk(Grown(Start(Mounted(Formatted))).v)}

Both == {"FA_READ", "FA_WRITE"}
On(o, op) == [o |-> o, op |-> op]
OpenOf(o, p, m) == [op |-> "open", o |-> o, path |-> p, mode |-> m]
WriteOf(o, d, n) == [op |-> "write", o |-> o, data |-> d, size |-> n]
ReadOf(o, n) == [op |-> "read", o |-> o, size |-> n]
SeekOf(o, n) == [op |-> "lseek", o |-> o, to |-> n]
Path(op, p) == [op |-> op, path |-> p]
RenameOf(p, q) == [op |-> "rename", path |-> p, to |-> q]

FileCalls ==
  {OpenOf(1, <<F>>, Both), OpenOf(1, <<F>>, {"FA_READ"}),
   OpenOf(1, <<F>>, {"FA_WRITE", "FA_CREATE_ALWAYS"}),
   SeekOf(1, 0), SeekOf(1, 1), SeekOf(1, 3), SeekOf(1, 6),
   WriteOf(1, y, 1), WriteOf(1, y, 3), ReadOf(1, 2),
   On(1, "truncate"), On(1, "sync"), On(1, "close"),
   OpenOf(2, <<G>>, Both \cup {"FA_OPEN_ALWAYS"}), WriteOf(2, z, 1), On(2, "close")}
PathCalls ==
  {RenameOf(<<F>>, <<G>>), RenameOf(<<F>>, <<D, F>>), RenameOf(<<D>>, <<D, D>>),
   RenameOf(<<D>>, <<G>>), Path("unlink", <<F>>), Path("unlink", <<D>>), Path("mkdir", <<D, D>>), Path("utime", <<F>>),
   Path("stat", <<F>>),
   [op |-> "setlabel", label |-> Volume], [op |-> "setlabel", label |-> NoName],
   [op |-> "getlabel"]}
OpenF == {OpenOf(1, <<F>>, Both), OpenOf(1, <<F>>, {"FA_READ"})}
AllCalls == FileCalls \cup PathCalls

\* Calls enough to cut a file while its buffer is to be written.
CutCalls ==
  {OpenOf(1, <<F>>, Both), SeekOf(1, 0), WriteOf(1, y, 1), On(1, "truncate"), On(1, "close"),
   OpenOf(2, <<G>>, Both \cup {"FA_OPEN_ALWAYS"}), WriteOf(2, z, 2)}
=============================================================================
