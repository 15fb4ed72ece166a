------------------------------- MODULE MCVfs -------------------------------
(* Model-checking instance of Vfs: two mount names, one a prefix of the    *)
(* other and one ending in the file's name, one registered device and one *)
(* that is not, two vfs addresses and one file_t address, and the file F  *)
(* in the root directory of every mount.  Offsets are WIDTH-bit words so   *)
(* that offs + size can wrap as uint32_t does.                             *)
EXTENDS Vfs, TLC

CONSTANTS fd0, hd9, v1, v2, fh1

MCNames     == {<<"d">>, <<"d", "F">>}
MCDevices   == {fd0}
MCDevArgs   == {fd0, hd9}
MCFsTypes   == {"fat12"}
MCTypeArgs  == {"fat12", "ntfs"}
MCVfsAddrs  == {v1, v2}
MCFileAddrs == {fh1}
MCFileName  == <<"F">>

(* Paths to each mount name: canonical, with a doubled slash before or     *)
(* after the name, with a directory level, relative, the bare mount, and   *)
(* the bare mount after a doubled slash.                                   *)
MCPaths ==
    UNION {{<<"/">> \o n \o <<"/", "F">>, <<"/", "/">> \o n \o <<"/", "F">>,
            <<"/">> \o n \o <<"/", "/", "F">>, <<"/">> \o n \o <<"/", "G", "/", "F">>,
            n \o <<"/", "F">>, <<"/">> \o n, <<"/", "/">> \o n} : n \in MCNames}

(* Heap addresses are interchangeable.                                     *)
Symmetry == Permutations(MCVfsAddrs)
=============================================================================
