------------------------------ MODULE FileTree ------------------------------
(***************************************************************************)
(* The in-memory file tree of fs/filetree.rs and the system calls that     *)
(* walk and change it (sys_call/fd/dir.rs, and the tree half of sys_openat *)
(* and sys_close in sys_call/fd/open.rs).                                  *)
(*                                                                         *)
(* An INode is a node id with a filename, a FileType, a Weak parent and a  *)
(* Vec of Rc children.  A node is alive while an Rc reaches it: FILE_TREE  *)
(* holds the root, CACHE_FILES the cached File's inode, the process its    *)
(* workspace and the File of each open descriptor, and a live node its     *)
(* children.  A Weak parent upgrades only to a live node.  Paths are       *)
(* sequences of components; get_curr_dir and split_path trim the slashes,  *)
(* so a leading "/" changes nothing and is left out.                       *)
(***************************************************************************)
EXTENDS Integers, Sequences, FiniteSets

CONSTANTS Nodes,     \* node ids: the root, the boot file, and fresh nodes
          Root,      \* FILE_TREE
          BootFile,  \* the FAT file busybox, a child of the root
          Names,     \* filenames a path may use; the boot file's among them
          BootName,  \* its filename
          Cached,    \* cache_file("busybox") ran: TRUE except on board_k210
          MaxFd,     \* descriptor slots of the process
          MaxPath,   \* the longest path, in components
          MaxCalls,  \* system calls in a run
          None

\* dir_fd == FD_NULL (-100 as usize): no base directory.
FD_NULL == -100

Fds == 1 .. MaxFd

\* Path components: names, and the "." and ".." get_children resolves.
Comps == Names \cup {".", ".."}

Paths == UNION {[1 .. k -> Comps] : k \in 1 .. MaxPath}

VARIABLES made,      \* the nodes INode::new has created
          name,      \* INodeInner.filename
          ftype,     \* INodeInner.file_type: "dir", "file" or "virt"
          parent,    \* INodeInner.parent (a Weak), or None
          children,  \* INodeInner.children, in order
          fd,        \* fd[i]: the inode of the File at descriptor i, or None
          cwd,       \* Process.workspace
          kstate,    \* "up", or the "panic" or "hang" that stops the kernel
          budget     \* system calls left

vars == <<made, name, ftype, parent, children, fd, cwd, kstate, budget>>

Members(s) == {s[i] : i \in 1 .. Len(s)}

(***************************************************************************)
(* Rc ownership.                                                           *)
(***************************************************************************)

\* The cached File of get_cache_file, keyed by filename only.
CacheNodes == IF Cached THEN {BootFile} ELSE {}

Holders == {Root, cwd} \cup CacheNodes \cup {fd[i] : i \in {j \in Fds : fd[j] # None}}

RECURSIVE Closure(_)
Closure(S) ==
    LET T == S \cup UNION {Members(children[n]) : n \in S}
    IN  IF T = S THEN S ELSE Closure(T)

\* The nodes whose strong count is not zero.
Alive == Closure(Holders)

(***************************************************************************)
(* Path resolution.                                                        *)
(***************************************************************************)

GetChildren(n, c) ==
    LET hits == {i \in 1 .. Len(children[n]) : name[children[n][i]] = c}
    IN  CASE c = "." -> n
          [] c = ".." -> IF parent[n] # None /\ parent[n] \in Alive
                         THEN parent[n] ELSE n
          [] hits = {} -> None
          [] OTHER -> children[n][CHOOSE i \in hits : \A j \in hits : i <= j]

\* INode::find: one component at a time; None is Err(FileNotFound).
RECURSIVE Find(_, _)
Find(n, p) ==
    LET c == GetChildren(n, Head(p))
    IN  IF Len(p) = 1 \/ c = None THEN c ELSE Find(c, Tail(p))

\* The `current` of the fd system calls: None (the root) for FD_NULL, else
\* the inode of the descriptor's File.
Base(b) == IF b = FD_NULL THEN Root ELSE fd[b]

Bases == {FD_NULL} \cup {i \in Fds : fd[i] # None}

\* split_path's directory: the root when the path has one component,
\* else INode::get(current, dir).
DirOf(b, p) ==
    IF Len(p) = 1 THEN Root ELSE Find(Base(b), SubSeq(p, 1, Len(p) - 1))

\* Mutant: split_path with its two slices swapped, so the filename is the
\* directory part of a two-component path.
LastSwapped(p) == p[1]

Last(p) == p[Len(p)]

\* INode::new(filename, .., parent) followed by dir.add(node): the node is
\* pushed at the end of the directory's children.
AddNew(n, nm, t, dir) ==
    /\ made' = made \cup {n}
    /\ name' = [name EXCEPT ![n] = nm]
    /\ ftype' = [ftype EXCEPT ![n] = t]
    /\ parent' = [parent EXCEPT ![n] = dir]
    /\ children' = [children EXCEPT ![dir] = Append(@, n)]

Fresh == CHOOSE n \in Nodes \ made : TRUE

LowestFreeFd == CHOOSE i \in Fds : fd[i] = None /\ \A j \in Fds : fd[j] = None => i <= j

\* INode::open's get_cache_file(&inode.get_filename()): any node named like
\* the cached file yields the cached File, whose inode is the boot file.
Opened(n) == IF Cached /\ name[n] = BootName THEN BootFile ELSE n

(***************************************************************************)
(* Boot: init("/") made the root and add_files_to_dir its FAT entries,     *)
(* of which the model keeps one file.                                      *)
(***************************************************************************)
Init ==
    /\ made = {Root, BootFile}
    /\ name = [n \in Nodes |-> IF n = BootFile THEN BootName ELSE ""]
    /\ ftype = [n \in Nodes |-> IF n = Root THEN "dir" ELSE "file"]
    /\ parent = [n \in Nodes |-> IF n = BootFile THEN Root ELSE None]
    /\ children = [n \in Nodes |-> IF n = Root THEN <<BootFile>> ELSE <<>>]
    /\ fd = [i \in Fds |-> None]
    /\ cwd = Root
    /\ kstate = "up"
    /\ budget = MaxCalls

Running == kstate = "up" /\ budget > 0

Call == budget' = budget - 1

TreeVars == <<made, name, ftype, parent, children>>

\* sys_openat without O_CREAT: INode::open, then fd_table.alloc and set.
\* Err(FileNotFound) and an unopened dir_fd change nothing.
Openat(b, p) ==
    /\ Running
    /\ b \in Bases
    /\ \E i \in Fds : fd[i] = None
    /\ Find(Base(b), p) # None
    /\ fd' = [fd EXCEPT ![LowestFreeFd] = Opened(Find(Base(b), p))]
    /\ Call
    /\ UNCHANGED <<TreeVars, cwd, kstate>>

\* sys_openat with O_CREAT: INode::open_or_create.  A path that does not
\* resolve becomes a VirtFile under split_path's directory, file or not.
OpenatCreate(b, p) ==
    LET n == Find(Base(b), p)
        k == LowestFreeFd
    IN  /\ Running
        /\ b \in Bases
        /\ \E i \in Fds : fd[i] = None
        /\ \/ /\ n # None
              /\ fd' = [fd EXCEPT ![k] = Opened(n)]
              /\ UNCHANGED TreeVars
           \/ /\ n = None
              /\ DirOf(b, p) # None
              /\ made # Nodes
              /\ AddNew(Fresh, Last(p), "virt", DirOf(b, p))
              /\ fd' = [fd EXCEPT ![k] = Fresh]
        /\ Call
        /\ UNCHANGED <<cwd, kstate>>

\* sys_mkdirat: INode::mkdir returns an existing node unchanged and else
\* adds a VirtDir under split_path's directory.
Mkdirat(b, p) ==
    /\ Running
    /\ b \in Bases
    /\ Find(Base(b), p) = None
    /\ DirOf(b, p) # None
    /\ made # Nodes
    /\ AddNew(Fresh, Last(p), "dir", DirOf(b, p))
    /\ Call
    /\ UNCHANGED <<fd, cwd, kstate>>

\* sys_unlinkat, flags ignored: del_self upgrades the Weak parent with
\* unwrap (a kernel panic when it is dead) and the parent's delete
\* retains the children whose filename differs from the node's.
Unlinkat(b, p) ==
    LET c == Find(Base(b), p)
    IN  /\ Running
        /\ b \in Bases
        /\ c # None
        /\ parent[c] # None
        /\ \/ /\ parent[c] \in Alive
              /\ children' = [children EXCEPT ![parent[c]] =
                                 SelectSeq(@, LAMBDA x : name[x] # name[c])]
              /\ UNCHANGED kstate
           \/ /\ parent[c] \notin Alive
              /\ kstate' = "panic"
              /\ UNCHANGED children
        /\ Call
        /\ UNCHANGED <<made, name, ftype, parent, fd, cwd>>

\* sys_chdir: the path resolves from the workspace; no is_dir check.
Chdir(p) ==
    /\ Running
    /\ Find(cwd, p) # None
    /\ cwd' = Find(cwd, p)
    /\ Call
    /\ UNCHANGED <<TreeVars, fd, kstate>>

\* get_cwd: get_pwd's loop tests self.is_root() and never moves up, so it
\* ends only when the workspace is the root; otherwise the kernel spins.
Getcwd ==
    /\ Running
    /\ parent[cwd] # None
    /\ kstate' = "hang"
    /\ Call
    /\ UNCHANGED <<TreeVars, fd, cwd>>

\* sys_close: fd_table.dealloc.
Close(i) ==
    /\ Running
    /\ fd[i] # None
    /\ fd' = [fd EXCEPT ![i] = None]
    /\ Call
    /\ UNCHANGED <<TreeVars, cwd, kstate>>

Next ==
    \/ \E b \in Bases, p \in Paths : Openat(b, p) \/ OpenatCreate(b, p)
                                    \/ Mkdirat(b, p) \/ Unlinkat(b, p)
    \/ \E p \in Paths : Chdir(p)
    \/ Getcwd
    \/ \E i \in Fds : Close(i)

Spec == Init /\ [][Next]_vars

(***************************************************************************)
(* Properties.                                                             *)
(***************************************************************************)

TypeOK ==
    /\ made \subseteq Nodes
    /\ name \in [Nodes -> Names \cup {""}]
    /\ ftype \in [Nodes -> {"dir", "file", "virt"}]
    /\ parent \in [Nodes -> Nodes \cup {None}]
    /\ \A n \in Nodes : children[n] \in Seq(made)
    /\ fd \in [Fds -> made \cup {None}]
    /\ cwd \in made
    /\ kstate \in {"up", "panic", "hang"}
    /\ budget \in 0 .. MaxCalls

=============================================================================
