----------------------------- MODULE ModuleLoader -----------------------------
(***************************************************************************)
(* user/kernel_module_loader: a list of the kernel modules it finds, from  *)
(* which one is loaded: the only one, the first of the list, or the one    *)
(* named on the console by its path or its number.                         *)
(*                                                                         *)
(* External: a file may be missing and an allocation fail; the directory   *)
(* is listed up to an error, or to the entry without a name that ends it;  *)
(* taiHEN returns the id of the module or an error.                        *)
(***************************************************************************)
EXTENDS Integers, Sequences

CONSTANTS MlDir,     \* the paths in host0:data/kernel_modules
          MlFixed,   \* the paths module_start tries after those
          MlTyped,   \* bound: the numbers that are typed, as decimal digits
          MlWrap     \* 2^32: an SceUInt32 is kept modulo this

ASSUME LoaderAssumption ==
    /\ MlDir \in Seq(STRING) /\ MlFixed \in Seq(STRING)
    /\ LET all == MlDir \o MlFixed IN
       \A i, j \in 1..Len(all) : i # j => all[i] # all[j]
    /\ \A t \in MlTyped : t \in Seq(0..9) /\ t # <<>>
    /\ MlWrap \in Nat \ {0}

VARIABLES
    ml_list,  \* pModuleLoadParamTree, the newest first
    ml_num,   \* module_num
    ml_heap,  \* the blocks that are allocated: an entry or a path
    ml_pc,
    ml_todo,  \* the paths that are still to be added
    ml_modid, \* path -> the modid of its entry, -1 until it is loaded
    ml_found  \* history: <<digits, path>> of the last number that found a module

mlVars == <<ml_list, ml_num, ml_heap, ml_pc, ml_todo, ml_modid, ml_found>>

MlPath == {MlDir[i] : i \in 1..Len(MlDir)} \cup {MlFixed[i] : i \in 1..Len(MlFixed)}

\* ModuleLoadParam: the path and the number; modid is in ml_modid.
ModuleLoadParam == [path : MlPath, number : Nat]

MlTypeOK ==
    /\ ml_list \in Seq(ModuleLoadParam)
    /\ ml_num \in Nat
    /\ ml_heap \subseteq {"entry", "path"} \X MlPath
    /\ ml_pc \in {"dir", "fixed", "choose", "tty", "fault", "end"}
    /\ ml_todo \in Seq(MlPath)
    /\ ml_modid \in [MlPath -> {-1, 1}]
    /\ ml_found \in MlTyped \X MlPath \cup {<<>>}

MlInit ==
    /\ ml_list = <<>> /\ ml_num = 0 /\ ml_heap = {} /\ ml_pc = "dir" /\ ml_todo = MlDir
    /\ ml_modid = [p \in MlPath |-> -1] /\ ml_found = <<>>

\* Mistake: the entry is not freed when there is no room for its path.
Bug_load_module_add_path(path) ==
    \/ UNCHANGED <<ml_list, ml_num, ml_heap>>
    \/ UNCHANGED <<ml_list, ml_num>> /\ ml_heap' = ml_heap \cup {<<"entry", path>>}
    \/ /\ ml_list' = <<[path |-> path, number |-> ml_num]>> \o ml_list
       /\ ml_num' = ml_num + 1
       /\ ml_heap' = ml_heap \cup {<<"entry", path>>, <<"path", path>>}

\* The file cannot be opened or a block not be had, or there is an entry more.
load_module_add_path(path) ==
    \/ UNCHANGED <<ml_list, ml_num, ml_heap>>
    \/ /\ ml_list' = <<[path |-> path, number |-> ml_num]>> \o ml_list
       /\ ml_num' = ml_num + 1
       /\ ml_heap' = ml_heap \cup {<<"entry", path>>, <<"path", path>>}

\* load_module_add_path_by_dir: one entry of the directory, or its end, or an
\* error.  The path without a name that the end adds cannot be opened.
MlDirEntry ==
    /\ ml_pc = "dir"
    /\ \/ /\ ml_todo # <<>>
          /\ load_module_add_path(Head(ml_todo))
          /\ ml_todo' = Tail(ml_todo) /\ UNCHANGED ml_pc
       \/ /\ ml_pc' = "fixed" /\ ml_todo' = MlFixed
          /\ UNCHANGED <<ml_list, ml_num, ml_heap>>
    /\ UNCHANGED <<ml_modid, ml_found>>

MlFixedPath ==
    /\ ml_pc = "fixed"
    /\ \/ /\ ml_todo # <<>>
          /\ load_module_add_path(Head(ml_todo))
          /\ ml_todo' = Tail(ml_todo) /\ UNCHANGED ml_pc
       \/ /\ ml_todo = <<>> /\ ml_pc' = "choose"
          /\ UNCHANGED <<ml_list, ml_num, ml_heap, ml_todo>>
    /\ UNCHANGED <<ml_modid, ml_found>>

Load(path) == \E id \in {-1, 1} : ml_modid' = [ml_modid EXCEPT ![path] = id]

\* The only module, or without a devkit the first of the list, is loaded; on a
\* devkit the console is asked, if a thread for it can be made.
MlChoose ==
    /\ ml_pc = "choose"
    /\ \/ ml_list = <<>> /\ ml_pc' = "end" /\ UNCHANGED ml_modid
       \/ ml_list # <<>> /\ ml_pc' = "end" /\ Load(Head(ml_list).path)
       \/ ml_list # <<>> /\ ml_num # 1 /\ ml_pc' \in {"tty", "end"} /\ UNCHANGED ml_modid
    /\ UNCHANGED <<ml_list, ml_num, ml_heap, ml_todo, ml_found>>

\* saerch_module_entry: the first of the list with this path.
saerch_module_entry(path) ==
    {k \in 1..Len(ml_list) : ml_list[k].path = path
                             /\ \A i \in 1..k - 1 : ml_list[i].path # path}

saerch_module_entry_by_number(number) ==
    {k \in 1..Len(ml_list) : ml_list[k].number = number
                             /\ \A i \in 1..k - 1 : ml_list[i].number # number}

\* cvtStrToDec, every step of which is kept to the width of the number.
cvtStrToDec(digits) ==
    LET value[i \in 0..Len(digits)] ==
            IF i = 0 THEN 0 ELSE (digits[i] + value[i - 1] * 10) % MlWrap
    IN value[Len(digits)]

\* A line that is no number, or names no module, is left alone.
MlLoadPath ==
    /\ ml_pc = "tty"
    /\ \E path \in MlPath : \E k \in saerch_module_entry(path) : Load(ml_list[k].path)
    /\ UNCHANGED <<ml_list, ml_num, ml_heap, ml_pc, ml_todo, ml_found>>

MlLoadByNumber ==
    /\ ml_pc = "tty"
    /\ \E t \in MlTyped : \E k \in saerch_module_entry_by_number(cvtStrToDec(t)) :
          Load(ml_list[k].path) /\ ml_found' = <<t, ml_list[k].path>>
    /\ UNCHANGED <<ml_list, ml_num, ml_heap, ml_pc, ml_todo>>

\* sceIoRead gives nothing: the byte before the buffer is cleared, and the line
\* is no command.  Whose byte it is the compiler decides.
MlEmptyLine ==
    /\ ml_pc = "tty" /\ ml_pc' \in {"tty", "fault"}
    /\ UNCHANGED <<ml_list, ml_num, ml_heap, ml_todo, ml_modid, ml_found>>

MlExit ==
    /\ ml_pc = "tty" /\ ml_pc' = "end"
    /\ UNCHANGED <<ml_list, ml_num, ml_heap, ml_todo, ml_modid, ml_found>>

MlStep == MlDirEntry \/ MlFixedPath \/ MlChoose

MlNext == MlStep \/ MlLoadPath \/ MlLoadByNumber \/ MlEmptyLine \/ MlExit

MlSpec == MlInit /\ [][MlNext]_mlVars

-----------------------------------------------------------------------------
(* Properties *)

\* What is listed can be found and is found under the number it is listed
\* with: the numbers count the list from its end, whatever could not be opened
\* or allocated in between; every block is an entry of the list or its path; an
\* entry that was never found is not loaded.
NumbersFind ==
    /\ ml_num = Len(ml_list)
    /\ \A k \in 1..Len(ml_list) :
          /\ ml_list[k].number = Len(ml_list) - k
          /\ saerch_module_entry(ml_list[k].path) = {k}
          /\ saerch_module_entry_by_number(ml_list[k].number) = {k}
    /\ ml_heap = {"entry", "path"} \X {ml_list[k].path : k \in 1..Len(ml_list)}
    /\ \A p \in MlPath : ml_modid[p] # -1 => \E k \in 1..Len(ml_list) : ml_list[k].path = p
    /\ ml_found # <<>> =>
          \E k \in 1..Len(ml_list) :
             /\ ml_list[k].path = ml_found[2]
             /\ ml_list[k].number = cvtStrToDec(ml_found[1])

=============================================================================
