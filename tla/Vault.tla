--------------------------------- MODULE Vault ---------------------------------
(***************************************************************************)
(* The password manager (src/wasm_module/passman): a vault is registered   *)
(* data of the runner, read by the program as a file of lines.  add and    *)
(* del print a whole new vault, which the client registers, and then it    *)
(* deletes the old one (README.md of passman).  The runner keeps only the  *)
(* first outputCap bytes of what is printed (sandbox.go), and registers no *)
(* empty data (handlers.go).                                               *)
(*                                                                         *)
(* list and get change nothing, and commands that end with an error leave  *)
(* the client with the vault it has: they are not actions.  A password is  *)
(* a word and the carriage returns behind it, of which each reading takes  *)
(* one off (parse_vault), so that a password that nobody touched changes   *)
(* with every update until it has none left.                               *)
(***************************************************************************)
EXTENDS Naturals, Sequences

CONSTANTS
    Names, Words,
    NoWord,         \* the word of a password of carriage returns alone
    Passwords,      \* those that clients add
    Comments,       \* names that begin with '#'
    Bytes,          \* the length of a line, by the word of its password
    MAX_ENTRIES,
    MAX_FILE_BYTES,
    outputCap,      \* sandbox.go
    First           \* the lines of the vault that is registered first

VARIABLES
    vault,      \* the vault whose id the client uses
    stage,      \* of an update: "idle", "printed", "registered"
    output      \* what the program printed

vars == <<vault, stage, output>>

Password == [word : Words, crs : Nat]
Line     == [name : Names, password : Password]

\* No name has two lines.
OneLineEach(lines) == \A i, j \in DOMAIN lines : lines[i].name = lines[j].name => i = j

\* What the constants have to be. A vault that was cut by the runner is as long
\* as what read_all refuses.
VaultBounds ==
    /\ Comments \subseteq Names /\ Passwords \subseteq Password
    /\ {MAX_ENTRIES, MAX_FILE_BYTES, outputCap} \subseteq Nat
    /\ Bytes \in [Words -> Nat]
    /\ outputCap >= MAX_FILE_BYTES
    /\ First \in Seq(Line) /\ OneLineEach(First)

-----------------------------------------------------------------------------
(* The program                                                             *)

Empty(password) == password.word = NoWord /\ password.crs = 0

\* parse_vault takes one carriage return off the end of a line.
Read(line) ==
    [name |-> line.name,
     password |-> [word |-> line.password.word,
                   crs  |-> IF line.password.crs = 0 THEN 0 ELSE line.password.crs - 1]]

Size(line) == Bytes[line.password.word] + line.password.crs

Length(lines) ==
    LET sum[n \in 0..Len(lines)] == IF n = 0 THEN 0 ELSE sum[n - 1] + Size(lines[n])
    IN sum[Len(lines)]

File(lines) == [lines |-> lines, bytes |-> Length(lines)]

\* parse_vault skips comments.
Entries(file) ==
    LET kept[n \in 0..Len(file.lines)] ==
          IF n = 0 THEN <<>>
          ELSE IF file.lines[n].name \in Comments THEN kept[n - 1]
          ELSE Append(kept[n - 1], Read(file.lines[n]))
    IN kept[Len(file.lines)]

\* A line that has no third field when it is read.
Bare(line) == line.name \notin Comments /\ Empty(Read(line).password)

\* read_all refuses a file that fills its largest buffer, parse_vault one with
\* a line that has not three fields, or with too many entries.
Readable(file) ==
    /\ file.bytes < MAX_FILE_BYTES
    /\ \A i \in DOMAIN file.lines : ~Bare(file.lines[i])
    /\ Len(Entries(file)) <= MAX_ENTRIES

Found(entries, name) == {i \in DOMAIN entries : entries[i].name = name}

\* Variant: add does not look for the name.
FreeUnseen(entries, name) == TRUE

Free(entries, name) == Found(entries, name) = {}

\* Variant: the check of count is one too late.
FullTooLate(entries) == Len(entries) > MAX_ENTRIES

Full(entries) == Len(entries) = MAX_ENTRIES

\* Variant: the entries are moved up, and one too many is dropped.
WithoutTwo(entries, i) == SubSeq(entries, 1, i - 1) \o SubSeq(entries, i + 1, Len(entries) - 1)

\* find_entry, memmove and the smaller count.
Without(entries, i) == SubSeq(entries, 1, i - 1) \o SubSeq(entries, i + 1, Len(entries))

-----------------------------------------------------------------------------
(* Updates                                                                 *)

Init ==
    /\ vault = File(First) /\ stage = "idle" /\ output = File(<<>>)

\* print_vault, of which the runner keeps the first outputCap bytes: all of it, or the
\* whole lines of this beginning and a part of the next one, which nothing will read (a
\* file of outputCap bytes is refused before its lines are looked at).
Prints(entries) ==
    /\ stage' = "printed" /\ UNCHANGED vault
    /\ \E n \in 0..Len(entries) :
         /\ Length(SubSeq(entries, 1, n)) <= outputCap
         /\ IF n = Len(entries) THEN output' = File(entries)
            ELSE /\ Length(SubSeq(entries, 1, n + 1)) > outputCap
                 /\ output' = [lines |-> SubSeq(entries, 1, n), bytes |-> outputCap]

\* check_field looks for an empty password, not for carriage returns.
Add(name, password) ==
    /\ stage = "idle" /\ Readable(vault) /\ ~Empty(password)
    /\ Free(Entries(vault), name) /\ ~Full(Entries(vault))
    /\ Prints(Append(Entries(vault), [name |-> name, password |-> password]))

Del(name) ==
    /\ stage = "idle" /\ Readable(vault)
    /\ \E i \in Found(Entries(vault), name) :
          /\ \A j \in Found(Entries(vault), name) : i <= j
          /\ Prints(Without(Entries(vault), i))

\* The client registers what was printed and uses it from now on.
Register ==
    /\ stage = "printed" /\ output.bytes > 0
    /\ vault' = output /\ stage' = "registered"
    /\ UNCHANGED output

\* The registration fails, or its answer is lost: the client keeps the old vault.
StartOver ==
    /\ stage = "printed" /\ stage' = "idle"
    /\ UNCHANGED <<vault, output>>

\* The old vault is gone.
DeleteOld ==
    /\ stage = "registered" /\ stage' = "idle"
    /\ UNCHANGED <<vault, output>>

Next ==
    \/ \E name \in Names : Del(name) \/ \E password \in Passwords : Add(name, password)
    \/ Register \/ StartOver \/ DeleteOld

Spec == Init /\ [][Next]_vars

-----------------------------------------------------------------------------
(* Properties                                                              *)

\* Types; and a name has one line, so get and del speak of the same entry.
TypeOK ==
    /\ \A file \in {vault, output} :
          /\ file.lines \in Seq(Line) /\ file.bytes \in Nat
          /\ OneLineEach(file.lines)
    /\ stage \in {"idle", "printed", "registered"}

\* When the old vault is deleted the new one can be read: an update never trades
\* passwords for a file that the program refuses (comment of MAX_FILE_BYTES, "to
\* match the runner's limit").
UpdateKeepsVault == Readable(vault)

\* There are two ways to lose a vault that could be read, and no third: an update that
\* made it as long as the limit, and a password of carriage returns alone, which is gone
\* when it is read again. The number of entries is none: what add lets in and what
\* parse_vault takes agree.
LossesAreKnown ==
    [][vault' # vault /\ Readable(vault) /\ ~Readable(vault)' =>
         \/ vault'.bytes >= MAX_FILE_BYTES
         \/ \E i \in DOMAIN vault'.lines : vault'.lines[i].password.word = NoWord]_vars

\* What get answers for each name, but for carriage returns.
BookOf(entries) ==
    [name \in {entries[i].name : i \in DOMAIN entries} |->
       entries[CHOOSE i \in Found(entries, name) :
                 \A j \in Found(entries, name) : i <= j].password.word]

Book == INSTANCE PasswordBook WITH
          lost <- ~Readable(vault),
          book <- IF Readable(vault) THEN BookOf(Entries(vault)) ELSE [name \in {} |-> NoWord]

\* Over updates that are given up, repeated and completed, what the vault holds
\* changes as a book of passwords does: one name at a time, the others untouched,
\* as long as it can be read.
ImplementsBook == Book!BookSpec

=============================================================================
