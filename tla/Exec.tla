----------------------------------- MODULE Exec -----------------------------------
(***************************************************************************)
(* Programs are loaded: kernel/exec/elf64.c and process_execve of          *)
(* kernel/kernel/execve.c (also the loaders of vfs_exec.c and              *)
(* initfs_exec.c, which pass no strings).                                  *)
(*                                                                         *)
(* Memory is counted in words and a page has ExPage of them.  Word k of    *)
(* an image's file holds the value k, word k of the i-th string 100*i + k, *)
(* so that a word tells where it came from.  The new address space is      *)
(* private until the call succeeds, and the call is one step; any of the   *)
(* operations it is made of may fail: the input `bad` says which.          *)
(***************************************************************************)
EXTENDS Integers, Sequences, FiniteSets, FiniteSetsExt, SequencesExt

CONSTANTS ExPage,        \* words of a page
          ExTop,         \* USER_TOP, in pages
          ExStackTop,    \* USER_STACK_TOP, in pages
          ExStackPages,  \* USER_STACK_SIZE
          ExAslr,        \* STACK_ASLR_PAGES
          ExFrames,      \* page frames of the machine
          ExImages,      \* files to execute
          ExArgs,        \* the vectors of strings: lengths of argv and of envp
          ExMaxTotal,    \* EXEC_MAX_TOTAL
          ExMaxStrings,  \* EXEC_MAX_STRINGS
          ExBad          \* operations of a call that may fail, and 0

ASSUME ExAssumption == /\ {ExPage, ExTop, ExStackTop, ExStackPages, ExAslr, ExFrames,
                           ExMaxTotal, ExMaxStrings} \subseteq Nat \ {0}
                       /\ ExMaxTotal + 5 <= ExStackPages * ExPage   \* 64 KiB, 128 KiB
                       /\ ExStackTop - ExAslr - ExStackPages > 0 /\ ExStackTop <= ExTop

VARIABLE ex_proc   \* the process: its space, and what it was told to run; free page frames

\* An address space: the areas (with their protection) and the pages that are mapped.
NoSpace == [area |-> <<>>, page |-> <<>>]
ExInit == ex_proc = [space |-> NoSpace, stack |-> 0, entry |-> 0, ran |-> <<>>,
                     room |-> TRUE, free |-> ExFrames]

PageOf(a) == a \div ExPage
PageUp(a) == (a + ExPage - 1) \div ExPage
Restricted(f, S) == [x \in DOMAIN f \cap S |-> f[x]]
Overlaid(f, S, v) == [x \in DOMAIN f \cup S |-> IF x \in S THEN v ELSE f[x]]
-------------------------------------------------------------------------------
\* The parts of a file: its program headers are records, and the rest of it is its size.
\* elf64_validate_image.
InRange(ph) == /\ ph.memsz > 0
               /\ ph.vaddr >= ExPage /\ ph.vaddr + ph.memsz <= ExTop * ExPage
PhdrValid(img, ph) == /\ ph.filesz <= ph.memsz
                      /\ ph.offset <= img.size /\ ph.filesz <= img.size - ph.offset
                      /\ ~({"x", "w"} \subseteq ph.flags)
                      /\ InRange(ph)
Loads(img) == SelectSeq(img.phdrs, LAMBDA ph : ph.load)
Validate(img) ==
  /\ img.elf /\ img.phdrs # <<>>
  /\ \A i \in DOMAIN Loads(img) : PhdrValid(img, Loads(img)[i])
  /\ \E i \in DOMAIN Loads(img) : LET ph == Loads(img)[i]
                                  IN  "x" \in ph.flags /\ img.entry \in ph.vaddr..(ph.vaddr + ph.memsz - 1)

\* A call that has made s.n operations which can fail; number s.bad does.
Attempt(s) == IF ~s.ok THEN s ELSE [s EXCEPT !.n = @ + 1, !.ok = (s.n + 1 # s.bad)]

\* vmm_map_anonymous with MAP_FIXED: what was there goes, its frames are free.
MapFixed(s, first, last, prot) ==
  LET gone == DOMAIN s.space.page \cap first..last
      Mapped(t) == IF ~t.ok THEN t
                   ELSE [t EXCEPT !.space = [area |-> Overlaid(@.area, first..last, prot),
                                             page |-> Restricted(@.page, Int \ gone)],
                                  !.free = @ + Cardinality(gone)]
  IN  Mapped(Attempt(s))

\* materialise_pages: zeroed pages, readable and writable; without a frame, or without a page
\* table, it stops where it is.
Materialise(s, first, last) ==
  LET Zeroed == [prot |-> {"r", "w"}, words |-> [k \in 0..(ExPage - 1) |-> 0]]
      Mapped(t, p) == IF ~t.ok \/ t.free = 0 THEN [t EXCEPT !.ok = FALSE]
                      ELSE [t EXCEPT !.free = @ - 1, !.space.page = Overlaid(@, {p}, Zeroed)]
      Add(t, p) == Mapped(Attempt(t), p)
  IN  FoldLeft(Add, s, [i \in 1..(last - first + 1) |-> first + i - 1])

\* write_to_space: `words` from address a on; -EFAULT where no page is mapped (what it wrote
\* before that goes with the space).
WriteTo(s, a, words) ==
  LET end == a + Len(words) - 1
      Filled(p, old) == [k \in DOMAIN old |-> LET u == p * ExPage + k
                                             IN  IF u \in a..end THEN words[u - a + 1] ELSE old[k]]
  IN  IF ~s.ok \/ ~({PageOf(u) : u \in a..end} \subseteq DOMAIN s.space.page) THEN [s EXCEPT !.ok = FALSE]
      ELSE [s EXCEPT !.space.page = [p \in DOMAIN @ |->
              IF p \in PageOf(a)..PageOf(end) THEN [@[p] EXCEPT !.words = Filled(p, @)] ELSE @[p]]]


\* page_down of its start to page_up of its end.
SegmentPages(ph) == PageOf(ph.vaddr)..(PageUp(ph.vaddr + ph.memsz) - 1)

\* vmm_protect, and the flags of the area that vma_find returns.
Tighten(s, pages, prot) ==
  LET Tight(t) == IF ~t.ok THEN t
                  ELSE [t EXCEPT !.space = [area |-> Overlaid(@.area, pages, prot),
                                            page |-> [p \in DOMAIN @.page |->
                          IF p \in pages THEN [@.page[p] EXCEPT !.prot = prot] ELSE @.page[p]]]]
  IN  Tight(Attempt(s))

\* One PT_LOAD of elf64_load_image: mapped writable, filled from the file, then tightened.
LoadSegment(s, ph) ==
  LET Zeroed(t, pages) == Materialise(MapFixed(t, Min(pages), Max(pages), {"r", "w"}),
                                      Min(pages), Max(pages))
      Filled(t) == IF ph.filesz = 0 THEN t
                   ELSE WriteTo(Attempt(t), ph.vaddr, [k \in 1..ph.filesz |-> ph.offset + k])
  IN  Tighten(Filled(Zeroed(s, SegmentPages(ph))), SegmentPages(ph), {"r"} \cup ph.flags)

LoadImage(s, img) == FoldLeft(LoadSegment, s, Loads(img))

\* charge_total: pointers and strings share one limit.
ChargeTotal(c, add) == IF c.ok /\ c.total + add <= ExMaxTotal THEN [c EXCEPT !.total = @ + add]
                       ELSE [c EXCEPT !.ok = FALSE]

\* One turn of capture_vector: a string is copied to the backing store as far as the limit
\* lets it, and then charged. `room` is the ghost: the store has ExMaxTotal + 1 words.
CaptureString(c, len) ==
  LET Copied(p, left) ==
        IF ~p.ok \/ left = 0 THEN [p EXCEPT !.ok = FALSE]
        ELSE [ChargeTotal(p, len) EXCEPT !.used = @ + len,
                !.room = @ /\ p.used + Min({len, left + 1}) <= ExMaxTotal + 1]
      Charged(p) == Copied(p, ExMaxTotal - p.total)
  IN  Charged(ChargeTotal(c, 1))

\* capture_vector; the NULL that ends a vector is charged, and counts as a string.
CaptureVector(c, lens, require_nonempty) ==
  [ChargeTotal(FoldLeft(CaptureString, c, lens), 1)
     EXCEPT !.ok = @ /\ Len(lens) < ExMaxStrings /\ (require_nonempty => lens # <<>>)]

\* exec_strings_capture.
CaptureStrings(args) ==
  LET c == [total |-> 0, used |-> 0, ok |-> TRUE, room |-> TRUE]
      Rest(a) == IF a.ok THEN CaptureVector(a, args.envp, FALSE) ELSE a
  IN  Rest(CaptureVector(c, args.argv, TRUE))

\* Word k of string i.
StringWords(i, len) == [k \in 1..len |-> 100 * i + k]

\* The strings, last first, from address `sp` down to `base`; where each starts.
PushStrings(s, base, lens) ==
  LET Push(t, i) == LET a == t.sp - lens[i]
                    IN  IF ~t.ok THEN t
                        ELSE IF a < base THEN [t EXCEPT !.ok = FALSE, !.room = FALSE]
                        ELSE [WriteTo(t, a, StringWords(i, lens[i])) EXCEPT !.sp = a, !.at = <<a>> \o @]
  IN  FoldLeft(Push, s, Reverse([i \in 1..Len(lens) |-> i]))

\* Mutant: the frame is laid where the strings end.
FrameAtUnrounded(sp, size) == sp - size + 1

\* The frame's address: 16 bytes are two words.
FrameAt(sp, size) == LET aligned == (sp \div 2) * 2
                     IN  ((aligned - size) \div 2) * 2

\* elf64_setup_initial_stack: a guard page, the stack, the strings (envp above argv), then
\* argc, the pointers with a 0 after each vector, and two more words of 0.
SetupStack(s, args, aslr) ==
  LET top == ExStackTop - aslr
      base == top - ExStackPages
      lens == args.argv \o args.envp
      argc == Len(args.argv)
      Stack == Materialise(MapFixed(MapFixed(s, base - 1, base - 1, {}), base, top - 1, {"r", "w"}),
                           base, top - 1)
      Strings(t) == PushStrings([(IF lens # <<>> THEN Attempt(t) ELSE t)
                                   EXCEPT !.sp = top * ExPage, !.at = <<>>], base * ExPage, lens)
      Vectors(t) == <<argc>> \o SubSeq(t.at, 1, argc) \o <<0>>
                      \o SubSeq(t.at, argc + 1, Len(lens)) \o <<0, 0, 0>>
      Lay(t, frame, sp) ==
        IF sp < base * ExPage THEN [t EXCEPT !.ok = FALSE, !.room = FALSE]
        ELSE [WriteTo(Attempt(t), sp, frame) EXCEPT !.sp = sp]
      Framed(t, frame) == IF t.ok THEN Lay(t, frame, FrameAt(t.sp, Len(frame))) ELSE t
      Pushed(t) == Framed(t, Vectors(t))
  IN  Pushed(Strings(Stack))

\* vmm_destroy_space.
FramesOf(space) == Cardinality(DOMAIN space.page)

\* process_execve: the strings are captured and the file opened, then the image checked and
\* a space built; only if all of it succeeds is the process given the space, and the old one
\* destroyed.
ProcessExecve(img, args, aslr, bad) ==
  LET Start(c) == [space |-> NoSpace, free |-> ex_proc.free, n |-> 0, bad |-> bad,
                   ok |-> c.ok, room |-> c.room, sp |-> 0, at |-> <<>>]
      Opened == Attempt(Start(CaptureStrings(args)))
      Created == Attempt([Opened EXCEPT !.ok = @ /\ Validate(img)])
  IN  \E loaded \in {LoadImage(Created, img)} : \E s \in {SetupStack(loaded, args, aslr)} :
        ex_proc' =
          IF s.ok THEN [space |-> s.space, stack |-> s.sp, entry |-> img.entry,
                        ran |-> <<img, args, aslr>>, room |-> s.room,
                        free |-> s.free + FramesOf(ex_proc.space)]
          ELSE [ex_proc EXCEPT !.free = s.free + FramesOf(s.space), !.room = s.room]

ExNext == \E img \in ExImages, args \in ExArgs, aslr \in 0..(ExAslr - 1), bad \in ExBad :
            ProcessExecve(img, args, aslr, bad)

ExSpec == ExInit /\ [][ExNext]_ex_proc
-------------------------------------------------------------------------------
WordAt(a) == ex_proc.space.page[PageOf(a)].words[a % ExPage]

\* An image whose segments have their pages for themselves, away from the stack.
StackArea == (ExStackTop - ExAslr - ExStackPages)..(ExStackTop - 1)
Memory(ph) == ph.vaddr..(ph.vaddr + ph.memsz - 1)
PagesOf(ph) == {PageOf(a) : a \in Memory(ph)}
Plain(img) == \A i, j \in DOMAIN Loads(img) :
                /\ i # j => PagesOf(Loads(img)[i]) \cap PagesOf(Loads(img)[j]) = {}
                /\ PagesOf(Loads(img)[i]) \cap StackArea = {}

\* What a segment's memory must hold: the file's words, then zeros.
SegmentWord(ph, a) == IF a \in ph.vaddr..(ph.vaddr + ph.filesz - 1) THEN ph.offset + a - ph.vaddr + 1 ELSE 0


\* The new program finds its arguments (elf64_setup_initial_stack): the stack pointer is
\* aligned, above it are argc, a pointer to each whole string, and the zeros that end the
\* vectors; below the stack nothing is mapped. And what the limits of capture_vector let
\* through fits both the store it is copied to and the stack.
ArgumentsFound ==
  /\ ex_proc.room
  /\ ex_proc.ran # <<>> =>
    LET args == ex_proc.ran[2]
        argc == Len(args.argv)
        lens == args.argv \o args.envp
        slot(i) == ex_proc.stack + i + IF i > argc THEN 1 ELSE 0
        base == ExStackTop - ex_proc.ran[3] - ExStackPages
    IN  /\ ex_proc.stack % 2 = 0 /\ ex_proc.stack >= base * ExPage
        /\ WordAt(ex_proc.stack) = argc
        /\ \A i \in DOMAIN lens : \A k \in 1..lens[i] : WordAt(WordAt(slot(i)) + k - 1) = 100 * i + k
        /\ WordAt(ex_proc.stack + argc + 1) = 0
        /\ WordAt(ex_proc.stack + Len(lens) + 2) = 0
        /\ base - 1 \notin DOMAIN ex_proc.space.page
===============================================================================
