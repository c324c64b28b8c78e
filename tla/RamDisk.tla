------------------------------- MODULE RamDisk -------------------------------
(***************************************************************************)
(* The RAM-disk container: the host-side builder (bootimage main.rs,       *)
(* Image::add_file / add_string / build) and the kernel-side reader        *)
(* (kernel ram_disk.rs: assert_soundness, get_file_count, get_file_slice). *)
(*                                                                         *)
(* The image is modelled byte by byte: every u64 field is its eight        *)
(* little-endian bytes and the checksum is CRC-32 computed bit by bit, so  *)
(* a flipped byte on the medium changes exactly what it changes in the     *)
(* real image.  A 32-bit CRC register is kept as two 16-bit halves         *)
(* <<high, low>>, which keeps every number TLC handles below 2^31.         *)
(***************************************************************************)
EXTENDS Naturals, Sequences, SequencesExt

CONSTANTS
  FileChoices,   \* contents of the files the builder may add
  MinFiles,      \* files added before build (create_ram_disk adds three)
  MaxFiles,      \* bound on the number of add_file calls
  FlipValues     \* values a corrupted byte may take

VARIABLES
  regionEnds,    \* Image.region_ends
  buffer,        \* Image.buffer
  files,         \* history: the files added, in order
  img,           \* the built image, as the kernel finds it in memory
  corrupted,     \* a byte of img has been changed on the medium
  phase,         \* "build", "built", "checked" (assert_soundness passed),
                 \* "rejected" (assert_soundness panicked), "index_panic"
  slices         \* [index -> slice returned by get_file_slice(index)]

vars == <<regionEnds, buffer, files, img, corrupted, phase, slices>>

-----------------------------------------------------------------------------
(* Encoding.                                                               *)

RECURSIVE LEBytes(_, _)
\* n.to_le_bytes() for a width of k bytes.
LEBytes(n, k) == IF k = 0 THEN <<>> ELSE <<n % 256>> \o LEBytes(n \div 256, k - 1)

\* u64 values at or above 2^24 are larger than every length this model
\* builds; they are all represented by Huge.
Huge == 2^24

\* A u64 read from eight little-endian bytes.
U64(s) ==
  IF \E i \in 4 .. 8 : s[i] # 0 THEN Huge ELSE s[1] + 256 * s[2] + 65536 * s[3]

\* ramdisk_u64_slice[k] (0-based word index).
Word(s, k) == U64(SubSeq(s, 8 * k + 1, 8 * k + 8))

\* CRC-32 (reflected, polynomial 0xEDB88320, initial and final value
\* 0xFFFFFFFF), one bit at a time.  The 32-bit register is kept as two
\* 16-bit halves <<high, low>>, so that every number stays below 2^31.
Bit(n, i) == (n \div 2^i) % 2

\* a XOR b on 16-bit values, bit by bit.
Xor16(a, b) ==
  LET X(i) == ((Bit(a, i) + Bit(b, i)) % 2) * 2^i
  IN  X(0) + X(1) + X(2) + X(3) + X(4) + X(5) + X(6) + X(7)
        + X(8) + X(9) + X(10) + X(11) + X(12) + X(13) + X(14) + X(15)

XorReg(c, d) == <<Xor16(c[1], d[1]), Xor16(c[2], d[2])>>

Poly == <<\hEDB8, \h8320>>

\* crc = (crc >> 1) ^ (POLY if the bit shifted out was 1).
CrcBit(c) ==
  LET shifted == <<c[1] \div 2, c[2] \div 2 + (c[1] % 2) * \h8000>>
  IN  IF c[2] % 2 = 1 THEN XorReg(shifted, Poly) ELSE shifted

\* The table of the table-driven CRC: entry n is the register <<0, n>>
\* after eight bit steps.
CrcTable ==
  [n \in 0 .. 255 |->
     LET steps[k \in 0 .. 8] == IF k = 0 THEN <<0, n>> ELSE CrcBit(steps[k - 1])
     IN  steps[8]]

\* One byte: crc = TABLE[(crc ^ byte) & 0xFF] ^ (crc >> 8).
CrcByte(c, b) ==
  LET t == CrcTable[Xor16(c[2] % 256, b)]
  IN  XorReg(t, <<c[1] \div 256, (c[2] \div 256) + (c[1] % 256) * 256>>)

Ones == <<\hFFFF, \hFFFF>>

\* The register after the bytes from index i on.  The register of each
\* step is evaluated (d[1] >= 0) before the next step is taken, so that
\* TLC never holds a chain of pending byte steps.
RECURSIVE CrcFrom(_, _, _)
CrcFrom(c, bytes, i) ==
  IF i > Len(bytes) THEN c
  ELSE LET d == CrcByte(c, bytes[i])
       IN  IF d[1] >= 0 THEN CrcFrom(d, bytes, i + 1) ELSE d

CrcRegister(bytes) == CrcFrom(Ones, bytes, 1)

Crc32(bytes) == XorReg(CrcRegister(bytes), Ones)

\* Mutant: the checksum written as 16-bit words instead of bytes.
CrcBytes_halfwords(c) == <<c[2], c[1], 0, 0, 0, 0, 0, 0>>

\* checksum.finish().to_le_bytes(): the 32-bit CRC widened to u64.
CrcBytes(c) == LEBytes(c[2], 2) \o LEBytes(c[1], 2) \o LEBytes(0, 4)

-----------------------------------------------------------------------------
(* Builder.                                                                *)

\* Image::build: region_ends with its length inserted in front, the
\* checksum over region_lengths_buf and buffer, then
\* total length | checksum | region_lengths_buf | buffer.
Build(ends, buf) ==
  LET regionLengthsBuf == FlattenSeq([i \in 1 .. Len(ends) + 1 |->
                            LEBytes((<<Len(ends)>> \o ends)[i], 8)])
      checksum == Crc32(regionLengthsBuf \o buf)
  IN  LEBytes(Len(regionLengthsBuf) + Len(buf) + 8 + 8, 8)
        \o CrcBytes(checksum) \o regionLengthsBuf \o buf

Init ==
  /\ regionEnds = <<>>
  /\ buffer = <<>>
  /\ files = <<>>
  /\ img = <<>>
  /\ corrupted = FALSE
  /\ phase = "build"
  /\ slices = <<>>

\* add_file (and add_string): append the bytes, push the new buffer length.
AddFile(f) ==
  /\ phase = "build"
  /\ Len(files) < MaxFiles
  /\ buffer' = buffer \o f
  /\ regionEnds' = Append(regionEnds, Len(buffer) + Len(f))
  /\ files' = Append(files, f)
  /\ UNCHANGED <<img, corrupted, phase, slices>>

BuildImage ==
  /\ phase = "build"
  /\ Len(files) >= MinFiles
  /\ img' = Build(regionEnds, buffer)
  /\ phase' = "built"
  /\ UNCHANGED <<regionEnds, buffer, files, corrupted, slices>>

\* One byte of the image changes between the host and the kernel.
Flip(pos, v) ==
  /\ phase = "built"
  /\ ~corrupted
  /\ img[pos] # v
  /\ img' = [img EXCEPT ![pos] = v]
  /\ corrupted' = TRUE
  /\ UNCHANGED <<regionEnds, buffer, files, phase, slices>>

-----------------------------------------------------------------------------
(* Reader.  ramdisk_len is the length the boot info reports: the size of   *)
(* the file the bootloader loaded.                                         *)

\* Mutant: the CRC comparison left out.
Sound_no_crc(disk) ==
  LET len == Len(disk) IN
  /\ len >= 8 + 8 + 8 + 8 + 1
  /\ Word(disk, 0) = len
  /\ Word(disk, 2) <= (Word(disk, 0) - 8 - 8 - 8) \div 9

\* assert_soundness: each ass! in order; the first failing one panics.
Sound(disk) ==
  LET len == Len(disk) IN
  /\ len >= 8 + 8 + 8 + 8 + 1
  /\ Word(disk, 0) = len
  /\ SubSeq(disk, 9, 16) = CrcBytes(Crc32(SubSeq(disk, 17, len)))
  /\ Word(disk, 2) <= (Word(disk, 0) - 8 - 8 - 8) \div 9

AssertSoundness ==
  /\ phase = "built"
  /\ phase' = IF Sound(img) THEN "checked" ELSE "rejected"
  /\ UNCHANGED <<regionEnds, buffer, files, img, corrupted, slices>>

get_file_count(disk) == Word(disk, 2)

\* Mutant: the header counted as file_count + 2 words.
FileStart_header_short(disk, index) ==
  (IF index = 0 THEN 0 ELSE Word(disk, 3 + index - 1)) + (get_file_count(disk) + 2) * 8

\* get_file_slice: payload offsets E_{i-1} .. E_i, shifted past the
\* (file_count + 3) header words.
FileStart(disk, index) ==
  (IF index = 0 THEN 0 ELSE Word(disk, 3 + index - 1)) + (get_file_count(disk) + 3) * 8

FileSize(disk, index) ==
  IF index = 0 THEN Word(disk, 3)
  ELSE Word(disk, 3 + index) - Word(disk, 3 + index - 1)

FileSlice(disk, index) ==
  SubSeq(disk, FileStart(disk, index) + 1, FileStart(disk, index) + FileSize(disk, index))

\* get_file_slice(index), with its ass!(index < file_count).
GetFileSlice(index) ==
  /\ phase = "checked"
  /\ index \notin DOMAIN slices
  /\ IF index < get_file_count(img)
       THEN /\ slices' = slices @@ (index :> FileSlice(img, index))
            /\ UNCHANGED phase
       ELSE /\ phase' = "index_panic"
            /\ UNCHANGED slices
  /\ UNCHANGED <<regionEnds, buffer, files, img, corrupted>>

Next ==
  \/ \E f \in FileChoices : AddFile(f)
  \/ BuildImage
  \/ \E pos \in 1 .. Len(img), v \in FlipValues : Flip(pos, v)
  \/ AssertSoundness
  \/ \E index \in 0 .. MaxFiles : GetFileSlice(index)

Spec == Init /\ [][Next]_vars

-----------------------------------------------------------------------------
TypeOK ==
  /\ files \in Seq(Seq(0 .. 255)) /\ Len(files) <= MaxFiles
  /\ img \in Seq(0 .. 255)
  /\ phase \in {"build", "built", "checked", "rejected", "index_panic"}
  /\ corrupted \in BOOLEAN
  /\ DOMAIN slices \subseteq 0 .. MaxFiles
  /\ \A i \in DOMAIN slices : slices[i] \in Seq(0 .. 255)

\* Round trip (spec 4.10 and quantified invariant 4): once assert_soundness
\* has passed, get_file_count is the number of files the builder added and
\* every get_file_slice returns exactly the bytes of that file.
RoundTrip ==
  phase # "build" /\ ~corrupted =>
    /\ get_file_count(img) = Len(files)
    /\ \A i \in DOMAIN slices : slices[i] = files[i + 1]

\* assert_soundness passes if and only if the image is the one the builder
\* wrote: a single changed byte anywhere (length, checksum, count, region
\* ends or payload) makes it panic, and an intact image never does.
SoundIffIntact ==
  /\ phase = "checked" => ~corrupted
  /\ phase = "rejected" => corrupted
====
