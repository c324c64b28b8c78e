------------------------------ MODULE MCRamDisk ------------------------------
EXTENDS RamDisk

\* Two non-empty files of different lengths, as create_ram_disk adds
\* (two programs and a picture, all non-empty).
MCFileChoices == {<<1>>, <<2, 3>>}

\* add_file accepts an empty file (and add_string an empty string).
MCEmptyFileChoices == {<<>>, <<1>>}
====
