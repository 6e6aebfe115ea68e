------------------------------ MODULE MCMemory ------------------------------
EXTENDS Memory, TLC

MCPages == 1..15
Load(vaddr, memsz, filesz) == [vaddr |-> vaddr, memsz |-> memsz, filesz |-> filesz]
\* A small program, one with data, and files no linker makes: a segment larger in the file, one
\* past the end of the address space, one not aligned, one in the kernel.
MCPrograms == {<<Load(0, 2, 1)>>, <<Load(0, 1, 1), Load(2, 2, 1)>>, <<Load(0, 1, 2)>>, <<Load(14, 4, 2)>>,
               <<Load(0, 1, 1), Load(1, 2, 1)>>, <<Load(8, 2, 2)>>, <<>>}
MCAmounts == {-15, -8, -4, -3, -2, -1, 0, 1, 2, 3, 6, 12}
=============================================================================
