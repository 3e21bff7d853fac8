---------------------------- MODULE MCCodeAllocator ----------------------------
EXTENDS CodeAllocator

AllPlatforms == [rwx : BOOLEAN, segment : BOOLEAN, remap : BOOLEAN]

=============================================================================
