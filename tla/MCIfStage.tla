------------------------------ MODULE MCIfStage ------------------------------
EXTENDS IfStage

\* Between them every state of the aligner meets both widths, and loops can jump.
MCPrograms == {{0, 2, 3}, {0, 3}}
=============================================================================
