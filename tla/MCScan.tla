------------------------------- MODULE MCScan -------------------------------
EXTENDS Scan, MCCollect
=============================================================================
