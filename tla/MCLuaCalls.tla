----------------------------- MODULE MCLuaCalls -----------------------------
EXTENDS LuaCalls
=============================================================================
