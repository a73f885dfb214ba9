---------------------------- MODULE MCLuaThreads ----------------------------
EXTENDS LuaThreads
=============================================================================
