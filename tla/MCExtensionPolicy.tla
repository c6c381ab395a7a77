-------------------------- MODULE MCExtensionPolicy --------------------------
EXTENDS ExtensionPolicy
MCWriters == {1, 3}
===============================================================================
