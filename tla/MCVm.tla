---------------------------------- MODULE MCVm ----------------------------------
EXTENDS Vm, TLC

MHigh == 10 .. 15
MLow  == 0 .. 2

NoMishap == ~mishap

===============================================================================
