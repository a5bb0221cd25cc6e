SPECIFICATION Spec
CONSTANTS
    Pointers = {thumb, index}
    Buttons = {up, left}
    KeyButtons = {up, left}
    Timers = {1, 2, 3, 4, 5}
PROPERTY
    RepeatsWhileHeld
